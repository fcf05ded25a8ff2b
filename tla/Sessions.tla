------------------------------- MODULE Sessions -------------------------------
(***************************************************************************)
(* The session ids of the MCP gateway's Streamable HTTP surface: the store *)
(* of mcp-http.js and the requests of server.js that ask it.               *)
(*                                                                         *)
(* Each request is one synchronous step of node.  The two maps of the      *)
(* store keep the order of insertion, so they are sequences of ids, oldest *)
(* first.  Times are kept as the time since an id was last taken, up to    *)
(* SessionTtl.  A POST without an id asks nothing of the store and is left *)
(* out.                                                                    *)
(***************************************************************************)
EXTENDS Integers, Sequences, FiniteSets

CONSTANTS
  SessionIds,  \* sent by clients, or drawn by initialize
  SessionTtl,  \* sessionTtlSec, in ticks; 0 is no expiry
  MaxIds       \* sessionMaxIds, of each map; 0 is no cap

ASSUME TtlAssumption == SessionTtl \in Nat
ASSUME CapAssumption == MaxIds \in Nat

VARIABLES
  seen,          \* lastSeen
  deleted,       \* the tombstones
  idle,          \* time since an id was last touched, forgotten or not; -1: never
  sessionReply,  \* the last answer that concerned an id
  ended,         \* history: ids that were terminated
  endedAfter     \* history: terminations after an id's own, up to MaxIds

sessionsVars == <<seen, deleted, idle, sessionReply, ended, endedAfter>>

Members(s) == {s[i] : i \in DOMAIN s}

SessionsInit ==
  /\ seen = <<>> /\ deleted = <<>>
  /\ idle = [id \in SessionIds |-> -1]
  /\ sessionReply = <<>>
  /\ ended = {} /\ endedAfter = [id \in SessionIds |-> 0]

(***************************************************************************)
(* The store.                                                              *)
(***************************************************************************)
\* map.delete: an id is in a map once.
Without(s, id) ==
  IF id \in Members(s)
  THEN LET k == CHOOSE i \in DOMAIN s : s[i] = id
       IN [i \in 1 .. Len(s) - 1 |-> IF i < k THEN s[i] ELSE s[i + 1]]
  ELSE s

\* dropOldestFrom.
Newest(s) ==
  IF MaxIds = 0 \/ Len(s) <= MaxIds THEN s ELSE SubSeq(s, Len(s) - MaxIds + 1, Len(s))

SessionExpired(id) == SessionTtl > 0 /\ idle[id] >= SessionTtl

\* touch(); Map.set alone would leave an id where it is.
\* Mutant: what is evicted is taken for terminated.
TouchSession_Buries(id) ==
  /\ seen' = Newest(Append(Without(seen, id), id))
  /\ deleted' = Newest(Without(deleted, id) \o SelectSeq(seen, LAMBDA i : i \notin Members(seen')))
  /\ idle' = [idle EXCEPT ![id] = 0]
TouchSession(id) ==
  /\ deleted' = Without(deleted, id)
  /\ seen' = Newest(Append(Without(seen, id), id))
  /\ idle' = [idle EXCEPT ![id] = 0]

(***************************************************************************)
(* POST /mcp with an id: check(), before the method is looked at.          *)
(***************************************************************************)
\* Known and not idle for too long, or unknown; initialize touches it again.
AcceptSession(id) ==
  /\ id \notin Members(deleted)
  /\ id \in Members(seen) => ~SessionExpired(id)
  /\ TouchSession(id)
  /\ sessionReply' = <<id, "ok">>
  /\ UNCHANGED <<ended, endedAfter>>

\* 404 session_expired; the id is forgotten.
TellExpired(id) ==
  /\ id \notin Members(deleted) /\ id \in Members(seen) /\ SessionExpired(id)
  /\ seen' = Without(seen, id)
  /\ sessionReply' = <<id, "expired">>
  /\ UNCHANGED <<deleted, idle, ended, endedAfter>>

\* 404 session_not_found.
RefuseSession(id) ==
  /\ id \in Members(deleted)
  /\ sessionReply' = <<id, "not_found">>
  /\ UNCHANGED <<seen, deleted, idle, ended, endedAfter>>

(***************************************************************************)
(* DELETE /mcp and DELETE /admin/sessions/{id}: drop().                    *)
(***************************************************************************)
EndedMore(id) ==
  endedAfter' = [i \in SessionIds |->
    IF i = id THEN 0
    ELSE IF i \in ended /\ endedAfter[i] < MaxIds THEN endedAfter[i] + 1 ELSE endedAfter[i]]

\* 204, or 500 when the audit line cannot be written: the session is gone.
\* Mutant: a live id is forgotten without a tombstone.
DropSession_NoTombstone(id) ==
  /\ id \notin Members(deleted) /\ id \in Members(seen) /\ ~SessionExpired(id)
  /\ seen' = Without(seen, id)
  /\ sessionReply' = <<id, "dropped">>
  /\ ended' = ended \cup {id}
  /\ EndedMore(id)
  /\ UNCHANGED <<deleted, idle>>
DropSession(id) ==
  /\ id \notin Members(deleted) /\ id \in Members(seen) /\ ~SessionExpired(id)
  /\ seen' = Without(seen, id)
  /\ deleted' = Newest(Append(Without(deleted, id), id))
  /\ sessionReply' = <<id, "dropped">>
  /\ ended' = ended \cup {id}
  /\ EndedMore(id)
  /\ UNCHANGED idle

\* 404; an expired id is forgotten on the way.
DropExpired(id) ==
  /\ id \notin Members(deleted) /\ id \in Members(seen) /\ SessionExpired(id)
  /\ seen' = Without(seen, id)
  /\ sessionReply' = <<id, "no_session">>
  /\ UNCHANGED <<deleted, idle, ended, endedAfter>>

DropUnknown(id) ==
  /\ id \in Members(deleted) \/ id \notin Members(seen)
  /\ sessionReply' = <<id, "no_session">>
  /\ UNCHANGED <<seen, deleted, idle, ended, endedAfter>>

(***************************************************************************)
(* list(), for GET /admin/sessions and GET /admin/config: expired ids are  *)
(* forgotten.                                                              *)
(***************************************************************************)
ListSessions ==
  /\ seen' = SelectSeq(seen, LAMBDA id : ~SessionExpired(id))
  /\ sessionReply' = <<>>
  /\ UNCHANGED <<deleted, idle, ended, endedAfter>>

SessionTick ==
  /\ \E id \in SessionIds : idle[id] \in 0 .. SessionTtl - 1
  /\ idle' = [id \in SessionIds |-> IF idle[id] \in 0 .. SessionTtl - 1 THEN idle[id] + 1 ELSE idle[id]]
  /\ sessionReply' = <<>>
  /\ UNCHANGED <<seen, deleted, ended, endedAfter>>

SessionsNext ==
  \/ \E id \in SessionIds : \/ AcceptSession(id) \/ TellExpired(id) \/ RefuseSession(id)
                            \/ DropSession(id) \/ DropExpired(id) \/ DropUnknown(id)
  \/ ListSessions \/ SessionTick

SessionsSpec == SessionsInit /\ [][SessionsNext]_sessionsVars

-----------------------------------------------------------------------------
(***************************************************************************)
(* Properties.                                                             *)
(***************************************************************************)
SessionReplies == {"ok", "expired", "not_found", "dropped", "no_session"}

\* The type invariant.
SessionsTypeOK ==
  /\ seen \in Seq(SessionIds) /\ deleted \in Seq(SessionIds)
  /\ idle \in [SessionIds -> -1 .. SessionTtl]
  /\ sessionReply \in {<<>>} \cup (SessionIds \X SessionReplies)
  /\ ended \subseteq SessionIds
  /\ endedAfter \in [SessionIds -> 0 .. MaxIds]

\* A terminated session is taken again only if MaxIds others were terminated
\* after it: no order of uses, expiries and listings brings it back earlier.
EndedRefused ==
  [][\A id \in ended :
       sessionReply' = <<id, "ok">> => MaxIds > 0 /\ (endedAfter[id] >= MaxIds)]_sessionsVars

\* A session is refused or told that it is gone only after it was terminated
\* or was idle for SessionTtl: eviction by other clients never breaks a live one.
ActiveServed ==
  [][\A id \in SessionIds :
       sessionReply' \in {<<id, "expired">>, <<id, "not_found">>}
         => id \in ended \/ (SessionTtl > 0 /\ idle[id] >= SessionTtl)]_sessionsVars
=============================================================================
