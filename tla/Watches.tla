-------------------------------- MODULE Watches --------------------------------
(***************************************************************************)
(* The loops that look at a file or a URL from time to time and load it    *)
(* anew when it has changed: generate --watch (spec, and url with --url),  *)
(* the spans of the cost server, the tree that the BOM server scans or the *)
(* runner's fixtures, the agent's config.  The gateway's policy watch is   *)
(* in Gateway.                                                             *)
(*                                                                         *)
(* Another program writes: ver counts the versions.  A file is truncated   *)
(* and then filled, and the clock of its mtime may stand still between;    *)
(* two versions of a file never have one mtime.  A URL may serve a         *)
(* document that cannot be used, and two versions within one second.       *)
(***************************************************************************)
EXTENDS Integers

CONSTANT MaxVer  \* versions written

ASSUME VersionsAssumption == MaxVer \in Nat \ {0}

FileKinds == {"spec", "spans", "tree", "config"}
WatchKinds == FileKinds \cup {"url"}
None == 0

VARIABLES
  watched,          \* what is watched
  tagged, dated,    \* a URL that gives ETag, Last-Modified
  ver, whole, stamp,
  at,               \* "boot", "arm", "idle", "load", "store": where the loop is
  lastMtime, stat,       \* lastMtimeMs, and the mtime of this round
  prev,             \* what is kept of the last response: its etag, date, hash
  reply,            \* the response of this round
  shown,            \* the version that was loaded last, None for a part of one
  excused           \* missing the last version is excused: see NoWriteMissed

source == <<watched, tagged, dated>>
written == <<ver, whole, stamp>>
watchVars == <<source, written, at, lastMtime, stat, prev, reply, shown, excused>>

Validators(t, d, h) == [etag |-> t, date |-> d, hash |-> h]
NoReply == [fresh |-> FALSE, ver |-> None, whole |-> FALSE, date |-> None]

WatchInit ==
  /\ watched \in WatchKinds
  /\ tagged \in BOOLEAN /\ dated \in BOOLEAN
  /\ watched # "url" => ~tagged /\ ~dated
  /\ ver = 1 /\ whole = TRUE /\ stamp = 1
  /\ at = "boot" /\ lastMtime = 0 /\ stat = 0
  /\ prev = Validators(None, None, None) /\ reply = NoReply
  /\ shown = None /\ excused = FALSE

(***************************************************************************)
(* The other program.                                                      *)
(***************************************************************************)
\* A write between the first load and the first look at the mtime is not seen.
Truncate ==
  /\ watched # "url" /\ whole /\ ver < MaxVer
  /\ whole' = FALSE /\ ver' = ver + 1 /\ stamp' = stamp + 1
  /\ excused' = (excused \/ at = "arm")
Fill ==
  /\ watched # "url" /\ ~whole
  /\ whole' = TRUE /\ stamp' \in {stamp, stamp + 1} /\ UNCHANGED ver
  /\ excused' = (excused \/ at = "arm")

\* Without an ETag, a second version in one second has the date of the first.
Publish ==
  /\ watched = "url" /\ ver < MaxVer
  /\ ver' = ver + 1 /\ whole' \in BOOLEAN /\ stamp' \in {stamp, stamp + 1}
  /\ excused' = (excused \/ (dated /\ ~tagged /\ stamp' = stamp))

Writes ==
  /\ Truncate \/ Fill \/ Publish
  /\ UNCHANGED <<source, at, lastMtime, stat, prev, reply, shown>>

(***************************************************************************)
(* A file.                                                                 *)
(***************************************************************************)
\* The command loads before the watch begins, or ends when it cannot.
Boot ==
  /\ at = "boot" /\ whole
  /\ shown' = ver
  /\ IF watched = "url"
     THEN prev' = Validators(IF tagged THEN ver ELSE None, IF dated THEN stamp ELSE None, ver)
          /\ at' = "idle"
     ELSE at' = "arm" /\ UNCHANGED prev
  /\ UNCHANGED <<source, written, lastMtime, stat, reply, excused>>

Arm ==
  /\ at = "arm" /\ lastMtime' = stamp /\ at' = "idle"
  /\ UNCHANGED <<source, written, stat, prev, reply, shown, excused>>

\* Only generate --watch takes the mtime as seen before it reads.
StoredFirst == watched = "spec"
\* Mutant: all do.
Poll_StoresFirst ==
  /\ at = "idle" /\ watched # "url" /\ stamp > lastMtime
  /\ stat' = stamp /\ at' = "load" /\ lastMtime' = stamp
  /\ UNCHANGED <<source, written, prev, reply, shown, excused>>
Poll ==
  /\ at = "idle" /\ watched # "url" /\ stamp > lastMtime
  /\ stat' = stamp /\ at' = "load"
  /\ lastMtime' = IF StoredFirst THEN stamp ELSE lastMtime
  /\ UNCHANGED <<source, written, prev, reply, shown, excused>>

\* The load, and the snapshot, the files or the settings made from it.
Load ==
  /\ at = "load" /\ watched # "url" /\ whole
  /\ shown' = ver /\ excused' = FALSE
  /\ at' = IF StoredFirst THEN "idle" ELSE "store"
  /\ UNCHANGED <<source, written, lastMtime, stat, prev, reply>>

\* A half-written document that parses (YAML), or a tree with one in it.
LoadPart ==
  /\ at = "load" /\ watched \in {"spec", "tree"} /\ ~whole
  /\ shown' = None /\ excused' = TRUE
  /\ at' = IF StoredFirst THEN "idle" ELSE "store"
  /\ UNCHANGED <<source, written, lastMtime, stat, prev, reply>>

\* It cannot be parsed or, whole, not be used: a full disk, a bad value.
LoadFails ==
  /\ at = "load" /\ watched # "url"
  /\ at' = "idle" /\ excused' = (excused \/ StoredFirst)
  /\ UNCHANGED <<source, written, lastMtime, stat, prev, reply, shown>>

Store ==
  /\ at = "store" /\ lastMtime' = stat /\ at' = "idle"
  /\ UNCHANGED <<source, written, stat, prev, reply, shown, excused>>

(***************************************************************************)
(* A URL.                                                                  *)
(***************************************************************************)
\* The server (external): If-None-Match goes before If-Modified-Since.
NotModified ==
  IF prev.etag # None THEN prev.etag = ver
  ELSE prev.date # None /\ stamp <= prev.date

\* fetchOpenApiText: an error or a timeout leaves everything as it is.
Fetch ==
  /\ at = "idle" /\ watched = "url"
  /\ reply' = [fresh |-> ~NotModified, ver |-> ver, whole |-> whole, date |-> stamp]
  /\ at' = "load"
  /\ UNCHANGED <<source, written, lastMtime, stat, prev, shown, excused>>

\* remoteSpecChange, of a body.
Changed == reply.fresh /\ prev.hash # reply.ver

\* nextWatchState is kept before the document is parsed and generated from.
KeptValidators == IF reply.fresh
        THEN Validators(IF tagged THEN reply.ver ELSE None, IF dated THEN reply.date ELSE None, reply.ver)
        ELSE prev
Regenerate ==
  /\ at = "load" /\ watched = "url"
  /\ prev' = KeptValidators /\ at' = "idle" /\ reply' = NoReply
  /\ \/ ~Changed /\ UNCHANGED <<shown, excused>>
     \/ /\ Changed /\ reply.whole
        /\ shown' = reply.ver /\ excused' = (excused /\ reply.ver # ver)
     \/ Changed /\ excused' = TRUE /\ UNCHANGED shown
  /\ UNCHANGED <<source, written, lastMtime, stat>>

FileStep == Poll \/ Load \/ LoadPart \/ LoadFails \/ Store
WatchNext == Writes \/ Boot \/ Arm \/ FileStep \/ Fetch \/ Regenerate

WatchSpec == WatchInit /\ [][WatchNext]_watchVars

-----------------------------------------------------------------------------
(***************************************************************************)
(* Properties.                                                             *)
(***************************************************************************)
\* The type invariant.
WatchTypeOK ==
  /\ at \in {"boot", "arm", "idle", "load", "store"}
  /\ ver \in 1 .. MaxVer /\ whole \in BOOLEAN /\ stamp \in Nat
  /\ lastMtime \in Nat /\ stat \in Nat /\ shown \in 0 .. MaxVer /\ excused \in BOOLEAN
  /\ prev.hash \in 0 .. MaxVer /\ reply.ver \in 0 .. MaxVer

\* Another round would change nothing.
Quiet ==
  /\ at = "idle"
  /\ IF watched = "url" THEN NotModified \/ prev.hash = ver ELSE stamp <= lastMtime

\* A watch comes to rest only on the version that was written last, however its
\* rounds and the writes interleave - serve.js:194 "mtime advances only after a
\* successful reload" - but for these: a write before the first look; a part
\* that was taken for the whole; a generation that failed, in the two watches of
\* the generator; and a URL without ETag that changed twice in a second.
NoWriteMissed == Quiet /\ whole /\ ~excused => shown = ver
=============================================================================
