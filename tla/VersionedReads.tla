----------------------------- MODULE VersionedReads -----------------------------
(***************************************************************************)
(* The cached reads of a file that goes on changing.  A content read first  *)
(* asks for the file's version, which is cached for VersionTTL, and keeps   *)
(* what it then fetches under that version for good, though by then the     *)
(* file may have moved on.  A projection is read at a version the caller    *)
(* names.  The file's structure is cached for StructureTTL, whatever the    *)
(* version, and its request is repeated once.                               *)
(*                                                                         *)
(* The caches are shared; an adapter, one per request to the server, joins  *)
(* concurrent reads of one key in a single flight.  Figma reads the file at *)
(* some moment of the flight and the answer arrives later, so answers may   *)
(* overtake each other.  Version and structure requests have their timer;   *)
(* content requests queue before theirs starts, so nothing bounds them here *)
(* (FigmaRequests models the queues).  getDocumentRaw, getNodesRaw and      *)
(* getImageFills have the same shape: one of them stands for the three.     *)
(***************************************************************************)
EXTENDS Integers, FiniteSets, Functions

CONSTANTS Readers, Adapters,            \* the callers; what they share flights in
          VersionTTL, StructureTTL, Timeout,
          LastRevision, MaxNow,           \* bounds of the model
          None

ASSUME VersionedReadsAssumption ==
  /\ VersionTTL \in Nat \ {0} /\ StructureTTL \in Nat /\ Timeout \in Nat \ {0}
  /\ LastRevision \in Nat \ {0} /\ MaxNow \in Nat /\ None \notin Nat

Revisions == 1..LastRevision

VARIABLES clock,
          head, until,         \* Figma: the current revision; when each other one was replaced
          versionCache, structureCache,   \* [value, expires], or None
          docCache,            \* version -> revision kept under it, or None
          pinCache,            \* the same for projections
          flights,             \* <<adapter, kind, version>> -> [since, got, again]
          reader               \* each caller's adapter, what it asks for, and its call's locals

caches == <<versionCache, structureCache, docCache, pinCache>>
reads  == <<clock, head, until, caches, flights, reader>>

ReadKinds == {"doc", "pin", "structure"}
NoRead(a, kind) == [at |-> "idle", on |-> a, kind |-> kind, version |-> None, began |-> None, got |-> None]

NothingRead ==
  /\ clock = 0 /\ head = 1 /\ until = [r \in Revisions |-> None]
  /\ versionCache = None /\ structureCache = None
  /\ docCache = [v \in Revisions |-> None] /\ pinCache = [v \in Revisions |-> None]
  /\ flights = [f \in {} |-> None]

ReadsInit == NothingRead /\ reader \in [Readers -> {NoRead(a, kind) : a \in Adapters, kind \in ReadKinds}]

Put(f, x, v) == [y \in DOMAIN f \cup {x} |-> IF y = x THEN v ELSE f[y]]

--------------------------------------------------------------------------------
(* External: the file is edited; Figma reads it for a request.              *)
Publish ==
  /\ head < LastRevision
  /\ head' = head + 1 /\ until' = [until EXCEPT ![head] = clock]
  /\ UNCHANGED <<clock, caches, flights, reader>>

(* A pinned request may still be answered with another version.             *)
Sample(f) ==
  /\ flights[f].got = None
  /\ \E r \in {head} \cup (IF f[2] = "pin" THEN {f[3]} ELSE {}) : flights' = [flights EXCEPT ![f].got = r]
  /\ UNCHANGED <<clock, head, until, caches, reader>>

--------------------------------------------------------------------------------
(* Mutant: the expiry is not looked at.                                     *)
VersionForGood == versionCache # None
(* TtlCache.get drops an entry at its expiry, FileStructureCache.get after   *)
(* it; a hit leaves the expiry alone.                                       *)
VersionHit   == versionCache # None /\ clock < versionCache.expires
StructureHit == structureCache # None /\ clock <= structureCache.expires

(* dedup: a flight of the same adapter and key is joined.                   *)
Join(f) == flights' = IF f \in DOMAIN flights THEN flights
                      ELSE Put(flights, f, [since |-> clock, got |-> None, again |-> FALSE])

Flight(c, v) == <<reader[c].on, reader[c].kind, v>>
Done(c, r)   == [reader EXCEPT ![c].at = "done", ![c].got = r]
Begin(c, phase, v) == [reader EXCEPT ![c].at = phase, ![c].version = v, ![c].began = clock]
Asks(c, kind) == reader[c].at = "idle" /\ reader[c].kind = kind

(* getDocumentRaw, getNodesRaw, getImageFills: up to the version.           *)
ReadContent(c) ==
  /\ Asks(c, "doc")
  /\ \/ /\ VersionHit /\ UNCHANGED <<versionCache, flights>>
        /\ reader' = Begin(c, "keyed", versionCache.value)
     \/ /\ ~VersionHit /\ UNCHANGED versionCache /\ Join(<<reader[c].on, "version", None>>)
        /\ reader' = Begin(c, "version", None)
  /\ UNCHANGED <<clock, head, until, structureCache, docCache, pinCache>>

(* The rest of it, and getDocumentByIdsRaw: the cache under the version.    *)
Keyed(c) ==
  LET v == reader[c].version
      kept == IF reader[c].kind = "doc" THEN docCache[v] ELSE pinCache[v]
  IN  /\ reader[c].at = "keyed"
      /\ \/ kept # None /\ reader' = Done(c, kept) /\ UNCHANGED flights
         \/ kept = None /\ reader' = [reader EXCEPT ![c].at = "content"] /\ Join(Flight(c, v))
      /\ UNCHANGED <<clock, head, until, caches>>

ReadPinned(c) ==
  /\ Asks(c, "pin") /\ \E v \in 1..head : reader' = Begin(c, "keyed", v)
  /\ UNCHANGED <<clock, head, until, caches, flights>>

ReadStructure(c) ==
  /\ Asks(c, "structure")
  /\ \/ /\ StructureHit /\ UNCHANGED flights
        /\ reader' = [Begin(c, "done", None) EXCEPT ![c].got = structureCache.value]
     \/ /\ ~StructureHit /\ Join(Flight(c, None)) /\ reader' = Begin(c, "content", None)
  /\ UNCHANGED <<clock, head, until, caches>>

--------------------------------------------------------------------------------
(* A flight settles, for everybody on it.                                   *)
Aboard(f) == {c \in Readers : \/ reader[c].at = "version" /\ f = <<reader[c].on, "version", None>>
                              \/ reader[c].at = "content" /\ f = Flight(c, reader[c].version)}
Landed(f) == Restrict(flights, DOMAIN flights \ {f})
Told(f, R(_)) == [c \in Readers |-> IF c \in Aboard(f) THEN R(c) ELSE reader[c]]

(* Mutant: a projection of another version is kept under the one asked for. *)
KeepsAny(v, r) == TRUE
(* getDocumentByIdsRaw keeps what is of the version asked for.              *)
Keeps(v, r) == r = v

ArriveVersion(f) ==
  /\ f[2] = "version" /\ flights[f].got # None
  /\ versionCache' = [value |-> flights[f].got, expires |-> clock + VersionTTL]
  /\ reader' = Told(f, LAMBDA c : [reader[c] EXCEPT !.at = "keyed", !.version = flights[f].got])
  /\ flights' = Landed(f)
  /\ UNCHANGED <<clock, head, until, structureCache, docCache, pinCache>>

Arrive(f) ==
  LET r == flights[f].got
  IN  /\ f[2] # "version" /\ r # None
      /\ structureCache' = IF f[2] = "structure" THEN [value |-> r, expires |-> clock + StructureTTL] ELSE structureCache
      /\ docCache' = IF f[2] = "doc" THEN [docCache EXCEPT ![f[3]] = r] ELSE docCache
      /\ pinCache' = IF f[2] = "pin" /\ Keeps(f[3], r) THEN [pinCache EXCEPT ![f[3]] = r] ELSE pinCache
      /\ reader' = Told(f, LAMBDA c : [reader[c] EXCEPT !.at = "done", !.got = r])
      /\ flights' = Landed(f)
      /\ UNCHANGED <<clock, head, until, versionCache>>

(* A request fails, by its timer at the latest.  getFileStructure then      *)
(* sends it again, once, if the failure was one of the network.             *)
Fails(f) ==
  /\ \/ /\ f[2] = "structure" /\ ~flights[f].again
        /\ flights' = [flights EXCEPT ![f] = [since |-> clock, got |-> None, again |-> TRUE]] /\ UNCHANGED reader
     \/ flights' = Landed(f) /\ reader' = Told(f, LAMBDA c : NoRead(reader[c].on, reader[c].kind))
  /\ UNCHANGED <<clock, head, until, caches>>

ReadReturns(c) ==
  /\ reader[c].at = "done" /\ reader' = [reader EXCEPT ![c] = NoRead(reader[c].on, reader[c].kind)]
  /\ UNCHANGED <<clock, head, until, caches, flights>>

(* The count caps and the byte budget (ReadCaches) may drop an entry.       *)
Evict(v) ==
  /\ \/ docCache[v] # None /\ docCache' = [docCache EXCEPT ![v] = None] /\ UNCHANGED pinCache
     \/ pinCache[v] # None /\ pinCache' = [pinCache EXCEPT ![v] = None] /\ UNCHANGED docCache
  /\ UNCHANGED <<clock, head, until, versionCache, structureCache, flights, reader>>

(* What runs without an await takes no time, and timers fire when due.      *)
Timed(f) == f[2] \in {"version", "structure"}
ReadsTick ==
  /\ clock < MaxNow /\ \A c \in Readers : reader[c].at \notin {"keyed", "done"}
  /\ \A f \in DOMAIN flights : Timed(f) => clock < flights[f].since + Timeout
  /\ clock' = clock + 1 /\ UNCHANGED <<head, until, caches, flights, reader>>

ReadsNext ==
  \/ Publish \/ ReadsTick
  \/ \E f \in DOMAIN flights : Sample(f) \/ ArriveVersion(f) \/ Arrive(f) \/ Fails(f)
  \/ \E c \in Readers : ReadContent(c) \/ Keyed(c) \/ ReadPinned(c) \/ ReadStructure(c) \/ ReadReturns(c)
  \/ \E v \in Revisions : Evict(v)

ReadsSpec == ReadsInit /\ [][ReadsNext]_reads

--------------------------------------------------------------------------------
(* Revision r was still current at some moment from t on.                   *)
CurrentSince(r, t) == until[r] = None \/ until[r] >= t

(* However often a file changes and however the answers overtake each other, *)
(* content is at most VersionTTL and one Timeout older than the call that    *)
(* gets it, though it is kept for good under a version it is not of; the     *)
(* structure at most StructureTTL and one Timeout, and it is there or        *)
(* refused after two.  A projection in the cache is of its version.         *)
ReadsAreBounded ==
  /\ \A c \in Readers : reader[c].at = "done" =>
       \/ reader[c].kind = "doc" /\ CurrentSince(reader[c].got, reader[c].began - VersionTTL - Timeout)
       \/ reader[c].kind = "structure" /\ CurrentSince(reader[c].got, reader[c].began - StructureTTL - Timeout)
       \/ reader[c].kind = "pin"
  /\ \A c \in Readers : reader[c].kind = "structure" /\ reader[c].at = "content" => clock <= reader[c].began + 2 * Timeout
  /\ \A v \in Revisions : pinCache[v] \in {v, None} /\ (docCache[v] # None => docCache[v] >= v)
================================================================================
