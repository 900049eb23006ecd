---------------------------- MODULE FrameHydration ----------------------------
(***************************************************************************)
(* getFrameRaw over the shared FrameHydrationStore: concurrent deep        *)
(* fetches of the frames of several owners.  A raw is held only when it is *)
(* deeper than the live raw held, two LRU budgets bound what is resident,  *)
(* and a fetch that is too large falls back to a shallower held raw.       *)
(*                                                                         *)
(* A slot is one (owner, file, version, frame) key; a raw is its depth.    *)
(* lastAccess is a rank: Now is the current millisecond, FramesTick makes  *)
(* the ranks of the past dense again.  Ties fall to Map insertion order,   *)
(* which is a dense rank too, the seat.  The semaphores a fetch passes     *)
(* through only delay it (see FigmaRequests).                              *)
(***************************************************************************)
EXTENDS Integers, FiniteSets, FiniteSetsExt

CONSTANTS Hydrators,   \* calls of getFrameRaw, each on an adapter of its own
          Slots, OwnerOf,
          Depths,      \* requestedMaxDepth asked for
          Resident,    \* resident bytes of a raw of a depth
          PerTenant, Global \* budgets in resident bytes

FetchDepths == {d + 1 : d \in Depths}
Now == Cardinality(Slots)

(* The budgets are ordered as config.ts requires: a holdable raw fits.      *)
ASSUME FrameAssumption ==
  /\ IsFiniteSet(Slots) /\ PerTenant \in Nat /\ Global \in Nat
  /\ Depths \subseteq Nat \ {0} /\ Resident \in [FetchDepths -> Nat \ {0}]
  /\ \A d \in FetchDepths : Resident[d] <= PerTenant
  /\ PerTenant <= Global

VARIABLES held, stale, lastAccess, seat, \* the store: depth, expired, recency, Map order
          call                           \* the locals of each getFrameRaw

records == <<held, stale, lastAccess, seat>>
frames  == <<held, stale, lastAccess, seat, call>>

(* A call: idle, fetching a slot for a depth, or settled with an answer.    *)
NoCall      == [at |-> "idle"]
Fetching(s, d) == [at |-> "fetching", slot |-> s, want |-> d]
Answered(depth, effective) == [at |-> "answered", depth |-> depth, effective |-> effective]
Rejected    == [at |-> "rejected"]
FrameCalls ==
  {NoCall, Rejected} \cup [at : {"fetching"}, slot : Slots, want : Depths]
                     \cup [at : {"answered"}, depth : FetchDepths, effective : Nat]

FramesTypeOK ==
  /\ held \in [Slots -> {0} \cup FetchDepths]
  /\ stale \in SUBSET {s \in Slots : held[s] > 0}
  /\ lastAccess \in [Slots -> 0..Now]
  /\ seat \in [Slots -> Nat] /\ \A s \in Slots : seat[s] > 0 <=> held[s] > 0
  /\ call \in [Hydrators -> FrameCalls]

FramesInit ==
  /\ held = [s \in Slots |-> 0] /\ stale = {} /\ seat = [s \in Slots |-> 0]
  /\ lastAccess = [s \in Slots |-> 0]
  /\ call = [c \in Hydrators |-> NoCall]

--------------------------------------------------------------------------------
(* The store.                                                               *)
Resides(s) == held[s] > 0
Live(s)    == Resides(s) /\ s \notin stale

(* get: lazy expiry, depth check, touch.                                    *)
Hit(s, want) == Live(s) /\ held[s] >= want
TouchOn(s)   == lastAccess' = [lastAccess EXCEPT ![s] = Now]

(* The records that stay keep their order.                                  *)
Seats(p, stay) == [s \in Slots |-> IF s \in stay THEN Cardinality({t \in stay : p[t] <= p[s]}) ELSE 0]
Expire(s) ==
  IF s \in stale
  THEN /\ held' = [held EXCEPT ![s] = 0] /\ stale' = stale \ {s}
       /\ seat' = Seats(seat, {t \in Slots : Resides(t)} \ {s})
       /\ lastAccess' = [lastAccess EXCEPT ![s] = 0]
  ELSE UNCHANGED records

(* The resident bytes of a set of records, counted one by one.              *)
Weight(h, S) == Cardinality(UNION {{s} \X (1..Resident[h[s]]) : s \in {t \in S : h[t] > 0}})

(* Both eviction loops drop the oldest until the rest fits: what stays are  *)
(* the records that fit together with all that are younger.                 *)
(* Mutant: the most recently used record goes first.                        *)
OlderReversed(la, p, s, t) == la[s] > la[t] \/ (la[s] = la[t] /\ p[s] < p[t])
Older(la, p, s, t) == la[s] < la[t] \/ (la[s] = la[t] /\ p[s] < p[t])
(* Mutant: eviction stops one record too early.                             *)
FittingOneOver(h, la, p, S, budget) ==
  {s \in S : Weight(h, {t \in S \ {s} : ~Older(la, p, t, s)}) <= budget}
Fitting(h, la, p, S, budget) ==
  {s \in S : Weight(h, {t \in S : ~Older(la, p, t, s)}) <= budget}

(* Map.set: a key that is there keeps its place, another comes last.        *)
Seated(s) == IF Resides(s) THEN seat
             ELSE [seat EXCEPT ![s] = 1 + Cardinality({t \in Slots : Resides(t)})]

(* A live raw that is as deep stays.  Mutant: any live raw is overwritten.  *)
ShieldsNone(s, depth) == FALSE
Shields(s, depth) == Live(s) /\ held[s] >= depth
SetIfDeeper(s, depth) ==
  IF Shields(s, depth) THEN UNCHANGED records
  ELSE LET h  == [held EXCEPT ![s] = depth]
           la == [lastAccess EXCEPT ![s] = Now]
           p  == Seated(s)
           mine   == {t \in Slots : OwnerOf[t] = OwnerOf[s] /\ h[t] > 0}
           others == {t \in Slots : OwnerOf[t] # OwnerOf[s] /\ h[t] > 0}
           kept   == Fitting(h, la, p, mine, PerTenant) \cup others
       IN \E stay \in {Fitting(h, la, p, kept, Global)} :
          /\ held' = [t \in Slots |-> IF t \in stay THEN h[t] ELSE 0]
          /\ lastAccess' = [t \in Slots |-> IF t \in stay THEN la[t] ELSE 0]
          /\ seat' = Seats(p, stay)
          /\ stale' = (stale \ {s}) \cap stay

--------------------------------------------------------------------------------
(* getFrameRaw.                                                             *)
FrameHits(c, s, d) ==
  /\ call[c] = NoCall /\ Hit(s, d + 1)
  /\ TouchOn(s)
  /\ call' = [call EXCEPT ![c] = Answered(held[s], d)]
  /\ UNCHANGED <<held, stale, seat>>

FrameMisses(c, s, d) ==
  /\ call[c] = NoCall /\ ~Hit(s, d + 1)
  /\ Expire(s)
  /\ call' = [call EXCEPT ![c] = Fetching(s, d)]

InFlight(c) == call[c].at = "fetching"

(* The raw came: hold it if deeper, or deliver it only if it is oversized.  *)
Fetched(c) ==
  /\ InFlight(c)
  /\ SetIfDeeper(call[c].slot, call[c].want + 1)
  /\ call' = [call EXCEPT ![c] = Answered(@.want + 1, @.want)]

FetchedOversized(c) ==
  /\ InFlight(c)
  /\ call' = [call EXCEPT ![c] = Answered(@.want + 1, @.want)]
  /\ UNCHANGED records

(* too_large: the shallower raw that is still held, clamped; else the error. *)
(* Mutant: clamped to its depth, where nodes have lost their children.       *)
ClampToDepth(want, depth) == Min({want, depth})
Clamp(want, depth) == Min({want, depth - 1})
TooLargeClamped(c) ==
  /\ InFlight(c) /\ Hit(call[c].slot, 1)
  /\ TouchOn(call[c].slot)
  /\ call' = [call EXCEPT ![c] = Answered(held[@.slot], Clamp(@.want, held[@.slot]))]
  /\ UNCHANGED <<held, stale, seat>>

TooLargeRejected(c) ==
  /\ InFlight(c) /\ ~Hit(call[c].slot, 1)
  /\ Expire(call[c].slot)
  /\ call' = [call EXCEPT ![c] = Rejected]

FetchFails(c) ==
  /\ InFlight(c)
  /\ call' = [call EXCEPT ![c] = Rejected]
  /\ UNCHANGED records

FrameReturns(c) ==
  /\ call[c].at \in {"answered", "rejected"}
  /\ call' = [call EXCEPT ![c] = NoCall]
  /\ UNCHANGED records

(* A record passes its TTL; it stays resident until it is looked up.        *)
Lapse(s) ==
  /\ Live(s) /\ stale' = stale \cup {s}
  /\ UNCHANGED <<held, lastAccess, seat, call>>

(* The millisecond passes.                                                  *)
Dense(la) == [s \in Slots |->
  Cardinality({la[t] : t \in {u \in Slots : Resides(u) /\ la[u] < la[s]}})]
FramesTick ==
  /\ \E s \in Slots : lastAccess[s] = Now
  /\ lastAccess' = Dense(lastAccess)
  /\ UNCHANGED <<held, stale, seat, call>>

Settle(c) == \/ Fetched(c) \/ FetchedOversized(c) \/ FetchFails(c)
             \/ TooLargeClamped(c) \/ TooLargeRejected(c)

FramesNext ==
  \/ FramesTick \/ \E s \in Slots : Lapse(s)
  \/ \E c \in Hydrators : \/ Settle(c) \/ FrameReturns(c)
                        \/ \E s \in Slots, d \in Depths : FrameHits(c, s, d) \/ FrameMisses(c, s, d)
FramesSpec == FramesInit /\ [][FramesNext]_frames
--------------------------------------------------------------------------------
(* Properties.                                                              *)

(* The projection never looks below what was fetched: whatever raw a call   *)
(* is answered with, held, fetched or fallen back to, is at least one level *)
(* deeper than the depth the caller is told to project, so that a node with *)
(* absent children is never reported as childless.                          *)
NeverUnderReports ==
  \A c \in Hydrators : call[c].at = "answered" => call[c].effective < call[c].depth

(* A concurrent shallower fetch never replaces a deeper live raw: the depth *)
(* held falls only when the record is evicted or dropped whole.             *)
NeverRegresses ==
  [][\A s \in Slots : Live(s) => held'[s] >= held[s] \/ held'[s] = 0]_frames

(* What is resident fits both budgets after every step.                     *)
WithinBudgets ==
  /\ Weight(held, Slots) <= Global
  /\ \A s \in Slots : Weight(held, {t \in Slots : OwnerOf[t] = OwnerOf[s]}) <= PerTenant

(* "hydrated: true" means held: the raw a call has just put in the store is *)
(* not what the eviction it caused takes - unless another record was used   *)
(* in the very same millisecond, where the LRU order falls to Map order.    *)
Rivals(s) == {t \in Slots \ {s} : Resides(t) /\ lastAccess[t] = Now}
HydratedMeansHeld ==
  [][\A c \in Hydrators :
       InFlight(c) /\ Rivals(call[c].slot) = {} =>
         held'[call[c].slot] > call[c].want \/ ~Fetched(c)]_frames
================================================================================
