---------------------------- MODULE VariablesCache ----------------------------
(***************************************************************************)
(* CachingFigmaApiAdapter.getVariablesLocal: the positive and the negative *)
(* cache of one key (fileKey|version), shared by concurrent adapters that  *)
(* were built with different timeout caps.                                 *)
(*                                                                         *)
(* Each caller is one adapter instance with a call at a time (calls of one *)
(* instance share a fetch).  Time is in ticks and kept as what is left of  *)
(* each timer, so that the state is finite without a bound on the clock.   *)
(* A caller with a deadline (get_design_context) was built with its cap    *)
(* equal to the time it had left; the version lookup and the semaphore     *)
(* queue then spend part of it before the request is dispatched.           *)
(***************************************************************************)
EXTENDS Integers

CONSTANTS Callers,
          Cap,          \* timeoutMs of a caller's adapter
          WithDeadline, \* the callers that also carry a deadlineAt
          PosTTL,       \* TTL of variablesCache
          ErrTTL,       \* TTL of variablesErrorCache
          SoftTTL       \* TOO_LARGE_SOFT_EXPIRY_MS

ASSUME VariablesCacheAssumption ==
  /\ Cap \in [Callers -> Nat \ {0}]
  /\ WithDeadline \subseteq Callers
  /\ PosTTL \in Nat \ {0} /\ ErrTTL \in Nat \ {0} /\ SoftTTL \in Nat \ {0}

(* The default TTL (300 s) exceeds the largest cap (120 s).                *)
ASSUME PositiveOutlivesCalls == \A c \in Callers : Cap[c] < PosTTL

(* How a request can fail; tooLarge is the 400 whose reason names the      *)
(* load-dependent size limit, bailout the request never sent.              *)
Kinds     == {"upstream", "unknown_4xx", "tooLarge", "timeout",
              "forbidden", "rate_limited", "reset", "bailout"}
Fast      == Kinds \ {"timeout", "bailout"}
Cacheable == {"upstream", "unknown_4xx", "tooLarge", "timeout"}

Stages == {"idle", "queued", "sent", "served", "denied", "fetched", "failed"}
(* A marker; waited and deadline are history: the abort timer of the request *)
(* that failed and whether a deadline could have shortened it.              *)
Markers  == [kind : Kinds, cap : Nat, waited : Nat, deadline : BOOLEAN]
NoMarker == [kind |-> "bailout", cap |-> 0, waited |-> 0, deadline |-> FALSE]

VARIABLES
  posLeft,  \* life left of the positive entry, 0: none
  marker, markLeft, softLeft, \* the negative entry, its hard and its soft life
  stage,    \* where each call stands
  budget,   \* what a call's deadline leaves it, once called
  left,     \* what is left of a sent request's abort timer
  waited,   \* history: the abort timer the request was sent with
  eclipsed, \* history: calls sent before a success whose response was kept
  refuted   \* history: the marker's request was sent before such a success

vars == <<posLeft, marker, markLeft, softLeft, stage, budget, left, waited,
          eclipsed, refuted>>

Less(n) == IF n = 0 THEN 0 ELSE n - 1
Sent    == {c \in Callers : stage[c] = "sent"}

TypeOK ==
  /\ posLeft \in 0..PosTTL /\ markLeft \in 0..ErrTTL /\ softLeft \in 0..SoftTTL
  /\ marker \in Markers
  /\ stage \in [Callers -> Stages]
  /\ budget \in [Callers -> Nat] /\ left \in [Callers -> Nat]
  /\ waited \in [Callers -> Nat]
  /\ \A c \in Callers : budget[c] <= Cap[c] /\ left[c] <= Cap[c] /\ waited[c] <= Cap[c]
  /\ eclipsed \in SUBSET Callers /\ refuted \in BOOLEAN

Init ==
  /\ posLeft = 0 /\ marker = NoMarker /\ markLeft = 0 /\ softLeft = 0
  /\ stage = [c \in Callers |-> "idle"]
  /\ budget = [c \in Callers |-> 0] /\ left = [c \in Callers |-> 0]
  /\ waited = [c \in Callers |-> 0]
  /\ eclipsed = {} /\ refuted = FALSE

--------------------------------------------------------------------------------
(* The cap-aware read of the marker, with its soft expiry.                 *)
SoftOpen(c) == marker.kind = "tooLarge" /\ softLeft = 0 /\ Cap[c] >= marker.cap
(* Mutant: a marker denies everybody, whatever their cap.                   *)
DeniesAnyCap(c) == markLeft > 0 /\ ~SoftOpen(c)
Denies(c) == markLeft > 0 /\ Cap[c] <= marker.cap /\ ~SoftOpen(c)

Enter(c, to, b) ==
  /\ stage[c] = "idle"
  /\ stage' = [stage EXCEPT ![c] = to]
  /\ budget' = [budget EXCEPT ![c] = b]
  /\ UNCHANGED <<posLeft, marker, markLeft, softLeft, left, waited, eclipsed, refuted>>

CallServed(c) == posLeft > 0 /\ Enter(c, "served", 0)
CallDenied(c) == posLeft = 0 /\ Denies(c) /\ Enter(c, "denied", 0)

Budgets(c) == IF c \in WithDeadline THEN 0..Cap[c] ELSE {Cap[c]}
CallMisses(c) == /\ posLeft = 0 /\ ~Denies(c)
                 /\ \E b \in Budgets(c) : Enter(c, "queued", b)

(* The semaphore lets the request go: it is sent with what the deadline     *)
(* leaves of the cap, or not at all.                                        *)
Dispatch(c) ==
  /\ stage[c] = "queued" /\ budget[c] > 0
  /\ stage' = [stage EXCEPT ![c] = "sent"]
  /\ left' = [left EXCEPT ![c] = budget[c]]
  /\ waited' = [waited EXCEPT ![c] = budget[c]]
  /\ budget' = [budget EXCEPT ![c] = 0]
  /\ UNCHANGED <<posLeft, marker, markLeft, softLeft, eclipsed, refuted>>

(* A response came.  An oversized one is returned but not kept, and set      *)
(* drops the entry it would have replaced.                                  *)
Succeed(c, kept) ==
  /\ stage[c] = "sent"
  /\ stage' = [stage EXCEPT ![c] = "fetched"]
  /\ left' = [left EXCEPT ![c] = 0] /\ waited' = [waited EXCEPT ![c] = 0]
  /\ posLeft' = IF kept THEN PosTTL ELSE 0
  /\ markLeft' = 0 /\ marker' = NoMarker /\ softLeft' = 0
  /\ eclipsed' = IF kept THEN Sent \ {c} ELSE {}
  /\ refuted' = (kept \/ refuted)
  /\ UNCHANGED budget

(* The write rule of the catch: a whitelist, unless a live positive entry   *)
(* eclipses the failure.  Mutant: no eclipse.                               *)
WritesUneclipsed(kind) == kind \in Cacheable
Writes(kind) == kind \in Cacheable /\ posLeft = 0

Fail(c, kind) ==
  /\ stage' = [stage EXCEPT ![c] = "failed"]
  /\ left' = [left EXCEPT ![c] = 0] /\ waited' = [waited EXCEPT ![c] = 0]
  /\ budget' = [budget EXCEPT ![c] = 0]
  /\ eclipsed' = eclipsed \ {c}
  /\ IF Writes(kind)
     THEN /\ marker' = [kind |-> kind, cap |-> Cap[c], waited |-> waited[c],
                       deadline |-> c \in WithDeadline]
          /\ markLeft' = ErrTTL
          /\ softLeft' = IF kind = "tooLarge" THEN SoftTTL ELSE 0
          /\ refuted' = (c \in eclipsed)
     ELSE UNCHANGED <<marker, markLeft, softLeft, refuted>>
  /\ UNCHANGED posLeft

FailFast(c, kind) == stage[c] = "sent" /\ Fail(c, kind)
TimeOut(c)        == stage[c] = "sent" /\ left[c] = 0 /\ Fail(c, "timeout")
BailOut(c)        == stage[c] = "queued" /\ budget[c] = 0 /\ Fail(c, "bailout")

Return(c) ==
  /\ stage[c] \in {"served", "denied", "fetched", "failed"}
  /\ stage' = [stage EXCEPT ![c] = "idle"]
  /\ UNCHANGED <<posLeft, marker, markLeft, softLeft, budget, left, waited,
                 eclipsed, refuted>>

(* The caches are bounded: either entry may be evicted to make room.        *)
EvictPositive ==
  /\ posLeft > 0 /\ posLeft' = 0 /\ eclipsed' = {}
  /\ UNCHANGED <<marker, markLeft, softLeft, stage, budget, left, waited, refuted>>
EvictMarker ==
  /\ markLeft > 0 /\ markLeft' = 0 /\ marker' = NoMarker /\ softLeft' = 0
  /\ UNCHANGED <<posLeft, stage, budget, left, waited, eclipsed, refuted>>

(* Timers fire on time: no tick while an abort is due.                      *)
Tick ==
  /\ \A c \in Sent : left[c] > 0
  /\ posLeft' = Less(posLeft) /\ markLeft' = Less(markLeft) /\ softLeft' = Less(softLeft)
  /\ marker' = IF markLeft <= 1 THEN NoMarker ELSE marker
  /\ budget' = [c \in Callers |-> IF c \in WithDeadline THEN Less(budget[c]) ELSE budget[c]]
  /\ left' = [c \in Callers |-> Less(left[c])]
  /\ UNCHANGED <<stage, waited, eclipsed, refuted>>

CallerStep(c) ==
  \/ CallServed(c) \/ CallDenied(c) \/ CallMisses(c) \/ Dispatch(c)
  \/ \E kept \in BOOLEAN : Succeed(c, kept)
  \/ \E kind \in Fast : FailFast(c, kind)
  \/ TimeOut(c) \/ BailOut(c) \/ Return(c)

Next == Tick \/ EvictPositive \/ EvictMarker \/ \E c \in Callers : CallerStep(c)
Spec == Init /\ [][Next]_vars
--------------------------------------------------------------------------------
(* Properties.                                                              *)

(* The eclipse guard and the delete on success together: a live marker      *)
(* never comes from a request sent before a success whose response was      *)
(* kept, however slowly that request failed.                                *)
NotResurrected == markLeft > 0 => ~refuted

(* A call is denied from the cache only on token-independent evidence, of a *)
(* request built to wait at least as long; a size-limit marker denies a     *)
(* caller that could retry only within its soft life; and where no deadline *)
(* shortened the failed request, a timeout denies nobody who would have     *)
(* waited longer than it did.                                               *)
Denied(c) == stage[c] # "denied" /\ stage'[c] = "denied"
DenialIsWarranted ==
  [][\A c \in Callers : Denied(c) =>
       /\ marker.kind \in Cacheable
       /\ Cap[c] <= marker.cap
       /\ marker.kind = "tooLarge" /\ Cap[c] = marker.cap => softLeft > 0
       /\ marker.kind = "timeout" /\ ~marker.deadline => Cap[c] <= marker.waited]_vars

(* caching-figma-api.ts: capMs is "the timeout cap under which the failure  *)
(* was observed", so that a timeout is evidence for "exactly the callers    *)
(* configured to wait no longer": nobody else is denied.                    *)
ShorterWaitNeverDenies ==
  [][\A c \in Callers : Denied(c) /\ marker.kind = "timeout" =>
       Cap[c] <= marker.waited]_vars
================================================================================
