------------------------------- MODULE EnvGraph -------------------------------
(***************************************************************************)
(* createEnvGraph: the single-tenant library graph, built in memory by a   *)
(* sync of the configured teams, shared by concurrent callers of           *)
(* ensureReady, kept for TTL after a confirmed build and retried Retry     *)
(* after an attempt that was not.                                          *)
(*                                                                         *)
(* A graph is the set of libraries it was built from.  Timers hold what is *)
(* left of them.  syncUser swallows the failure of a team, project or file *)
(* fetch: here a library is either collected or lost.                      *)
(***************************************************************************)
EXTENDS Integers, FiniteSets

CONSTANTS Callers,  \* requests that await ensureReady
          Libs,     \* library files of the configured teams
          TTL, Retry,
          None      \* no graph built yet

ASSUME EnvGraphAssumption ==
  /\ IsFiniteSet(Libs) /\ Libs # {}
  /\ TTL \in Nat \ {0} /\ Retry \in Nat \ {0}
  /\ \A S \in SUBSET Libs : None # S
  /\ \A n \in 0..Cardinality(Libs) : None # n

VARIABLES
  graph, stats,  \* graph, lastStats: published together
  ttlLeft,       \* what is left of ttlMs since lastSuccessAt
  retryLeft,     \* what is left of retryIntervalMs since lastAttemptAt
  degraded,      \* lastAttemptDegraded
  inflight,      \* a build is in flight
  todo, libs,    \* the build: libraries still to fetch, libraries collected
  waiting,       \* callers awaiting the build in flight
  outage         \* Figma: fetches may fail

refreshing == <<graph, stats, ttlLeft, retryLeft, degraded, inflight, todo, libs, waiting, outage>>
build == <<inflight, todo, libs, waiting>>

Down(n) == IF n = 0 THEN 0 ELSE n - 1

GraphTypeOK ==
  /\ graph \in {None} \cup SUBSET Libs /\ stats \in {None} \cup 0..Cardinality(Libs)
  /\ ttlLeft \in 0..TTL /\ retryLeft \in 0..Retry
  /\ degraded \in BOOLEAN /\ inflight \in BOOLEAN /\ outage \in BOOLEAN
  /\ todo \in SUBSET Libs /\ libs \in SUBSET Libs /\ waiting \in SUBSET Callers

GraphInit ==
  /\ graph = None /\ stats = None /\ ttlLeft = 0 /\ retryLeft = 0 /\ degraded = FALSE
  /\ inflight = FALSE /\ todo = {} /\ libs = {} /\ waiting = {}
  /\ outage \in BOOLEAN

--------------------------------------------------------------------------------
(* ensureReady: join the build, return at once (no step), or start one.     *)
Join(c) ==
  /\ inflight /\ c \notin waiting
  /\ waiting' = waiting \cup {c}
  /\ UNCHANGED <<graph, stats, ttlLeft, retryLeft, degraded, inflight, todo, libs, outage>>

(* Mutant: an attempt that was not confirmed is never repeated.             *)
DueOnlyConfirmed == ~inflight /\ ttlLeft = 0 /\ ~degraded
Due == ~inflight /\ ttlLeft = 0 /\ ~(degraded /\ retryLeft > 0)

Start(c) ==
  /\ Due
  /\ retryLeft' = Retry /\ degraded' = TRUE
  /\ inflight' = TRUE /\ todo' = Libs /\ libs' = {} /\ waiting' = {c}
  /\ UNCHANGED <<graph, stats, ttlLeft, outage>>

Collect(l) ==
  /\ inflight /\ l \in todo
  /\ todo' = todo \ {l} /\ libs' = libs \cup {l}
  /\ UNCHANGED <<graph, stats, ttlLeft, retryLeft, degraded, inflight, waiting, outage>>

Lose(l) ==
  /\ inflight /\ l \in todo /\ outage
  /\ todo' = todo \ {l}
  /\ UNCHANGED <<graph, stats, ttlLeft, retryLeft, degraded, inflight, libs, waiting, outage>>

(* The build promise settles: the first awaiter clears inflight, all return. *)
(* Mutant: only a caller that is alone clears it.                            *)
SettleLeavesInflight ==
  /\ inflight' = (Cardinality(waiting) > 1) /\ todo' = {} /\ libs' = {}
  /\ waiting' = IF inflight' THEN waiting ELSE {}
Settle == inflight' = FALSE /\ waiting' = {} /\ todo' = {} /\ libs' = {}

(* Mutant: the statistics stay those of the first graph.                    *)
PublishKeepsStats == graph' = libs /\ stats' = IF stats = None THEN Cardinality(libs) ELSE stats
Publish == graph' = libs /\ stats' = Cardinality(libs)

(* Mutant: whatever was built is published.                                 *)
BuiltAlwaysPublishes ==
  /\ inflight /\ todo = {}
  /\ Publish
  /\ IF libs # {} THEN ttlLeft' = TTL /\ degraded' = FALSE ELSE UNCHANGED <<ttlLeft, degraded>>
  /\ Settle
  /\ UNCHANGED <<retryLeft, outage>>
Built ==
  /\ inflight /\ todo = {}
  /\ \/ /\ libs # {}
        /\ Publish
        /\ ttlLeft' = TTL /\ degraded' = FALSE
     \/ /\ libs = {} /\ graph \notin {None, {}}
        /\ UNCHANGED <<graph, stats, ttlLeft, degraded>>
     \/ /\ libs = {} /\ graph \in {None, {}}
        /\ Publish
        /\ UNCHANGED <<ttlLeft, degraded>>
  /\ Settle
  /\ UNCHANGED <<retryLeft, outage>>

BuildThrows ==
  /\ inflight /\ outage
  /\ Settle
  /\ UNCHANGED <<graph, stats, ttlLeft, retryLeft, degraded, outage>>

GraphTick ==
  /\ ttlLeft' = Down(ttlLeft) /\ retryLeft' = Down(retryLeft)
  /\ UNCHANGED <<graph, stats, degraded, build, outage>>

Weather ==
  /\ outage' = ~outage
  /\ UNCHANGED <<graph, stats, ttlLeft, retryLeft, degraded, build>>

BuildStep == Built \/ BuildThrows \/ \E l \in Libs : Collect(l) \/ Lose(l)

GraphNext ==
  \/ GraphTick \/ Weather \/ BuildStep
  \/ \E c \in Callers : Join(c) \/ Start(c)

(* Timers run, a fetch ends (it has a timeout), and requests keep coming.   *)
GraphSpec ==
  /\ GraphInit /\ [][GraphNext]_refreshing
  /\ WF_refreshing(GraphTick) /\ WF_refreshing(BuildStep)
  /\ WF_refreshing(\E c \in Callers : Start(c))
--------------------------------------------------------------------------------
(* Properties.                                                              *)

(* "Replacing good data with an empty graph would silently degrade          *)
(* resolution": once a library resolves, no later attempt, however it ends, *)
(* leaves callers with no library at all.                                   *)
StaleGoodRetained ==
  [][graph \notin {None, {}} => graph' \notin {None, {}}]_refreshing

(* "stats() and resolve() never disagree", and inside its TTL a graph is a  *)
(* confirmed one: it resolves something, and no build is running to replace *)
(* it.                                                                      *)
PublishedTogether ==
  /\ graph = None <=> stats = None
  /\ graph # None => stats = Cardinality(graph)
  /\ ttlLeft > 0 => graph \notin {None, {}} /\ ~inflight /\ ~degraded

(* Nobody awaits a build that does not run, and every caller that joined    *)
(* one returns.                                                             *)
CallersReturn == \A c \in Callers : c \in waiting ~> c \notin waiting

(* Once Figma answers for good, the graph is confirmed again and again: a   *)
(* failed or partial attempt never stops the retries.                       *)
Recovers == <>[]~outage => []<>(ttlLeft > 0)
================================================================================
