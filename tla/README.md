# framefit: a verification project

framefit is a headless Figma MCP server (`src/mcp-server/src`). A request of an
MCP client runs a *tool*; a tool reads Figma through a caching adapter over a REST
adapter; a deployment is single-tenant (stdio or HTTP, one environment token) or
multi-tenant (HTTP, one Figma token per user, a Postgres database). It is one Node
process: code between two `await`s is atomic, and every `await` is a point where
other requests, background jobs and timers run. The hard behaviour is there:
caches filled across awaits, a background sync beside the requests that read what
it writes, two nested semaphores with deadlines and aborts, retries after outages.

The project models that behaviour in TLA+, checks it with TLC on small instances,
and proves the most important parts with TLAPS for every value of the constants.
Paths below are relative to `src/mcp-server/src` unless they begin with `src/`.

## 1. Inventory

| Component | Where | State it keeps | Modelled in |
|---|---|---|---|
| Library sync, registry, graph | `multi-tenant/library-sync.ts`, `library-registry-db.ts`, `library-graph-db.ts`, `infrastructure/server.ts:521-618` | tables `registered_teams`, `library_files`, `library_variables`, `library_collections`; `graphCache`, `syncState`, the running job | LibrarySync |
| Accounts, tokens | `multi-tenant/db.ts`, `accounts-api.ts`, `validate-pat.ts`, `nightly-validation.ts` | table `pats` | Accounts; encryption, sessions, audit and usage are not modelled |
| Code Connect, variable snapshots | `multi-tenant/code-connect-*.ts`, `variable-snapshot-*.ts` | two tables an upload replaces | Uploads |
| Variables cache | `adapters/driven/caching-figma-api.ts:228-367` | `variablesCache`, `variablesErrorCache` | VariablesCache |
| Version-keyed reads | `caching-figma-api.ts:77-174`, `369-389`, `file-structure-cache.ts` | `versionCache`, `docCache`, `nodeCache`, reads in flight | VersionedReads |
| Read caches and byte budget | `infrastructure/node-cache.ts`, `cache-budget.ts` | a Map per cache, a Map in the budget, a running total | ReadCaches |
| Frame hydration store | `infrastructure/frame-hydration-store.ts`, `frame-budget.ts`, `caching-figma-api.ts:176-226` | held raws with depth, weight, recency | FrameHydration |
| DOM snapshot store and routes | `infrastructure/dom-snapshot-store.ts`, `dom-snapshot-routes.ts` | tokens and refs with two expiries | SnapshotStore |
| Single-tenant library graph | `infrastructure/env-graph.ts` | the graph, its statistics, two timestamps, the build in flight | EnvGraph |
| Semaphore | `infrastructure/semaphore.ts` | slots taken, waiters | SlotPool, Semaphore |
| Figma requests | `adapters/driven/figma-rest.ts`, `caching-figma-api.ts:210-226` | requests in flight, their abort timers | FigmaRequests |
| Anchors and ancestry | `application/resolve-anchors.ts`, `node-ancestry.ts` | a walk's frontier, calls spent, a deadline | ResolveAnchors, NodeAncestry |
| Variable graph, mode resolution | `domain/variable-graph.ts`, `mode-resolve.ts` | none (a walk) | ModeResolution, AliasRelation |
| Design context, degradation | `adapters/driving/tools/get-design-context-tool.ts`, `domain/design-context/*` | a deadline, stages done and lost | DesignContext |
| Layout specification engine | `domain/layout-spec/*`, `compare-node-to-dom-tool.ts`, `dom-extractor.ts` | none (pure), and the caller's loop around it | FrameReceipt; the property diff, the pair matcher and the report are not modelled |
| Comments, threads, review board | `application/get-comments.ts`, `domain/group-threads.ts`, ... | none | not modelled |
| Other tools | `adapters/driving/tools/*` | none | not modelled |
| Servers, command line, status | `infrastructure/server.ts`, `cli.ts`, `status.ts` | wiring | not modelled; `config.ts`'s constraints are assumptions |

How they interact: a tool calls `buildApi(token, timeoutMs, deadlineAt)`, which
wraps a REST adapter in a caching adapter. All adapters of a process share the
heavy-request semaphore, the materialize governor and the frame store; adapters of
a user (single-tenant: of the process) share the read caches; all read caches share
one byte budget. The multi-tenant `/mcp` handler loads the user's library graph
before the tool runs; the portal's `/accounts` routes register teams and start the
sync that fills it. The single-tenant server builds the same kind of graph in
memory through the same `syncUser`. The tools that compare a frame with a page get
the page from an extractor that runs in a browser and uploads what it saw to the
snapshot store.

What makes each component correct, and what is hard about it, is the list of
hazards in `PROJECT.json`, each at its line and with the properties that cover it.

## 2. The modules

### LibrarySync (`MCLibrarySync`, `MCTenants`, `LibrarySyncProofs`)

One user's registry, graph, cache and sync; users share no row and no map entry. A
row's data is the *revision* it was written from (0: no row), since all the
properties ask is whether two copies were written from the same data.

| Variable | Code |
|---|---|
| `registered`, `fileRow`, `varRow`, `collRow` | the four tables; `fileRow[f]` is the row's team |
| `cache` | `graphCache.get(user)` |
| `syncState`, `job` | the entry in `syncState`; the locals of `syncUser` between two awaits |
| `load` | a `getUserGraph` that missed, and what its two SELECTs have returned |
| `evicting` | removals whose transaction is committed and whose `.then` has not run |
| `home`, `pub` | Figma (outside): a file's project, and its published variables |
| `trouble`, `jobRaced`, `raced`, `tainted`, `overtaken` | history, only for stating properties |

Every action is what the code does between two awaits: `ListTeams`, `EnterTeam` or
`DiscoverFails`, `ListFiles` or `ProjectSkipped`, `FetchFile` or `FileSkipped`,
`ReplaceLibrary`, `SetLibraries`, `SyncDone` or `SyncError`, on the one side;
`AddTeam`, `RemoveTeam`, `RemoveTeamEvicts`, `SyncStart` from the portal;
`GetUserGraph`, `ReadVars`, `ReadColls`, `PublishGraph`, `LoadFails` from `/mcp`;
`Restart`; and Figma's `Move` and `Publish` at any time. Teams, projects and files
are visited in any order, which includes the order of the code. A transaction is one
step; a query of the sync may reject at any point where it awaits one (`SyncError`).
The two SELECTs of a load are two steps, as no transaction encloses them.

* `RegistryConsistent`: a registry row names a registered team and a file that is
  in the graph, unless a team removal overtook the sync that wrote it.
* `CacheFresh`: with no sync running and no removal half done, the cached graph is
  the database's, unless an eviction overtook its load or a sync failed while it was
  held. The exceptions are not slack: `PostSyncCacheFresh` below is the property
  without the first, and the code violates it.
* `EvictionNeedsEvidence` (action): a row goes only with its team, or after a pass
  in which neither a listing nor that file's fetch failed.
* `SyncEnds` (liveness): "running" is not for ever.

### VariablesCache (`MCStores`, `StoresProofs`)

`getVariablesLocal` for one `fileKey|version`: callers with different caps, one of
them with a deadline, over one positive entry and one negative marker. Timers hold
what is left of them, so time needs no bound. A caller is one adapter, which shares
a fetch among its own calls. A success may be too large to keep, and either entry
may be evicted by its cache's bounds.

* `NotResurrected`: a live marker never comes from a request sent before a success
  whose response was kept. The guard in the code looks at the *entry*, not at the
  success: it is right because the entry outlives every request in flight, which is
  the assumption `PositiveOutlivesCalls` and holds of the defaults (300 s against
  120 s). The proof's `Eclipsing` is that argument.
* `DenialIsWarranted` (action): a call is denied only on whitelisted evidence under
  at least its own cap; a size-limit marker denies an equal cap only in its soft life;
  a timeout of a request that no deadline cut denies nobody who would wait longer.

### EnvGraph (`MCLoops`, `LoopsProofs`)

`ensureReady` and `build` of the environment's graph: callers that join the build in
flight, the TTL after a confirmed build, the retry interval after one that was not,
and what is published. `syncUser` swallows failures, so in an outage libraries are
*lost* one by one and the build ends normally with what is left, or throws.

* `PublishedTogether`: the statistics are those of the published graph; inside its TTL a
  graph is confirmed and no build runs.
* `StaleGoodRetained` (action): a graph that resolves something is never replaced by
  one that resolves nothing.
* `CallersReturn`, `GraphRecovers` (liveness): whoever awaits a build returns; after the
  last outage the graph is confirmed again and again.

### SlotPool, Semaphore (`SemaphoreProofs`), FigmaRequests (`MCLoops`, `FigmaRequestsProofs`)

`SlotPool` is what a FIFO semaphore promises: holders and a line. `Semaphore` is
`Semaphore.run`, with the direct hand-over (the slot is taken by the waiter before
it resumes) and the map `Pool == INSTANCE SlotPool WITH holders <- Holders,
line <- waiters`. `FigmaRequests` composes two instances of it: frame calls enter
the governor and inside it the heavy semaphore, other heavy calls only the latter,
version lookups neither. What the code does without an await is one step; the event
loop runs the continuations that are pending (`Drained`) before the next event.

* `SlotsExact`: both semaphores count and queue exactly.
* `SlotsFollowCalls`: a heavy request is on the wire under its slots, and a call that
  has not got there, or is over however it ended, holds none.
* `NeverLate`: no request outlasts its call's deadline, whatever it queued for.
* `HeavyIsAPool`: the semaphore in use implements `SlotPool` (refinement).
* `EveryCallReturns` (liveness): even if Figma never answers.

### FrameHydration (`MCStores`, `StoresProofs`)

`getFrameRaw` and `materializeFrame` over `FrameHydrationStore`, for frames of
several owners. A raw is its depth; `lastAccess` is a rank, with `FramesTick` between
milliseconds, and ties fall to the Map's insertion order, as `oldestKey` decides
them: `seat` is the rank of a record in it. The eviction loops are given by their
result (`Fitting`: a record stays if it fits together with all that are younger);
`StoresProofs` shows that what stays is within the budget. Bytes are counted one by
one, as the cardinality of a set, so that sums need no recursion.

* `NeverUnderReports`: the raw a call is answered with is deeper than the depth it is
  told to project, so a node without its children is never reported as childless.
* `NeverRegresses` (action): a live raw is not replaced by a shallower one.
* `WithinBudgets`: both budgets hold after every step.
* `HydratedMeansHeld` (action): what a call has just put in the store survives the
  eviction it caused, unless another record was used in the same millisecond. In a
  tie the Map order decides and the new record may go, although the caller is told
  `hydrated: true` (`ports/figma-api.ts:13-14` says "Never claim held when it
  isn't"): listed as a hazard.

### ReadCaches (`MCReadCaches`, `BudgetsProofs`)

`TtlCache.get`, `set` and `delete` and `CacheBudget.add`, `touch` and `remove`. A Map
is a function to records, of which `older` is the set of the keys before this one:
`Last` is `delete` and `set`, `Minus` is `delete` of several. A token is a fresh one
of the cache and key it is given for (the code counts up); that two per slot are
enough is what `AccountsAgree` says. `Surplus` is what `evictToFit` drops: an entry,
if with those after it the total is over.

* `AccountsAgree`: the budget knows exactly the weighted entries that are resident, and
  its running total is their sum.
* `WithinBounds`: count and byte bounds hold at rest.
* `OldestLeaveFirst` (action): when a set in one cache evicts an entry of another,
  everything used less recently goes too.

### VersionedReads (`MCStores`, `StoresProofs`)

`getFileVersion`, the reads keyed by what it said, and a file that is edited all the
while. `versionCache` holds a version and its age; a flight is one request that the
readers of an adapter share. `getDocumentRaw` stands for `getNodesRaw` and
`getImageFills`, which have its shape; `getDocumentByIdsRaw` reads a pinned version,
`getFileStructure` its own cache with a single retry.

* `ReadsAreBounded`: content is at most `VersionTTL` and one timeout older than the
  call that is answered with it. The version is asked before the content, so content
  of a later version can be kept under an earlier one, never the reverse. A structure
  is at most `StructureTTL` and one timeout old, and its call is over within two; a
  pinned projection is of its version.

### SnapshotStore (`MCReadCaches`, `BudgetsProofs`)

Tokens, refs and their two expiries: minting, the upload route (which looks at the
token before and after it reads the body), the sliding and the hard limit, the sweep,
the two budgets with their LRU loops, resolving by selector and by index.

* `SessionOutlivesRefs`: as long as a ref can be resolved its token admits another
  upload, unless the hard cap has passed.
* `OnlyPressureEvicts` (action): a ref goes by its expiry, or because it does not fit
  with those used later and the new one in its owner's budget or in all (`Pressed`); an
  upload never evicts itself. Refs that have expired and are not yet swept count: the
  code's loops weigh them too.

### FrameReceipt (`MCLoops`, `LoopsProofs`)

The part of `compare_node_to_dom`'s verification receipt that is about the frame, and
the caller who follows it. The frame is seen in a projection, cut in depth, in breadth
and by a budget of nodes; regions are paired, covered from inside, excluded, or beyond
a cut. A comparison answers with `blocking` items, the caller does one of them (or
names a selector that fails) and compares again.

What the code walks recursively the module tells by the nodes on the way. Nodes carry
their number in document order (`FrameReceiptAssumption`: what lies between a node and
its parent is below the parent), so that a subtree is an interval (`Below`), a level a
count of ancestors, and a chain of wrappers (`unwrapChain`) the nodes below its first
with nothing but passed wrappers between. The projection is the set of nodes that the
breadth slices and `pruneToBudget` accept; a node's list is accepted by what the lists
before it have used up, so that the equation `Projects` has one solution.

* `ReceiptIsHonest`: `complete` means that every live region of the frame is paired,
  not only those of the projection; no region is called uncovered if something in it
  is paired; an exclusion takes away demands, not measurements.
* `LoopEnds` (liveness): following the items comes to an end.

Three corners of the code are as they are in the model. Pairs beyond the cut of an
excluded region do not count for anything. Excluding a region that is itself cut
can make its parent "uncovered". And the receipt is blind to a decoration in which
nothing is shown (`Mute`): `isRegion` (`verification.ts:91`) drops a decorative type
without shown children before it looks at `childrenTruncated`, so that a
`BOOLEAN_OPERATION` whose children the depth or the budget cut off is no region and
leaves no cause behind, while a deeper capture demands a pair for it. The receipt can
be `complete` with that node unpaired. The comment beside it says of a truncated
wrapper: "don't drop it, else we lose its incompleteness" (`verification.ts:96`).
`ReceiptIsHonest` says where that happens and nothing else is lost: without the
exception for `Mute` the run `MCLoops` has a counterexample, node 11 of its frame.

### Accounts (`MCTenants`, `MCLoops`, `TenantsProofs`)

The tokens of a user at READ COMMITTED: `add` with its count and its insert, `remove`,
`setDefault` with its two statements in a transaction, validation on demand and by
night, against tokens that Figma revokes. Every statement is a step; row locks make a
second change of the default wait for the first.

* `OneDefault`: there is at most one default token, however requests interleave.
* `DefaultKept` (action): who has a default loses it only by removing that token.
* `VerdictsAreTheirs`: a row marked invalid is that of the very token Figma refused,
  though its label may have been given to another meanwhile.
* `RevokedEndInvalid` (liveness): a revoked token ends up marked, and stays so.

Two things the model shows and no comment denies: a token added while the default is
removed may leave the user with tokens and no default; the 409 of an addition that
lost against another names a cause that may be wrong.

### Uploads (`MCTenants`, `TenantsProofs`)

An upload deletes the user's rows and inserts its own, in one transaction at READ
COMMITTED; several overlap.

* `StoredReplaces` (action): when an upload is stored, its rows are there and nothing
  is left of an upload that had ended before it began. Of uploads that overlap the rows
  of both may stay, each complete, although the route calls itself a full replace.

### ResolveAnchors, NodeAncestry (`MCWalks`, `WalksProofs`)

`resolveAnchors` looks for comment anchors under a scope: batches by id, halved when
Figma refuses them, then the document level by level, then types, under a budget of
calls, against a file that is edited. A batch is a set: `Rank` in the list it is cut
from decides in which batch, and in which half, a node is. `Onto` is the way from one
loop to the next (`EndProject`, `EndCheck`, ...), `Project` and `FetchNodes` are a
request with its answer. `resolveAncestry` looks for the path to a node
whose parents Figma does not tell: a skeleton, probes of the most promising branches
first, branches parked when their call fails and taken up again. The code descends
from a branch's root again after each pause, free of charge where it has fetched; the
model holds the path it has come to (`trail`) and goes where a `Lead` is, past what is
`Dead`, which both depend on the fetched and the failed nodes alone.

Under a scope every request after the first names the version, and the caching adapter
passes those on. Without a scope the node reads name none, and the adapter answers them
from `nodeCache` under the version `versionCache` remembers
(`caching-figma-api.ts:162-174`): `remembered` is that version, `Refresh` another one
put there by any request for it, an earlier one too if that request ended late, and
`Served` is what such a read may return, content of that version or a later one. How
old it may be in time is `ReadsAreBounded` of VersionedReads.

* `AnswerIsSound`: under a scope a verdict is right in one version of the file, the one
  stated. Without a scope a type is that of some revision since the oldest that the
  version cache named during the call, which may be older than the call.
* `SilenceIsComplete`: whatever stays open without a `stop_reason` is open because of
  Figma's own answer: the answer left the node out, or the file shows it
  in several places, or, where only its type was asked for, it is gone. The first is
  the code's: an id that is missing from `nodes`, or has no document, or one of another
  id, is passed over by `continue` (`resolve-anchors.ts:356`, `:367`, `:420`), and its
  thread stays `unknown` without a reason, as `resolve-anchors.test.ts:93-103` and
  `comments-scope-projection.test.ts:249-260` expect. What the property adds is that
  halving, refusals, deadlines, retries and the changes of phase lose no other.
* `ResultIsTrue`: a path that is stated is the node's; "absent" is said after a walk
  without gaps.
* `EveryWalkReturns` (liveness): both walks end.

The disjunct `~progress` of `EndRound` is the code's, but no state reaches it alone.

### ModeResolution, AliasRelation (`MCWalks`, `MCAliasRelation`, `WalksProofs`)

The modes of the collections a node inherits, discovered from its ancestors; the choice
of a mode for a bound variable; its value along its aliases. A collection of a library
is known by its key, and pinned under an id with a suffix. `AliasRelation` walks from
one variable both ways to prove that another is, or is not, behind it. What Figma
shows (`Shows`) and what an alias leads to (`Reach`) are references of their own, the
least sets closed under the aliases, with nothing of the walk in them.

A row of the graph may be missing (`Synced` is what it may hold), and so may one of the
file's index in `AliasRelation` (`rows`): each look-up that fails leaves a hole.

The id a pin names its collection by is a string. With a key (`<key>/<id>`) it is the
library's for good; a plain one is a number of its file, and another file may give it
to another collection. The graph holds collections of many files under their ids and
finds a pin by the bare string first (`variable-graph.ts:123`, `:152`, `:165`), so that
`For` compares ids, not collections.

* `EffectiveIsTrue`: a value stated as effective is the one Figma shows under the pins
  of all ancestors: always if the file's own index told it, and of the graph unless a
  plain id is mistaken (`Mistakable`): the file's own collection is pinned, and a
  collection on the way has the same plain id in another file, or is the file's own and
  the graph has it as a subscribed copy, whose id the plain pin does not match. The
  first is a wrong value stated with evidence, the second a default called confirmed.
  `StatedMeansShown` is the property without the exception; the code violates it.
  Assumed (`IdsAssumption`): one file gives two of its own collections two ids, writes
  its own plainly and others with a key, and a collection of its index in one form.
* `RelationIsProven`: "related" and "unrelated" are said only if the aliases say so, of
  variables that the question names as the aliases do.

### DesignContext (`MCWalks`, `WalksProofs`)

The stages of `get_design_context` under one deadline: each has a gate, a cap and a
way to fail, some share a `Promise.all`; what is lost goes into `degraded_stages`; the
mode marker is decided; then `fitToBudget` cuts in depth and the answer sheds parts
until it fits.

* `PaintsAreDefault`: `mode_context` is said of a paint only if the whole chain of its
  aliases was seen to stand at its defaults. Only of a paint: a binding of another kind
  passes if its own collection has one mode, though its alias may go on to a collection
  of several (`bindingIsUntracked`, `get-design-context-tool.ts:549-566`).
* `AnswerAccounts`: what the answer lacks, of stages, parts or depth, it says. Not
  counted: a component record that fails is skipped without a receipt, a partial
  instance scan is only logged, and a 429 that comes after another failure of the same
  `Promise.all` is lost, although the comment at `:686` says that it surfaces.


### The composed modules

Modules that share no state are checked in one run: `MCTenants`, `MCStores`,
`MCReadCaches`, `MCLoops` and `MCWalks` instantiate several, and a variable that never
changes (`store`, `tool`, ...) says which of them a behaviour is about. The others
stand still at a fixed initial state. Their model values are shared, so that a small
group of permutations is a symmetry of all of them.

## 3. The runs

| Run | Instance | Distinct states |
|---|---|---|
| `MCLibrarySync` | 2 teams with 1 project each, 1 file, 1 reader, 1 revision | 644 k |
| `MCTenants` | library: 1 team, 2 projects, 2 files; tokens: 2 labels, 2 tokens, 2 clients, 4 requests and the nightly run; uploads: 3 over 2 keys | 679 k |
| `MCVariablesCache` (module `MCStores`) | variables: caps 1, 2 (with a deadline), 3, TTLs 4, 5, soft 2; reads: 2 readers on 2 adapters, 2 revisions, 4 ticks; frames: 2 calls, 3 frames of 2 owners, 2 depths, budgets 3 and 4 | 1,142 k |
| `MCReadCaches` | 2 caches of 2 entries, 3 keys, weights 0, 1, 2, 4, 5, at most 4 in an entry, 3 bytes; snapshots: 2 owners, 2 mints, 3 uploads, 4 ticks, sliding limit 2, hard limit 3 | 775 k |
| `MCLoops` | graph: 2 callers, 2 libraries, TTL 3, retry 2; receipt: a frame of 12 nodes, depths up to 3, 3 caps, 4 exclusions, 3 first pairs; calls: 3 frame calls, 1 other, governor 2, heavy 1, caps 1 and 2, one deadline up to 2; the nightly run over 2 tokens | 23 k |
| `MCWalks` | ancestry: 7 nodes, 7 calls; anchors: 3 anchors, 2 versions, 6 calls; modes: 6 variables, 4 collections, all pins; relation: 5 variables, all aliases, all sets of missing rows; context: 13 subtrees, every ending of every request | 783 k |
| `MCStaleGraph`, `MCOrphanGraph`, `MCShorterWait`, `MCAliasRelation`, `MCMistakenPin`, `MCRejectedToken` | as the runs above | violations, section 5 |

Why the bounds are enough. In `MCLibrarySync` one file that may move between two
teams is the smallest instance in which the rows of one team's pass meet the removal
of another, and one revision besides "none" distinguishes fresh from stale;
`MCTenants` has the two projects and two files that a partial failure needs (one
fails, one does not), two tokens that can take each other's label, and a third upload
that begins after one of two overlapping ones ended. In `MCStores` the caps keep the
order of the code's (compare tools 20 s, design context 25 s with a deadline,
`get_variables` up to 120 s) and the TTLs their order (largest cap < positive TTL <
negative TTL, soft < negative). In `MCLoops` both queues fill, and the deadline of
one call falls before or at its cap, or before it after a wait. In the stores and caches the budgets hold some
but not all of what the instance can store, so every eviction path is taken, nested
ones included; one weight is over the byte budget and may still be kept, which leaves
its entry alone, and one is over what a cache keeps at all. In `MCWalks` the call
budgets end the walks at every point, the tree has leads that overlap, and the
collections are one of each kind the code tells apart: one of the file's own, and a
library's with the same plain id. Symmetry is used only where the permuted values are interchangeable, and in no run with
a liveness property.

Every property has a *mutant*, an operator defined beside the original that changes
it as a plausible bug would (a forgotten release, a dropped guard, the wrong end of
a queue); TLC finds the property violated in the mutated model. Mutants are named
after what they do (`EvictedDespiteFailedFile`) and are used by nothing else.

`CHECK_DEADLOCK` is on everywhere. A part that really ends (all calls answered, the
last moment of a bounded clock) says so with a stuttering step of its own.

## 4. Fairness

* LibrarySync: `WF_vars(JobStep)`. Each await of the sync settles: Figma calls carry
  `SYNC_TIMEOUT_MS`, and a query answers or rejects. Nothing is assumed of the
  portal, the readers or Figma. That every listing is finite is the only reason a
  pass ends.
* EnvGraph: `WF` on `GraphTick` (the clock runs), on `BuildStep` (a fetch ends) and on
  `Start` by some caller (requests keep coming; without them no retry happens, as the
  graph is built on demand). `GraphRecovers` assumes the outage ends, in its statement.
* FrameReceipt: `WF` on a comparison and on the caller's next fix, `SF` on the
  comparison whose deep fetch does not fail: a caller goes on, and Figma does not
  refuse the frame for ever.
* FigmaRequests: `SF` on `Tick` and on what the runtime does for each call (its abort
  timer, its continuations). Strong, since every event disables the others until its
  continuations have run; the event loop serves timers and continuations all the
  same. Nothing is assumed of Figma's answers.
* Accounts: `WF` on the nightly run, which a timer starts, and on a request that has
  begun. Nothing is assumed of when Figma revokes.
* The walks: `WF` on the next step of a walk and on the end of a call, which has a
  timeout.
* The other modules state safety only and need none.

## 5. What the checks found

All properties of section 2 hold. Six statements of the repository's comments do
not, each shown by a run that ends in TLC's counterexample:

1. `MCStaleGraph`: the sync's "drop stale cached graph so next /mcp reloads"
   (`server.ts:565`). A load that began before the sync ended publishes afterwards
   what it had read: `getUserGraph` sets the cache unconditionally after its awaits
   (`server.ts:528-529`). The old graph then stays until the next sync, removal or
   restart.
2. `MCOrphanGraph`: "unregister a team (+ its synced libs)" (`cli.ts:95`).
   `removeTeam` finds graph rows through `library_files`. A library that was evicted
   from the registry earlier, or whose graph rows are written while its registry row
   is not yet, keeps resolving after its team is gone.
3. `MCShorterWait`: `capMs` is "the timeout cap under which the failure was observed"
   (`caching-figma-api.ts:27-28`). It is the adapter's nominal cap; a deadline may
   have cut the wait, and a caller between the two is denied on no evidence.
4. `MCAliasRelation`: "relatedness is a property of the wiring, not of the minter set"
   (`domain/variable-graph.ts:465-466`). An alias inside a library names its target by
   local id while the target asked about is named by its key; the edge is not
   recognised (`:450`), and a walk without a hole says "unrelated" of two variables of
   which one is the other's alias.
5. `MCMistakenPin`: "`effectiveHex` is the evidenced rendered value"
   (`src/docs/tools/design-qa.md:182`), and the comments exclude that "an unrelated stack
   entry could otherwise coincidentally collide with the id used as its own key"
   (`domain/variable-graph.ts:117`) and that a hop trusts "a coincidentally-equal mode
   id" (`:226-227`). The look-up by the bare id (`:123`) does both: a pin of the page's
   own collection decides the mode of a library's collection with the same plain id and
   the same mode id, and its value is stated as `explicit_node`.
6. `MCRejectedToken`: "2xx => token works [...]; 401/403 => token rejected"
   (`multi-tenant/validate-pat.ts:1-3`). Every other status is a rejection too (`:34`):
   a 429 or a 503 marks a working token invalid until it is validated again.

## 6. What is proved

Nothing is assumed but the named assumptions of the modules, on constants.

* `LibrarySyncProofs` (`LibrarySyncAssumption`): type correctness,
  `RegistryConsistent`, `CacheFresh`, `EvictionNeedsEvidence`. The properties are not
  inductive: what the actors hold between two awaits has to be described.
  `JobShape` ties the job's program counter to its locals; `JobSound` says that,
  while no removal overtakes it, a pass works for a registered team and every library
  it collected has its rows; `Troubled` that each failure left its mark in the
  locals; `LoadsFresh` that at rest a load no eviction overtook has read what the
  rows hold. `IInv` is their conjunction with the types and the two invariants.
* `SemaphoreProofs` (finitely many tasks, a positive limit, stated in the theorems):
  type correctness, `SlotsAccounted`, and that `Semaphore` implements `SlotPool`,
  each step a step of the pool or a stutter. `SlotsAccounted` is inductive with the
  types: the queue being exactly the queued tasks, each once, makes a hand-over
  reach a task that waits.
* `FigmaRequestsProofs` (`FigmaRequestsAssumption`): type correctness, `SlotsExact`,
  `SlotsFollowCalls`, `NeverLate` and the refinement `HeavyIsAPool`. `SemaphoreProofs` is
  instantiated for the governor and for the heavy semaphore, and every step is shown to
  be a step or a stutter of each; what is left is where a call stands in both at once
  (`Placed`): a slot reaches a call that waits only because the queues hold nobody else.
* `StoresProofs` (`VariablesCacheAssumption`, `PositiveOutlivesCalls`,
  `VersionedReadsAssumption`, `FrameAssumption`).
  * VariablesCache: type correctness, `NotResurrected`, `DenialIsWarranted`.
    `Eclipsing`: a request sent before a kept success aborts while the positive entry
    still lives, timer against timer; `WholeCap`: without a deadline a request is sent
    with its whole cap; `Evidence`: what a live marker records.
  * VersionedReads: `ReadsAreBounded`, for any revisions, timeouts and moments of edit.
    `HeadOK` says when each revision was current; `CachesOK`, `FlightsOK` and `ReadersOK`
    that a version told was current when the request for it was out, and that content
    filed under it is of that version or a later one.
  * FrameHydration: type correctness, `NeverUnderReports`, `WithinBudgets`,
    `NeverRegresses`, `HydratedMeansHeld`, for any frames, owners and budgets. `Older` is
    shown to be a total order; what stays is closed under "younger"; the last that had
    to go would have exceeded the budget.
* `BudgetsProofs` (`SnapshotStoreAssumption`, `ReadCachesAssumption`, stated in the
  theorems).
  * SnapshotStore: type correctness, `SessionOutlivesRefs`, `OnlyPressureEvicts`. `Dated`
    orders the times of a token and its refs, `Attended` says that a use of a ref has
    reached its token too.
  * ReadCaches: `AccountsAgree`, `WithinBounds`, `OldestLeaveFirst`, for any caches, keys
    and weights. The invariant `Sound` adds to the first two that each Map is in a total
    order (`Ordered`) and that the order of a cache is that of the budget (`Alike`):
    without it a step that evicts could leave an older entry of the same cache. A set is
    proved as a removal, an insertion and a removal, each of which keeps both sides in
    step.
* `LoopsProofs` (`EnvGraphAssumption`, `FrameReceiptAssumption`).
  * EnvGraph: type correctness, `PublishedTogether`, which is inductive with the types,
    and `StaleGoodRetained`.
  * FrameReceipt: `ReceiptIsHonest`, for any tree, caps, exclusions and history of the
    pairs. Most of it is about the tree. Each projection exists and is the only one
    (`ProjectionIsDetermined`, by the least node at which the pruning could stop or two
    of them differ), and it is a *view* (`IsView`): with a node it shows its parent, and
    all its children unless it is cut. In a view every node is in the chain of exactly
    one that begins a region (`ChainTop`, `TopAlone`), a chain has no branches and ends
    at a node that is not passed. Against the frame, chains can only be shorter
    (`ChainInFrame`); what is excluded is what lies below an excluded node
    (`ExcludedAbove`, `ExcludedBelow`), which makes the open containers those without
    the exclusion but for it. The session adds only that a receipt is `Receipt` of such a
    view. From the same invariant: `ReceiptAsksForWhatIsOpen` (no item names a node that
    is paired, a pair that does not fail, or a depth that cannot be had, and a complete
    receipt asks for nothing) and `FollowingAdvances` (who follows an item pairs one
    more node, has one new pair fail, or goes deeper; nothing paired is lost), which is
    what `LoopEnds` needs besides fairness.
* `TenantsProofs` (`AccountsAssumption`, `UploadsAssumption`).
  * Accounts: type correctness, `OneDefault`, `DefaultKept`, `VerdictsAreTheirs`. The
    invariant says that labels and ids are those of one row each, and that whatever a
    request is about to write names its row by its id.
  * Uploads: `StoredReplaces`: the rows of an upload that ended are deleted by whoever
    begins later, and nobody inserts for it again.
* `WalksProofs` (the assumptions of its five modules).
  * NodeAncestry: `ResultIsTrue` with the types, for any document, boxes and sessions.
    `PathOK`: what is held is a path of the document; `SeenOK`: no fetched node shows the
    target before the end; `BranchesOK`: a branch that was probed is still to come,
    parked, or dead, so that "absent" is said when nothing is left.
  * AliasRelation: `RelationIsProven`, for any files, aliases and hiding. The frontier and
    the visited names are of variables behind the one asked about, and a walk without a
    hole has left nothing behind it out.
  * ModeResolution: `EffectiveIsTrue`, for any pins, modes, aliases and plain ids, those
    that coincide between files included (`IdsAssumption` is about one file). `HoppingOK`:
    the walk is at the variable and the mode Figma comes to, as long as each choice applied
    so far is stated with evidence and no plain id was mistaken behind the variable.
  * ResolveAnchors: type correctness, `AnswerIsSound` and `SilenceIsComplete`, for any
    revisions, edits, batch sizes and caps. `WorkFits`: the requests still to be sent are
    those of the phase, and halves of a batch are followed by its last; `Truthful`:
    whatever was noted of a node is what a revision of the answer's (`Times`) says;
    `Covered`: until the request is stopped every node is decided, or ambiguous in the
    file, or left out by an answer, or among the requests and answers still to be looked
    at; `Halfway`: answers
    that are held wait for the rest of their batch. The lemmas about `Batches`, `Half`
    and `Other` say that what is cut up is what was asked for, with nothing lost.
  * DesignContext: `PaintsAreDefault`, whose marker is decided in one step from what the
    stages left, and `AnswerAccounts`, by the invariant that every cut is among the
    degraded stages.

Only model-checked: liveness, which is beyond the prover. Every invariant and every
action property that a passing run checks is a theorem. Each model could be written
without recursion, so as to be proved about: sums of bytes as cardinalities, recency as
sets of elders, closures as least sets, batches by rank, trees by their document order.

## 7. What is left out, and why

* The content of variables, node trees and comments: a revision, a depth or a weight
  stands for it, which is what the properties tell apart.
* A second process on the same database (the command line, a replica): the code keeps
  `graphCache` and `syncState` per process and says so; `cli.ts:273` asks for a restart.
* Interleavings inside the sync's transactions at READ COMMITTED, and a transaction
  whose COMMIT succeeds while its answer is lost.
* The page loop, image and comment endpoints: light requests without shared slots.
* A call whose adapter has no timeout, and a parse that blocks the event loop.
* The property diff, the pair matcher and the report of the layout engine: arithmetic on
  measured numbers, scoring and wording.
* Comments, threads, the review board and the other tools: filters and rendering over
  one answer of Figma.

## 8. The plan

1. **PairMatcher**: `pair-matcher.ts`, the score and the assignment of candidates.
2. **Comments**: the grouping of comments into threads.
