------------------------------ MODULE LibrarySync ------------------------------
(***************************************************************************)
(* The multi-tenant library graph of one user: the registry of teams and   *)
(* library files, the graph rows kept beside it, the in-memory graph cache *)
(* in front of them and the background sync that refreshes all three.      *)
(*                                                                         *)
(* Durable state (Postgres): registered, fileRow, varRow, collRow.         *)
(* Memory of the process:    cache, syncState, job, evicting, load.        *)
(* Figma, outside:           home (the project of a file), pub (the        *)
(*                           revision of its published variables, 0: none).*)
(*                                                                         *)
(* Users share no row and no map entry, so one user is modelled.  A row's  *)
(* data is the revision it was written from.  The transactions of          *)
(* library-registry-db.ts and library-graph-db.ts are atomic (an error     *)
(* rolls back); the awaits between them are where the other actors run.    *)
(***************************************************************************)
EXTENDS Integers, FiniteSets

CONSTANTS Teams,      \* Figma team ids
          Projects,   \* Figma project ids
          Files,      \* Figma file keys
          TeamOf,     \* the team a project belongs to
          Readers,    \* /mcp requests that may ask for the graph concurrently
          MaxRev,     \* bound: revisions a file's variables go through
          None        \* no row, no cached graph, no team or file at hand

Rev   == 0..MaxRev
Rows  == [Files -> Rev]
Graph == [vars : Rows, colls : Rows]

ASSUME LibrarySyncAssumption ==
  /\ TeamOf \in [Projects -> Teams]
  /\ MaxRev \in Nat \ {0}
  /\ Projects \cap Files = {}
  /\ None \notin Teams \cup Files \cup Graph

VARIABLES
  home, pub,                             \* Figma
  registered, fileRow, varRow, collRow,  \* Postgres
  cache, syncState, job, evicting, load, \* the process
  trouble,   \* history: projects and files whose call failed in this team's pass
  jobRaced,  \* history: a team removal committed while this sync ran
  raced,     \* history: files whose row was upserted by such a sync
  tainted,   \* history: the cached graph was read before the last eviction
  overtaken  \* history: readers whose load an eviction overtook

figma   == <<home, pub>>
db      == <<registered, fileRow, varRow, collRow>>
process == <<cache, syncState, job, evicting, load>>
history == <<trouble, jobRaced, raced, tainted, overtaken>>
vars    == <<home, pub, registered, fileRow, varRow, collRow,
             cache, syncState, job, evicting, load,
             trouble, jobRaced, raced, tainted, overtaken>>

NoRows        == [f \in Files |-> 0]
ProjectsOf(t) == {p \in Projects : TeamOf[p] = t}
FilesOf(p)    == {f \in Files : home[f] = p}

(* The locals of syncUser: the teams still to do (before listTeams, the    *)
(* teams asked for), the team at hand, its projects and files still to do, *)
(* the file just fetched and its revision, then registryLibs, preserveKeys *)
(* and enumerationIncomplete.                                              *)
Jobs == [pc : {"idle", "listTeams", "teams", "scan", "replace"},
         todo : SUBSET Teams, team : Teams \cup {None},
         projects : SUBSET Projects, files : SUBSET Files,
         file : Files \cup {None}, found : Rev,
         libs : SUBSET Files, preserve : SUBSET Files, incomplete : BOOLEAN]
NoJob == [pc |-> "idle", todo |-> {}, team |-> None, projects |-> {}, files |-> {},
          file |-> None, found |-> 0, libs |-> {}, preserve |-> {}, incomplete |-> FALSE]

(* A getUserGraph that missed: the SELECT it awaits and what it has read.  *)
Loads  == [stage : {"idle", "vars", "colls", "publish"}, vars : Rows, colls : Rows]
NoLoad == [stage |-> "idle", vars |-> NoRows, colls |-> NoRows]
HasRead(r) == load[r].stage \in {"colls", "publish"}
Loading    == {r \in Readers : HasRead(r)}

TypeOK ==
  /\ home \in [Files -> Projects] /\ pub \in Rows
  /\ registered \in SUBSET Teams
  /\ fileRow \in [Files -> Teams \cup {None}]
  /\ varRow \in Rows /\ collRow \in Rows
  /\ cache \in Graph \cup {None}
  /\ syncState \in {"none", "running", "done", "error"}
  /\ job \in Jobs
  /\ evicting \in SUBSET Teams
  /\ load \in [Readers -> Loads]
  /\ trouble \in SUBSET (Projects \cup Files)
  /\ jobRaced \in BOOLEAN /\ tainted \in BOOLEAN
  /\ raced \in SUBSET Files /\ overtaken \in SUBSET Readers

(* A fresh database and a fresh process; Figma may hold anything.          *)
Init ==
  /\ home \in [Files -> Projects] /\ pub \in Rows
  /\ registered = {} /\ fileRow = [f \in Files |-> None]
  /\ varRow = NoRows /\ collRow = NoRows
  /\ cache = None /\ syncState = "none" /\ job = NoJob
  /\ evicting = {} /\ load = [r \in Readers |-> NoLoad]
  /\ trouble = {} /\ jobRaced = FALSE /\ raced = {}
  /\ tainted = FALSE /\ overtaken = {}

--------------------------------------------------------------------------------
(* Figma changes on its own.                                               *)

Move(f, p) ==
  /\ home[f] # p
  /\ home' = [home EXCEPT ![f] = p]
  /\ UNCHANGED <<pub, db, process, history>>

Publish(f, v) ==
  /\ pub[f] # v
  /\ pub' = [pub EXCEPT ![f] = v]
  /\ UNCHANGED <<home, db, process, history>>

--------------------------------------------------------------------------------
(* Registry routes.                                                        *)

AddTeam(t) ==
  /\ registered' = registered \cup {t}
  /\ UNCHANGED <<figma, fileRow, varRow, collRow, process, history>>

(* The transaction of removeTeam: graph rows are found through library_files. *)
RowsOf(t) == {f \in Files : fileRow[f] = t}
Cleared(rows, fs) == [f \in Files |-> IF f \in fs THEN 0 ELSE rows[f]]

RemoveTeam(t) ==
  /\ t \notin evicting
  /\ varRow' = Cleared(varRow, RowsOf(t))
  /\ collRow' = Cleared(collRow, RowsOf(t))
  /\ fileRow' = [f \in Files |-> IF f \in RowsOf(t) THEN None ELSE fileRow[f]]
  /\ registered' = registered \ {t}
  /\ evicting' = evicting \cup {t}
  /\ raced' = raced \ RowsOf(t)
  /\ jobRaced' = (jobRaced \/ syncState = "running")
  /\ UNCHANGED <<figma, cache, syncState, job, load, trouble, tainted, overtaken>>

(* graphCache.delete, wherever it is called.  Mutant: it is forgotten.      *)
EvictGraphForgotten == UNCHANGED <<cache, tainted, overtaken>>
EvictGraph ==
  /\ cache' = None
  /\ tainted' = FALSE
  /\ overtaken' = overtaken \cup Loading

(* removeTeam(...).then(() => graphCache.delete(u))                        *)
RemoveTeamEvicts(t) ==
  /\ t \in evicting
  /\ evicting' = evicting \ {t}
  /\ EvictGraph
  /\ UNCHANGED <<figma, db, syncState, job, load, trouble, jobRaced, raced>>

--------------------------------------------------------------------------------
(* The background sync: POST /sync (all teams) or POST /teams/:id/sync.    *)

SyncStart(asked) ==
  /\ syncState # "running"
  /\ syncState' = "running"
  /\ job' = [NoJob EXCEPT !.pc = "listTeams", !.todo = asked]
  /\ trouble' = {} /\ jobRaced' = FALSE
  /\ UNCHANGED <<figma, db, cache, evicting, load, raced, tainted, overtaken>>

(* Mutant: a team is synced although it is not registered.                  *)
TargetsUnfiltered == job.todo
Targets == job.todo \cap registered

ListTeams ==
  /\ job.pc = "listTeams"
  /\ \E targets \in {Targets, {}} :     \* {}: the user has no PAT
       job' = [job EXCEPT !.pc = "teams", !.todo = targets]
  /\ UNCHANGED <<figma, db, cache, syncState, evicting, load, history>>

EnterTeam(t) ==
  /\ job.pc = "teams" /\ t \in job.todo
  /\ job' = [NoJob EXCEPT !.pc = "scan", !.todo = job.todo, !.team = t,
                          !.projects = ProjectsOf(t)]
  /\ trouble' = {}
  /\ UNCHANGED <<figma, db, cache, syncState, evicting, load,
                 jobRaced, raced, tainted, overtaken>>

DiscoverFails(t) ==
  /\ job.pc = "teams" /\ t \in job.todo
  /\ job' = [job EXCEPT !.todo = @ \ {t}]
  /\ UNCHANGED <<figma, db, cache, syncState, evicting, load, history>>

ListFiles(p) ==
  /\ job.pc = "scan" /\ job.files = {} /\ p \in job.projects
  /\ job' = [job EXCEPT !.projects = @ \ {p}, !.files = FilesOf(p)]
  /\ UNCHANGED <<figma, db, cache, syncState, evicting, load, history>>

ProjectSkipped(p) ==
  /\ job.pc = "scan" /\ job.files = {} /\ p \in job.projects
  /\ job' = [job EXCEPT !.projects = @ \ {p}, !.incomplete = TRUE]
  /\ trouble' = trouble \cup {p}
  /\ UNCHANGED <<figma, db, cache, syncState, evicting, load,
                 jobRaced, raced, tainted, overtaken>>

(* Mutant: a file is registered before its variables are looked at.         *)
FetchFileRegistersFirst(f) ==
  /\ job.pc = "scan" /\ f \in job.files
  /\ job' = IF pub[f] = 0
            THEN [job EXCEPT !.files = @ \ {f}, !.libs = @ \cup {f}]
            ELSE [job EXCEPT !.files = @ \ {f}, !.libs = @ \cup {f},
                             !.pc = "replace", !.file = f, !.found = pub[f]]
  /\ UNCHANGED <<figma, db, cache, syncState, evicting, load, history>>

(* One getVariablesLocal serves the check and the parse: a file with no    *)
(* published variable is passed over, any other goes on to be replaced.    *)
FetchFile(f) ==
  /\ job.pc = "scan" /\ f \in job.files
  /\ job' = IF pub[f] = 0
            THEN [job EXCEPT !.files = @ \ {f}]
            ELSE [job EXCEPT !.files = @ \ {f}, !.libs = @ \cup {f},
                             !.pc = "replace", !.file = f, !.found = pub[f]]
  /\ UNCHANGED <<figma, db, cache, syncState, evicting, load, history>>

FileSkipped(f) ==
  /\ job.pc = "scan" /\ f \in job.files
  /\ job' = [job EXCEPT !.files = @ \ {f}, !.preserve = @ \cup {f}]
  /\ trouble' = trouble \cup {f}
  /\ UNCHANGED <<figma, db, cache, syncState, evicting, load,
                 jobRaced, raced, tainted, overtaken>>

ReplaceLibrary ==
  /\ job.pc = "replace"
  /\ varRow' = [varRow EXCEPT ![job.file] = job.found]
  /\ collRow' = [collRow EXCEPT ![job.file] = job.found]
  /\ job' = [job EXCEPT !.pc = "scan", !.file = None, !.found = 0]
  /\ UNCHANGED <<figma, registered, fileRow, cache, syncState, evicting, load, history>>

(* The rows setLibraries deletes before it upserts job.libs.  Mutants: a    *)
(* failed listing, or a failed file, does not protect its rows.            *)
EvictedDespiteFailedListing == RowsOf(job.team) \ job.preserve
EvictedDespiteFailedFile == IF job.incomplete THEN {} ELSE RowsOf(job.team)
Evicted == IF job.incomplete THEN {} ELSE RowsOf(job.team) \ job.preserve

SetLibraries ==
  /\ job.pc = "scan" /\ job.files = {} /\ job.projects = {}
  /\ fileRow' = [f \in Files |-> IF f \in job.libs THEN job.team
                                 ELSE IF f \in Evicted THEN None ELSE fileRow[f]]
  /\ job' = [NoJob EXCEPT !.pc = "teams", !.todo = job.todo \ {job.team}]
  /\ raced' = IF jobRaced THEN raced \cup job.libs ELSE raced \ job.libs
  /\ UNCHANGED <<figma, registered, varRow, collRow, cache, syncState, evicting, load,
                 trouble, jobRaced, tainted, overtaken>>

SyncDone ==
  /\ job.pc = "teams" /\ job.todo = {}
  /\ syncState' = "done" /\ job' = NoJob
  /\ EvictGraph
  /\ UNCHANGED <<figma, db, evicting, load, trouble, jobRaced, raced>>

(* A query of the sync rejects: the state says so, the cache stays.         *)
(* Mutant: the state goes on saying "running".                             *)
SyncErrorLeavesRunning ==
  /\ \/ job.pc \in {"listTeams", "replace"}
     \/ job.pc = "scan" /\ job.files = {} /\ job.projects = {}
  /\ job' = NoJob
  /\ tainted' = (tainted \/ cache # None)
  /\ overtaken' = overtaken \cup Loading
  /\ UNCHANGED <<figma, db, cache, syncState, evicting, load, trouble, jobRaced, raced>>
SyncError ==
  /\ \/ job.pc \in {"listTeams", "replace"}
     \/ job.pc = "scan" /\ job.files = {} /\ job.projects = {}
  /\ syncState' = "error" /\ job' = NoJob
  /\ tainted' = (tainted \/ cache # None)
  /\ overtaken' = overtaken \cup Loading
  /\ UNCHANGED <<figma, db, cache, evicting, load, trouble, jobRaced, raced>>

--------------------------------------------------------------------------------
(* getUserGraph: a miss awaits two SELECTs, then publishes.                *)

GetUserGraph(r) ==
  /\ load[r].stage = "idle" /\ cache = None
  /\ load' = [load EXCEPT ![r].stage = "vars"]
  /\ UNCHANGED <<figma, db, cache, syncState, job, evicting, history>>

ReadVars(r) ==
  /\ load[r].stage = "vars"
  /\ load' = [load EXCEPT ![r] = [stage |-> "colls", vars |-> varRow, colls |-> NoRows]]
  /\ UNCHANGED <<figma, db, cache, syncState, job, evicting, history>>

ReadColls(r) ==
  /\ load[r].stage = "colls"
  /\ load' = [load EXCEPT ![r].stage = "publish", ![r].colls = collRow]
  /\ UNCHANGED <<figma, db, cache, syncState, job, evicting, history>>

PublishGraph(r) ==
  /\ load[r].stage = "publish"
  /\ cache' = [vars |-> load[r].vars, colls |-> load[r].colls]
  /\ load' = [load EXCEPT ![r] = NoLoad]
  /\ tainted' = (r \in overtaken)
  /\ overtaken' = overtaken \ {r}
  /\ UNCHANGED <<figma, db, syncState, job, evicting, trouble, jobRaced, raced>>

LoadFails(r) ==
  /\ load[r].stage \in {"vars", "colls"}
  /\ load' = [load EXCEPT ![r] = NoLoad]
  /\ overtaken' = overtaken \ {r}
  /\ UNCHANGED <<figma, db, cache, syncState, job, evicting,
                 trouble, jobRaced, raced, tainted>>

(* The process restarts: only Postgres survives.                           *)
Restart ==
  /\ cache' = None /\ syncState' = "none" /\ job' = NoJob
  /\ evicting' = {} /\ load' = [r \in Readers |-> NoLoad]
  /\ trouble' = {} /\ jobRaced' = FALSE /\ tainted' = FALSE /\ overtaken' = {}
  /\ UNCHANGED <<figma, db, raced>>

--------------------------------------------------------------------------------
FigmaStep == \/ \E f \in Files, p \in Projects : Move(f, p)
             \/ \E f \in Files, v \in Rev : Publish(f, v)

RouteStep == \/ \E t \in Teams : AddTeam(t) \/ RemoveTeam(t) \/ RemoveTeamEvicts(t)
             \/ \E asked \in {Teams} \cup {{t} : t \in Teams} : SyncStart(asked)

JobStep == \/ ListTeams \/ ReplaceLibrary \/ SetLibraries \/ SyncDone \/ SyncError
           \/ \E t \in Teams : EnterTeam(t) \/ DiscoverFails(t)
           \/ \E p \in Projects : ListFiles(p) \/ ProjectSkipped(p)
           \/ \E f \in Files : FetchFile(f) \/ FileSkipped(f)

ReaderStep(r) == \/ GetUserGraph(r) \/ ReadVars(r) \/ ReadColls(r)
                 \/ PublishGraph(r) \/ LoadFails(r)

Next == \/ FigmaStep \/ RouteStep \/ JobStep \/ Restart
        \/ \E r \in Readers : ReaderStep(r)

(* Every await of the sync settles: Figma calls carry SYNC_TIMEOUT_MS, a   *)
(* query answers or rejects.                                               *)
Spec == Init /\ [][Next]_vars /\ WF_vars(JobStep)
--------------------------------------------------------------------------------
(* Properties.                                                             *)

(* "An error must never delete registry rows" (library-sync.ts): a row goes *)
(* away only when its team is removed, or at the end of a pass over its     *)
(* team in which neither a project listing nor that file's fetch failed.    *)
RowLost(f) == fileRow[f] # None /\ fileRow'[f] = None
EvictionNeedsEvidence ==
  [][\A f \in Files : RowLost(f) =>
        \/ fileRow[f] \notin registered'
        \/ job.team = fileRow[f] /\ trouble \cap (Projects \cup {f}) = {}]_vars

(* Unless a team removal overtook the sync that wrote it, a registry row    *)
(* names a registered team and a file whose variables are in the graph: the *)
(* portal lists no library that lookups cannot see, and nothing of a team   *)
(* that was unregistered.                                                   *)
RegistryConsistent ==
  \A f \in Files : fileRow[f] # None /\ f \notin raced =>
                     fileRow[f] \in registered /\ varRow[f] # 0 /\ collRow[f] # 0

(* With no sync running and no removal half done, the cached graph is what  *)
(* the database holds, variables and collections from one state of it -     *)
(* unless an eviction overtook its load or a sync failed while it was held. *)
AtRest == syncState # "running" /\ evicting = {}
CacheFresh ==
  AtRest /\ cache # None /\ ~tainted => cache = [vars |-> varRow, colls |-> collRow]

(* A started sync ends (done, error or the process restarts): "running" is  *)
(* not left behind, so a later POST /sync is not refused for ever.          *)
SyncEnds == (syncState = "running") ~> (syncState # "running")

(* server.ts, after a sync that succeeded: "drop stale cached graph so next *)
(* /mcp reloads".  Read as a promise: once the sync is done, a cached graph *)
(* is the database's.                                                       *)
PostSyncCacheFresh ==
  syncState = "done" /\ evicting = {} /\ cache # None =>
    cache = [vars |-> varRow, colls |-> collRow]

(* cli.ts: "unregister a team (+ its synced libs)": once no team is         *)
(* registered and no sync runs, no library is left in the graph.            *)
UnregisteredLeavesNoGraph ==
  AtRest /\ registered = {} => varRow = NoRows
================================================================================
