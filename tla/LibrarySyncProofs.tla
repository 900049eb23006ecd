--------------------------- MODULE LibrarySyncProofs ---------------------------
(***************************************************************************)
(* The safety properties of LibrarySync for any teams, projects, files and *)
(* readers.  Each needs a fact about what the actors hold between two      *)
(* awaits: the locals of the running sync (JobShape, JobSound, Troubled)   *)
(* and what the loads in flight have read (LoadsFresh).                    *)
(***************************************************************************)
EXTENDS LibrarySync, TLAPS

InPass == job.pc \in {"scan", "replace"}

(* The job exists while the state says running, has a team during a pass    *)
(* and a file with published variables during a replace.                    *)
JobShape ==
  /\ syncState = "running" <=> job.pc # "idle"
  /\ InPass => job.team \in Teams
  /\ job.pc = "replace" => job.file \in Files /\ job.found # 0
  /\ job.pc # "replace" => job.file = None

(* While no team removal overtakes it, the sync works for registered teams, *)
(* and every library of the pass has its rows but the one being written.    *)
JobSound ==
  ~jobRaced =>
    /\ job.pc = "teams" \/ InPass => job.todo \subseteq registered
    /\ InPass => /\ job.team \in registered
                 /\ \A f \in job.libs : f # job.file => varRow[f] # 0 /\ collRow[f] # 0

(* A failed listing marks the pass incomplete, a failed file is preserved.  *)
Troubled ==
  InPass => /\ trouble \cap Projects # {} => job.incomplete
            /\ trouble \cap Files \subseteq job.preserve

(* At rest, a load that no eviction overtook has read what the rows hold.   *)
LoadsFresh ==
  AtRest => \A r \in Readers \ overtaken :
              /\ HasRead(r) => load[r].vars = varRow
              /\ load[r].stage = "publish" => load[r].colls = collRow

IInv == TypeOK /\ JobShape /\ JobSound /\ Troubled /\ LoadsFresh
          /\ RegistryConsistent /\ CacheFresh

--------------------------------------------------------------------------------
(* The values a variable is reset to have its type.                         *)
LEMMA Resets ==
  /\ NoRows \in Rows /\ NoJob \in Jobs /\ NoLoad \in Loads
  /\ \A rows \in Rows, fs \in SUBSET Files : Cleared(rows, fs) \in Rows
  BY LibrarySyncAssumption DEF NoRows, Rows, Rev, NoJob, Jobs, NoLoad, Loads, Cleared

(* The initial state satisfies the invariant.                               *)
LEMMA InitIInv == Init => IInv
<1> SUFFICES ASSUME Init PROVE IInv
  OBVIOUS
<1>1. TypeOK
  BY Resets DEF Init, TypeOK
<1>2. JobShape /\ JobSound /\ Troubled
  BY DEF Init, JobShape, JobSound, Troubled, InPass, NoJob
<1>3. LoadsFresh /\ RegistryConsistent /\ CacheFresh
  BY DEF Init, LoadsFresh, HasRead, NoLoad, RegistryConsistent, CacheFresh
<1>4. QED
  BY <1>1, <1>2, <1>3 DEF IInv

--------------------------------------------------------------------------------
(* Types.                                                                   *)

(* What EvictGraph writes has its type.                                     *)
LEMMA EvictTyped ==
  TypeOK /\ EvictGraph =>
    cache' \in Graph \cup {None} /\ tainted' \in BOOLEAN /\ overtaken' \in SUBSET Readers
  BY DEF TypeOK, EvictGraph, Loading

(* The steps of Figma, of the registry routes and the restart keep types.   *)
LEMMA RouteTyped ==
  TypeOK /\ (FigmaStep \/ RouteStep \/ Restart \/ UNCHANGED vars) => TypeOK'
<1> SUFFICES ASSUME TypeOK, FigmaStep \/ RouteStep \/ Restart \/ UNCHANGED vars PROVE TypeOK'
  OBVIOUS
<1> USE DEF figma, db, process, history
<1>1. ASSUME NEW f \in Files, NEW p \in Projects, Move(f, p) PROVE TypeOK'
  BY <1>1 DEF TypeOK, Move
<1>2. ASSUME NEW f \in Files, NEW v \in Rev, Publish(f, v) PROVE TypeOK'
  BY <1>2 DEF TypeOK, Publish, Rows
<1>3. ASSUME NEW t \in Teams, AddTeam(t) PROVE TypeOK'
  BY <1>3 DEF TypeOK, AddTeam
<1>4. ASSUME NEW t \in Teams, RemoveTeam(t) PROVE TypeOK'
  <2>1. varRow' \in Rows /\ collRow' \in Rows
    BY <1>4, Resets DEF TypeOK, RemoveTeam, RowsOf
  <2>2. fileRow' \in [Files -> Teams \cup {None}]
    BY <1>4 DEF TypeOK, RemoveTeam
  <2>3. jobRaced' \in BOOLEAN
    BY <1>4 DEF TypeOK, RemoveTeam
  <2>4. QED
    BY <1>4, <2>1, <2>2, <2>3 DEF TypeOK, RemoveTeam
<1>5. ASSUME NEW t \in Teams, RemoveTeamEvicts(t) PROVE TypeOK'
  BY <1>5, EvictTyped DEF TypeOK, RemoveTeamEvicts
<1>6. ASSUME NEW asked \in SUBSET Teams, SyncStart(asked) PROVE TypeOK'
  <2>1. job' \in Jobs
    BY <1>6, Resets DEF SyncStart, Jobs, NoJob
  <2>2. QED
    BY <1>6, <2>1 DEF TypeOK, SyncStart
<1>7. ASSUME Restart PROVE TypeOK'
  BY <1>7, Resets DEF TypeOK, Restart
<1>8. ASSUME UNCHANGED vars PROVE TypeOK'
  BY <1>8 DEF TypeOK, vars
<1>9. QED
  BY <1>1, <1>2, <1>3, <1>4, <1>5, <1>6, <1>7, <1>8 DEF FigmaStep, RouteStep

(* The steps of the sync keep types.                                        *)
LEMMA JobTyped == TypeOK /\ JobShape /\ JobStep => TypeOK'
<1> SUFFICES ASSUME TypeOK, JobShape, JobStep PROVE TypeOK'
  OBVIOUS
<1> USE DEF figma, db, process, history
<1>0. job \in Jobs
  BY DEF TypeOK
<1>1. ASSUME ListTeams PROVE TypeOK'
  <2>1. PICK targets \in {Targets, {}} : job' = [job EXCEPT !.pc = "teams", !.todo = targets]
    BY <1>1 DEF ListTeams
  <2>2. job' \in Jobs
    BY <1>0, <2>1 DEF Targets, Jobs
  <2>3. QED
    BY <1>1, <2>2 DEF TypeOK, ListTeams
<1>2. ASSUME NEW t \in Teams, EnterTeam(t) PROVE TypeOK'
  <2>1. job' \in Jobs
    BY <1>0, <1>2, Resets DEF EnterTeam, Jobs, NoJob, ProjectsOf
  <2>2. QED
    BY <1>2, <2>1 DEF TypeOK, EnterTeam
<1>3. ASSUME NEW t \in Teams, DiscoverFails(t) PROVE TypeOK'
  <2>1. job' \in Jobs
    BY <1>0, <1>3 DEF DiscoverFails, Jobs
  <2>2. QED
    BY <1>3, <2>1 DEF TypeOK, DiscoverFails
<1>4. ASSUME NEW p \in Projects, ListFiles(p) PROVE TypeOK'
  <2>1. job' \in Jobs
    BY <1>0, <1>4 DEF ListFiles, Jobs, FilesOf
  <2>2. QED
    BY <1>4, <2>1 DEF TypeOK, ListFiles
<1>5. ASSUME NEW p \in Projects, ProjectSkipped(p) PROVE TypeOK'
  <2>1. job' \in Jobs
    BY <1>0, <1>5 DEF ProjectSkipped, Jobs
  <2>2. QED
    BY <1>5, <2>1 DEF TypeOK, ProjectSkipped
<1>6. ASSUME NEW f \in Files, FetchFile(f) PROVE TypeOK'
  <2>1. pub[f] \in Rev
    BY DEF TypeOK, Rows
  <2>2. job' \in Jobs
    <3>1. CASE pub[f] = 0
      BY <1>0, <1>6, <3>1 DEF FetchFile, Jobs
    <3>2. CASE pub[f] # 0
      BY <1>0, <1>6, <2>1, <3>2 DEF FetchFile, Jobs
    <3>3. QED
      BY <3>1, <3>2
  <2>3. QED
    BY <1>6, <2>2 DEF TypeOK, FetchFile
<1>7. ASSUME NEW f \in Files, FileSkipped(f) PROVE TypeOK'
  <2>1. job' \in Jobs
    BY <1>0, <1>7 DEF FileSkipped, Jobs
  <2>2. QED
    BY <1>7, <2>1 DEF TypeOK, FileSkipped
<1>8. ASSUME ReplaceLibrary PROVE TypeOK'
  <2>1. job' \in Jobs
    <3>1. 0 \in Rev
      BY LibrarySyncAssumption DEF Rev
    <3>2. job' = [job EXCEPT !.pc = "scan", !.file = None, !.found = 0]
      BY <1>8 DEF ReplaceLibrary
    <3>3. QED
      BY <1>0, <3>1, <3>2 DEF Jobs
  <2>2. job.found \in Rev
    BY <1>0 DEF Jobs
  <2>3. varRow' \in Rows /\ collRow' \in Rows
    BY <1>8, <2>2 DEF TypeOK, ReplaceLibrary, Rows
  <2>4. QED
    BY <1>8, <2>1, <2>3 DEF TypeOK, ReplaceLibrary
<1>9. ASSUME SetLibraries PROVE TypeOK'
  <2>1. job' \in Jobs
    <3>1. job' = [NoJob EXCEPT !.pc = "teams", !.todo = job.todo \ {job.team}]
      BY <1>9 DEF SetLibraries
    <3>2. job.todo \ {job.team} \in SUBSET Teams
      BY <1>0 DEF Jobs
    <3>3. QED
      BY <3>1, <3>2, Resets DEF Jobs
  <2>2. job.team \in Teams \cup {None} /\ job.libs \in SUBSET Files
    BY <1>0 DEF Jobs
  <2>3. fileRow' \in [Files -> Teams \cup {None}]
    BY <1>9, <2>2 DEF TypeOK, SetLibraries
  <2>4. raced' \in SUBSET Files
    BY <1>9, <2>2 DEF TypeOK, SetLibraries
  <2>5. QED
    BY <1>9, <2>1, <2>3, <2>4 DEF TypeOK, SetLibraries
<1>10. ASSUME SyncDone PROVE TypeOK'
  BY <1>10, Resets, EvictTyped DEF TypeOK, SyncDone
<1>11. ASSUME SyncError PROVE TypeOK'
  <2>1. tainted' \in BOOLEAN
    BY <1>11 DEF TypeOK, SyncError
  <2>2. overtaken' \in SUBSET Readers
    BY <1>11 DEF TypeOK, SyncError, Loading
  <2>3. QED
    BY <1>11, <2>1, <2>2, Resets DEF TypeOK, SyncError
<1>12. QED
  BY <1>1, <1>2, <1>3, <1>4, <1>5, <1>6, <1>7, <1>8, <1>9, <1>10, <1>11 DEF JobStep

(* The steps of a reader keep types.                                        *)
LEMMA ReaderTyped == \A r \in Readers : TypeOK /\ ReaderStep(r) => TypeOK'
<1> SUFFICES ASSUME TypeOK, NEW r \in Readers, ReaderStep(r) PROVE TypeOK'
  OBVIOUS
<1> USE DEF figma, db, process, history
<1>0. load \in [Readers -> Loads] /\ varRow \in Rows /\ collRow \in Rows
  BY DEF TypeOK
<1>1. ASSUME load' \in [Readers -> Loads], GetUserGraph(r) \/ ReadVars(r) \/ ReadColls(r)
      PROVE  TypeOK'
  BY <1>1 DEF TypeOK, GetUserGraph, ReadVars, ReadColls
<1>2. ASSUME GetUserGraph(r) PROVE load' \in [Readers -> Loads]
  BY <1>0, <1>2 DEF GetUserGraph, Loads
<1>3. ASSUME ReadVars(r) PROVE load' \in [Readers -> Loads]
  BY <1>0, <1>3, Resets DEF ReadVars, Loads
<1>4. ASSUME ReadColls(r) PROVE load' \in [Readers -> Loads]
  BY <1>0, <1>4 DEF ReadColls, Loads
<1>5. ASSUME PublishGraph(r) PROVE TypeOK'
  <2>1. cache' \in Graph
    BY <1>0, <1>5 DEF PublishGraph, Loads, Graph
  <2>2. tainted' \in BOOLEAN
    BY <1>5 DEF PublishGraph
  <2>3. QED
    BY <1>5, <2>1, <2>2, Resets DEF TypeOK, PublishGraph
<1>6. ASSUME LoadFails(r) PROVE TypeOK'
  BY <1>6, Resets DEF TypeOK, LoadFails
<1>7. QED
  BY <1>1, <1>2, <1>3, <1>4, <1>5, <1>6 DEF ReaderStep

(* Every step keeps the types.                                              *)
LEMMA TypeOKStep == TypeOK /\ JobShape /\ [Next]_vars => TypeOK'
  BY RouteTyped, JobTyped, ReaderTyped DEF Next

--------------------------------------------------------------------------------
(* The locals of the sync.  Steps of the others leave them alone.           *)

Aside == UNCHANGED <<syncState, job, registered, varRow, collRow, trouble, jobRaced>>

LEMMA OthersAside ==
  \/ FigmaStep \/ (\E t \in Teams : RemoveTeamEvicts(t)) \/ UNCHANGED vars
  \/ \E r \in Readers : ReaderStep(r)
  => Aside
  BY DEF FigmaStep, Move, Publish, RemoveTeamEvicts, ReaderStep, GetUserGraph, ReadVars,
         ReadColls, PublishGraph, LoadFails, vars, figma, db, process, history, Aside

(* The job keeps its shape, its soundness and its account of the trouble.   *)
Local == JobShape /\ JobSound /\ Troubled

LEMMA LocalStep == TypeOK /\ Local /\ [Next]_vars => Local'
<1> SUFFICES ASSUME TypeOK, Local, [Next]_vars PROVE Local'
  OBVIOUS
<1> USE LibrarySyncAssumption DEF figma, db, process, history
<1>0. job \in Jobs /\ varRow \in Rows /\ collRow \in Rows
  BY DEF TypeOK
<1>1. ASSUME Aside PROVE Local'
  BY <1>1 DEF Aside, Local, JobShape, JobSound, Troubled, InPass
<1>2. ASSUME NEW t \in Teams, AddTeam(t) PROVE Local'
  BY <1>2 DEF AddTeam, Local, JobShape, JobSound, Troubled, InPass
<1>3. ASSUME NEW t \in Teams, RemoveTeam(t) PROVE Local'
  <2>1. job.pc # "idle" => jobRaced'
    BY <1>3 DEF RemoveTeam, Local, JobShape
  <2>2. QED
    BY <1>3, <2>1 DEF RemoveTeam, Local, JobShape, JobSound, Troubled, InPass
<1>4. ASSUME NEW asked \in SUBSET Teams, SyncStart(asked) PROVE Local'
  BY <1>4 DEF SyncStart, NoJob, Local, JobShape, JobSound, Troubled, InPass
<1>5. ASSUME Restart PROVE Local'
  BY <1>5 DEF Restart, NoJob, Local, JobShape, JobSound, Troubled, InPass
<1>6. ASSUME ListTeams PROVE Local'
  BY <1>0, <1>6 DEF ListTeams, Targets, Jobs, Local, JobShape, JobSound, Troubled, InPass
<1>7. ASSUME NEW t \in Teams, EnterTeam(t) PROVE Local'
  BY <1>7 DEF EnterTeam, NoJob, Local, JobShape, JobSound, Troubled, InPass
<1>8. ASSUME NEW t \in Teams, DiscoverFails(t) PROVE Local'
  BY <1>0, <1>8 DEF DiscoverFails, Jobs, Local, JobShape, JobSound, Troubled, InPass
<1>9. ASSUME NEW p \in Projects, ListFiles(p) \/ ProjectSkipped(p) PROVE Local'
  BY <1>0, <1>9
  DEF ListFiles, ProjectSkipped, Jobs, Local, JobShape, JobSound, Troubled, InPass
<1>10. ASSUME NEW f \in Files, FetchFile(f) PROVE Local'
  <2>1. CASE pub[f] = 0
    BY <1>0, <1>10, <2>1 DEF FetchFile, Jobs, Local, JobShape, JobSound, Troubled, InPass
  <2>2. CASE pub[f] # 0
    BY <1>0, <1>10, <2>2 DEF FetchFile, Jobs, Local, JobShape, JobSound, Troubled, InPass
  <2>3. QED
    BY <2>1, <2>2
<1>11. ASSUME NEW f \in Files, FileSkipped(f) PROVE Local'
  BY <1>0, <1>11 DEF FileSkipped, Jobs, Local, JobShape, JobSound, Troubled, InPass
<1>12. ASSUME ReplaceLibrary PROVE Local'
  <2>1. JobShape' /\ Troubled'
    BY <1>0, <1>12 DEF ReplaceLibrary, Jobs, Local, JobShape, Troubled, InPass
  <2>2. JobSound'
    BY <1>0, <1>12 DEF ReplaceLibrary, Jobs, Rows, Local, JobShape, JobSound, InPass
  <2>3. QED
    BY <2>1, <2>2 DEF Local
<1>13. ASSUME SetLibraries PROVE Local'
  BY <1>0, <1>13 DEF SetLibraries, NoJob, Local, JobShape, JobSound, Troubled, InPass
<1>14. ASSUME SyncDone \/ SyncError PROVE Local'
  BY <1>14 DEF SyncDone, SyncError, NoJob, Local, JobShape, JobSound, Troubled, InPass
<1>15. QED
  BY OthersAside, <1>1, <1>2, <1>3, <1>4, <1>5, <1>6, <1>7, <1>8, <1>9, <1>10, <1>11, <1>12,
     <1>13, <1>14
  DEF Next, RouteStep, JobStep

--------------------------------------------------------------------------------
(* The registry, the loads and the cache.                                   *)

(* A registry row is written with its rows in place and taken away with     *)
(* them; whatever a removal overtook is set aside in raced.                 *)
LEMMA RegistryStep ==
  TypeOK /\ Local /\ RegistryConsistent /\ [Next]_vars => RegistryConsistent'
<1> SUFFICES ASSUME TypeOK, Local, RegistryConsistent, [Next]_vars PROVE RegistryConsistent'
  OBVIOUS
<1> USE LibrarySyncAssumption DEF figma, db, process, history
<1>0. /\ job \in Jobs /\ varRow \in Rows /\ collRow \in Rows
      /\ fileRow \in [Files -> Teams \cup {None}] /\ raced \in SUBSET Files
  BY DEF TypeOK
<1>1. ASSUME UNCHANGED <<db, raced>> PROVE RegistryConsistent'
  BY <1>1 DEF RegistryConsistent
<1>2. ASSUME NEW t \in Teams, AddTeam(t) PROVE RegistryConsistent'
  BY <1>2 DEF AddTeam, RegistryConsistent
<1>3. ASSUME NEW t \in Teams, RemoveTeam(t) PROVE RegistryConsistent'
  BY <1>0, <1>3 DEF RemoveTeam, RowsOf, Cleared, RegistryConsistent
<1>4. ASSUME ReplaceLibrary PROVE RegistryConsistent'
  BY <1>0, <1>4 DEF ReplaceLibrary, Rows, Local, JobShape, RegistryConsistent
<1>5. ASSUME SetLibraries PROVE RegistryConsistent'
  <2>1. /\ job.team \in Teams /\ job.file = None
        /\ ~jobRaced => /\ job.team \in registered
                        /\ \A f \in job.libs : varRow[f] # 0 /\ collRow[f] # 0
    <3>1. job.pc = "scan" /\ job.libs \in SUBSET Files
      BY <1>0, <1>5 DEF SetLibraries, Jobs
    <3>2. QED
      BY <3>1 DEF Local, JobShape, JobSound, InPass
  <2>2. /\ fileRow' = [f \in Files |-> IF f \in job.libs THEN job.team
                                       ELSE IF f \in Evicted THEN None ELSE fileRow[f]]
        /\ raced' = (IF jobRaced THEN raced \cup job.libs ELSE raced \ job.libs)
        /\ UNCHANGED <<registered, varRow, collRow>>
    BY <1>5 DEF SetLibraries
  <2>3. QED
    BY <1>0, <2>1, <2>2 DEF RegistryConsistent
<1>6. QED
  BY <1>1, <1>2, <1>3, <1>4, <1>5
  DEF Next, FigmaStep, RouteStep, JobStep, ReaderStep, Move, Publish, RemoveTeamEvicts, SyncStart,
      ListTeams, EnterTeam, DiscoverFails, ListFiles, ProjectSkipped, FetchFile, FileSkipped,
      SyncDone, SyncError, GetUserGraph, ReadVars, ReadColls, PublishGraph, LoadFails, Restart, vars

(* What the cache and the loads owe the rows, at rest.                      *)
Fresh == LoadsFresh /\ CacheFresh

(* Rows change only while a sync runs or a removal is half done, and the    *)
(* step that ends either overtakes the loads in flight.                     *)
LEMMA FreshStep == TypeOK /\ Local /\ Fresh /\ [Next]_vars => Fresh'
<1> SUFFICES ASSUME TypeOK, Local, Fresh, [Next]_vars PROVE Fresh'
  OBVIOUS
<1> USE DEF figma, db, process, history
<1>0. load \in [Readers -> Loads] /\ overtaken \in SUBSET Readers
  BY DEF TypeOK
<1>1. ASSUME UNCHANGED <<varRow, collRow, cache, load, tainted, overtaken>>,
             AtRest' => AtRest
      PROVE  Fresh'
  BY <1>1 DEF Fresh, LoadsFresh, CacheFresh, HasRead
<1>2. ASSUME ~AtRest' PROVE Fresh'
  BY <1>2 DEF Fresh, LoadsFresh, CacheFresh
<1>3. ASSUME cache' = None, UNCHANGED <<load, varRow, collRow>>,
             overtaken' = overtaken \cup Loading
      PROVE  Fresh'
  BY <1>3 DEF Fresh, LoadsFresh, CacheFresh, Loading, HasRead
<1>4. ASSUME SyncError PROVE Fresh'
  BY <1>4 DEF SyncError, Fresh, LoadsFresh, CacheFresh, Loading, HasRead
<1>5. ASSUME Restart PROVE Fresh'
  BY <1>5 DEF Restart, NoLoad, Fresh, LoadsFresh, CacheFresh, HasRead
<1>6. ASSUME NEW r \in Readers, ReaderStep(r) PROVE Fresh'
  <2>1. CASE GetUserGraph(r) \/ ReadVars(r) \/ ReadColls(r)
    BY <1>0, <2>1
    DEF GetUserGraph, ReadVars, ReadColls, Fresh, LoadsFresh, CacheFresh, HasRead, AtRest, Loads
  <2>2. CASE PublishGraph(r)
    BY <1>0, <2>2
    DEF PublishGraph, NoLoad, Fresh, LoadsFresh, CacheFresh, HasRead, AtRest
  <2>3. CASE LoadFails(r)
    BY <1>0, <2>3 DEF LoadFails, NoLoad, Fresh, LoadsFresh, CacheFresh, HasRead, AtRest
  <2>4. QED
    BY <1>6, <2>1, <2>2, <2>3 DEF ReaderStep
<1>7. ASSUME NEW t \in Teams, RemoveTeam(t) PROVE ~AtRest'
  BY <1>7 DEF RemoveTeam, AtRest
<1>8. ASSUME NEW t \in Teams, RemoveTeamEvicts(t) PROVE Fresh'
  BY <1>3, <1>8 DEF RemoveTeamEvicts, EvictGraph
<1>9. ASSUME SyncDone PROVE Fresh'
  BY <1>3, <1>9 DEF SyncDone, EvictGraph
<1>10. ASSUME ReplaceLibrary PROVE ~AtRest'
  BY <1>10 DEF ReplaceLibrary, AtRest, Local, JobShape
<1>11. ASSUME FigmaStep \/ UNCHANGED vars \/ (\E t \in Teams : AddTeam(t))
              \/ (\E asked \in SUBSET Teams : SyncStart(asked))
       PROVE  Fresh'
  BY <1>1, <1>11 DEF FigmaStep, Move, Publish, AddTeam, SyncStart, vars, AtRest
<1>12. ASSUME \/ ListTeams \/ SetLibraries
              \/ \E t \in Teams : EnterTeam(t) \/ DiscoverFails(t)
              \/ \E p \in Projects : ListFiles(p) \/ ProjectSkipped(p)
              \/ \E f \in Files : FetchFile(f) \/ FileSkipped(f)
       PROVE  Fresh'
  BY <1>1, <1>12
  DEF ListTeams, SetLibraries, EnterTeam, DiscoverFails, ListFiles, ProjectSkipped, FetchFile,
      FileSkipped, AtRest
<1>13. QED
  BY <1>2, <1>4, <1>5, <1>6, <1>7, <1>8, <1>9, <1>10, <1>11, <1>12 DEF Next, RouteStep, JobStep

--------------------------------------------------------------------------------
(* The invariant is inductive.                                              *)
LEMMA NextIInv == IInv /\ [Next]_vars => IInv'
  BY TypeOKStep, LocalStep, RegistryStep, FreshStep DEF IInv, Local, Fresh

LEMMA SpecIInv == Spec => []IInv
  BY InitIInv, NextIInv, PTL DEF Spec

(* The state keeps its types through every interleaving.                    *)
THEOREM LibrarySyncTypeOK == Spec => []TypeOK
<1>1. IInv => TypeOK
  BY DEF IInv
<1>2. QED
  BY <1>1, SpecIInv, PTL

(* Whatever the sync, the routes and Figma do, a registry row that no team  *)
(* removal overtook names a registered team and a file with graph rows.     *)
THEOREM RegistryAlwaysConsistent == Spec => []RegistryConsistent
<1>1. IInv => RegistryConsistent
  BY DEF IInv
<1>2. QED
  BY <1>1, SpecIInv, PTL

(* At rest, a cached graph that no eviction or failed sync overtook is the  *)
(* database's, both its SELECTs from one state of it.                       *)
THEOREM CacheAlwaysFresh == Spec => []CacheFresh
<1>1. IInv => CacheFresh
  BY DEF IInv
<1>2. QED
  BY <1>1, SpecIInv, PTL

(* A registry row goes away only with its team, or on the evidence of a     *)
(* pass in which nothing that could hide its file failed.                   *)
THEOREM EvictionsNeedEvidence == Spec => EvictionNeedsEvidence
<1>1. ASSUME IInv, [Next]_vars, NEW f \in Files, RowLost(f)
      PROVE  \/ fileRow[f] \notin registered'
             \/ job.team = fileRow[f] /\ trouble \cap (Projects \cup {f}) = {}
  <2> USE DEF figma, db, process, history
  <2>1. fileRow' # fileRow /\ fileRow \in [Files -> Teams \cup {None}] /\ job \in Jobs
    BY <1>1 DEF RowLost, IInv, TypeOK
  <2>2. (\E t \in Teams : RemoveTeam(t)) \/ SetLibraries
    BY <1>1, <2>1
    DEF Next, FigmaStep, RouteStep, JobStep, ReaderStep, Move, Publish, AddTeam, RemoveTeamEvicts,
        SyncStart, ListTeams, EnterTeam, DiscoverFails, ListFiles, ProjectSkipped, FetchFile,
        FileSkipped, ReplaceLibrary, SyncDone, SyncError, GetUserGraph, ReadVars, ReadColls,
        PublishGraph, LoadFails, Restart, vars
  <2>3. CASE \E t \in Teams : RemoveTeam(t)
    BY <1>1, <2>1, <2>3 DEF RemoveTeam, RowsOf, RowLost
  <2>4. CASE SetLibraries
    <3>1. job.team \in Teams /\ InPass
      BY <1>1, <2>4 DEF SetLibraries, InPass, IInv, JobShape
    <3>2. f \in Evicted
      BY <1>1, <2>1, <2>4, <3>1, LibrarySyncAssumption DEF SetLibraries, RowLost
    <3>3. ~job.incomplete /\ fileRow[f] = job.team /\ f \notin job.preserve
      BY <3>2 DEF Evicted, RowsOf
    <3>4. trouble \cap Projects = {} /\ f \notin trouble
      BY <1>1, <3>1, <3>3 DEF IInv, Troubled
    <3>5. QED
      BY <3>3, <3>4
  <2>5. QED
    BY <2>2, <2>3, <2>4
<1>2. IInv /\ [Next]_vars =>
        [\A f \in Files : RowLost(f) =>
           \/ fileRow[f] \notin registered'
           \/ job.team = fileRow[f] /\ trouble \cap (Projects \cup {f}) = {}]_vars
  BY <1>1
<1>3. QED
  BY <1>2, SpecIInv, PTL DEF Spec, EvictionNeedsEvidence
================================================================================
