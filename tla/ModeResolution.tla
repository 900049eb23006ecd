------------------------------ MODULE ModeResolution ------------------------------
(***************************************************************************)
(* The value a variable has on screen.  A collection of variables has modes; *)
(* a node may pin a collection to one of them, and the nearest pin on the     *)
(* path from the document to the node counts, else the default.  A variable's *)
(* value in a mode may be an alias, whose target has a mode of its own to be   *)
(* chosen.                                                                  *)
(*                                                                         *)
(* The server sees a part of the path, tries to get the rest in ever deeper   *)
(* projections, and then walks the aliases, in the file's own index of        *)
(* variables or in the synced graph of the libraries.  It states the value    *)
(* only if every choice of a mode on the way is proved.                     *)
(*                                                                         *)
(* The id of a collection in a pin may differ from its id in the graph: a     *)
(* subscribed copy has the library's key and a suffix of its own; in the      *)
(* library's own file the id is plain and the key is kept beside it.  A plain *)
(* id is a number of its file: it names another collection in another file,   *)
(* and the graph, which has many files, looks it up as it is.  A row of the   *)
(* graph may be missing, so each look-up may fail.                          *)
(***************************************************************************)
EXTENDS Integers, FiniteSets, Functions

CONSTANTS
  Colls, ModesOf, Default,    \* collections: their modes, each one's default
  Suffix,                     \* of a collection's id in the graph; Plain for a plain one
  Own, LocalId,               \* those of the file; a plain id, of its file only
  NodePins,                   \* what a node may pin: collection -> [form, mode], or Nothing
  Vars, CollOf, Val,          \* variables: their collection, their value in each mode
  Index, Synced,              \* those in the file's own index, those the graph may hold
  NodeLevel,                  \* levels from the document to the node
  Attempts,                   \* projections that are tried
  MaxHops, MaxLocalHops,      \* alias hops followed in the graph, in the index
  Plain, Unmapped, Nothing

Levels == 1..NodeLevel
Alias(w)   == [alias |-> w]
IsAlias(x) == DOMAIN x = {"alias"}

ASSUME ModeResolutionAssumption ==
  /\ \A c \in Colls : Default[c] \in ModesOf[c] /\ {Unmapped, Nothing} \cap ModesOf[c] = {}
  /\ \A v \in Vars : CollOf[v] \in Colls /\ DOMAIN Val[v] = ModesOf[CollOf[v]]
  /\ Index \cup Synced \subseteq Vars /\ Own \subseteq Colls
  /\ NodeLevel \in Nat \ {0} /\ Attempts \in Nat
  /\ Nothing \notin Vars

(* The file that is looked at writes the ids of its own collections plainly,  *)
(* no two alike, and of others with a key; a collection of its index has one   *)
(* id.  In two files one plain id may name two collections.                  *)
ASSUME IdsAssumption ==
  /\ \A c, d \in Own : LocalId[c] = LocalId[d] => c = d
  /\ \A p \in NodePins, c \in Colls : p[c] # Nothing => (p[c].form = Plain <=> c \in Own)
  /\ \A p, q \in NodePins, v \in Index :
       p[CollOf[v]] # Nothing /\ q[CollOf[v]] # Nothing => p[CollOf[v]].form = q[CollOf[v]].form

VARIABLES
  pins,      \* external: level -> what its node pins
  deep,      \* external: the first attempt that reaches the node
  seen,      \* level -> its pins, for the levels the server holds
  covered,   \* coverageComplete
  attempt,   \* the next projection
  stage,     \* "discover", "bind", "index", "graph" or "done"
  bound,     \* the variable the node is bound to
  reached, mode, hops, applied,   \* the locals of the alias walk
  answer     \* [value, default, source, from], or Nothing; from: the half that told it

scene == <<pins, deep>>
hopping == <<bound, reached, mode, hops, applied>>
choosing == <<scene, seen, covered, attempt, stage, hopping, answer>>

ModesInit ==
  /\ pins \in [Levels -> NodePins] /\ deep \in 1..(Attempts + 1)
  /\ seen = [l \in {NodeLevel} |-> pins[l]] /\ covered = FALSE /\ attempt = 1
  /\ stage = "discover" /\ bound = Nothing /\ reached = Nothing /\ mode = Nothing /\ hops = 0
  /\ applied = [c \in {} |-> Nothing] /\ answer = Nothing

--------------------------------------------------------------------------------
(* discoverAncestorModesBatch, for one node: at most one projection a depth. *)

(* Mutant: the path of another version of the file is taken for this one's.  *)
SameOrNot(p) == TRUE
(* raw.version = version.                                                   *)
SameVersion(p) == p = pins

(* External: another version may have no pins at a level.                   *)
Responses == {pins} \cup {[pins EXCEPT ![l] = [c \in Colls |-> Nothing]] : l \in 1..(NodeLevel - 1)}
Discovered ==
  /\ attempt <= Attempts /\ deep <= attempt
  /\ \E p \in Responses : SameVersion(p) /\ seen' = p
  /\ covered' = TRUE /\ stage' = "bind"
  /\ UNCHANGED <<scene, attempt, hopping, answer>>

MissingTarget ==
  /\ attempt < Attempts /\ attempt < deep /\ attempt' = attempt + 1
  /\ UNCHANGED <<scene, seen, covered, stage, hopping, answer>>

(* Too deep, the deadline, too many bytes, another version, an ambiguous or  *)
(* malformed path, an error: nothing is known above the request.            *)
NotDiscovered ==
  /\ stage' = "bind" /\ UNCHANGED <<scene, seen, covered, attempt, hopping, answer>>

Discover == stage = "discover" /\ (Discovered \/ MissingTarget \/ NotDiscovered)

--------------------------------------------------------------------------------
(* buildExactModeEvidence and buildGraphModeEvidence: of the pins held, the  *)
(* nearest for each id, for each library key.                               *)
PinsAt(l) == {[coll |-> c, form |-> seen[l][c].form, mode |-> seen[l][c].mode, level |-> l] :
                c \in {d \in Colls : seen[l][d] # Nothing}}
Held == UNION {PinsAt(l) : l \in DOMAIN seen}

(* Mutant: the farthest pin.                                                *)
Farther(e, f) == f.level < e.level
Nearer(e, f) == f.level > e.level

(* An id as it is written.  collectionLibKey: a plain id is its own key.     *)
Id(c, form) == IF form = Plain THEN <<LocalId[c], Plain>> ELSE <<c, form>>
IdOf(e)   == Id(e.coll, e.form)
LibKey(e) == IF e.form = Plain THEN <<LocalId[e.coll], TRUE>> ELSE <<e.coll, FALSE>>
Exact(S)  == {e \in S : ~\E f \in S : IdOf(e) = IdOf(f) /\ Nearer(e, f)}
ByKey(S)  == {e \in S : ~\E f \in S : LibKey(e) = LibKey(f) /\ Nearer(e, f)}

(* The pins that speak for c.  In the index, whose ids are of the one file,   *)
(* its own.  In the graph the pin of the same id is terminal, of whatever     *)
(* collection it is; else any suffix of the same key, which a plain id has    *)
(* published beside it.                                                     *)
For(c) ==
  IF stage = "index" THEN {e \in Exact(Held) : e.coll = c}
  ELSE LET exact == {e \in ByKey(Held) : IdOf(e) = Id(c, Suffix[c])}
       IN  IF exact # {} THEN exact ELSE {e \in ByKey(Held) : LibKey(e) = <<c, FALSE>>}

Multi(c) == \E m, n \in ModesOf[c] : m # n
Picked(c) == {e.mode : e \in For(c)} \cap ModesOf[c]
ModeOf(c) == IF Picked(c) # {} THEN CHOOSE m \in Picked(c) : TRUE ELSE Default[c]

(* graphAxisEvidence, localAxisEvidence.                                    *)
Source(c, m) ==
  IF For(c) = {} THEN IF covered THEN "confirmed_default" ELSE "unverifiable"
  ELSE IF \E e \in For(c) : e.mode = m /\ m \in ModesOf[c]
       THEN IF \E e \in For(c) : e.level = NodeLevel THEN "explicit_node" ELSE "ancestor_chain"
       ELSE "unverifiable"

(* recordApplied: the first choice for a collection stays.                  *)
Applied(a, c, m) ==
  IF Multi(c) /\ c \notin DOMAIN a THEN [d \in DOMAIN a \cup {c} |-> IF d = c THEN Source(c, m) ELSE a[d]] ELSE a

(* compositeModeSource.                                                     *)
Composite(a) ==
  LET S == {a[c] : c \in DOMAIN a}
  IN  IF "unverifiable" \in S THEN "unverifiable"
      ELSE IF "ancestor_chain" \in S THEN "ancestor_chain"
      ELSE IF "explicit_node" \in S THEN "explicit_node" ELSE "confirmed_default"

(* resolveKey and resolveDefault: every choice a default, inside S.          *)
Defaults[h \in 0..Cardinality(Vars), S \in {Index, Synced}] ==
  [v \in Vars |-> LET x == Val[v][Default[CollOf[v]]]
                  IN  IF ~IsAlias(x) THEN x
                      ELSE IF h = 0 \/ x.alias \notin S THEN Nothing ELSE Defaults[h - 1, S][x.alias]]
DefaultValue(v) ==
  IF stage = "graph" THEN Defaults[Cardinality(Vars), Synced][v]
  ELSE Defaults[IF MaxLocalHops < Cardinality(Vars) THEN MaxLocalHops + 1 ELSE Cardinality(Vars), Index][v]

--------------------------------------------------------------------------------
(* makeColorTokenResolver: the index first, what it cannot tell the graph.   *)
Resolving(half, v) ==
  /\ stage' = half /\ reached' = v /\ hops' = 0 /\ mode' = Nothing /\ applied' = [c \in {} |-> Nothing]

Bind(v) ==
  /\ stage = "bind" /\ bound' = v
  /\ \E loaded \in BOOLEAN : Resolving(IF loaded /\ v \in Index THEN "index" ELSE "graph", v)
  /\ UNCHANGED <<scene, seen, covered, attempt, answer>>

NotTold ==
  /\ IF stage = "index" THEN Resolving("graph", bound)
     ELSE stage' = "done" /\ UNCHANGED <<reached, mode, hops, applied>>
  /\ UNCHANGED <<scene, seen, covered, attempt, bound, answer>>

(* resolveKeyInMode, resolveBoundVariableInMode: the top of the chain.       *)
There(v) == IF stage = "index" THEN v \in Index ELSE v \in Synced
TopMode ==
  /\ stage \in {"index", "graph"} /\ mode = Nothing
  /\ \/ stage = "graph" /\ NotTold                 \* no such row
     \/ /\ There(reached) /\ (stage = "graph" => CollOf[reached] \notin Own)   \* one of the file has no key
        /\ mode' = ModeOf(CollOf[reached])
        /\ applied' = Applied(applied, CollOf[reached], ModeOf(CollOf[reached]))
        /\ UNCHANGED <<scene, seen, covered, attempt, stage, bound, reached, hops, answer>>

Value == Val[reached][mode]

(* resolveNodeInMode, resolveInMode: an alias; pickTargetMode,               *)
(* pickTargetModeLocal: a pin, the mode inherited within the collection, the *)
(* default.                                                                 *)
Hop ==
  /\ stage \in {"index", "graph"} /\ mode # Nothing /\ IsAlias(Value)
  /\ LET w == Value.alias
         c == CollOf[w]
         inherited == Picked(c) = {} /\ c = CollOf[reached]
         last == hops >= (IF stage = "index" THEN MaxLocalHops + 1 ELSE MaxHops)
     IN  \/ (last \/ ~There(w) \/ stage = "graph") /\ NotTold
         \/ /\ ~last /\ There(w)
            /\ reached' = w /\ hops' = hops + 1
            /\ mode' = IF inherited THEN mode ELSE ModeOf(c)
            /\ applied' = IF inherited THEN applied ELSE Applied(applied, c, ModeOf(c))
            /\ UNCHANGED <<scene, seen, covered, attempt, stage, bound, answer>>

(* The end of the chain.  A token is stated only with its default beside it.  *)
Literal ==
  /\ stage \in {"index", "graph"} /\ mode # Nothing /\ ~IsAlias(Value)
  /\ LET default == DefaultValue(bound)
     IN  \/ /\ applied = [c \in {} |-> Nothing]
            /\ answer' = [value |-> Value, default |-> Nothing, source |-> "none", from |-> stage]
            /\ stage' = "done" /\ UNCHANGED <<scene, seen, covered, attempt, hopping>>
         \/ /\ applied # [c \in {} |-> Nothing] /\ default # Nothing
            /\ answer' = [value |-> IF Composite(applied) = "unverifiable" THEN Nothing ELSE Value,
                          default |-> default, source |-> Composite(applied), from |-> stage]
            /\ stage' = "done" /\ UNCHANGED <<scene, seen, covered, attempt, hopping>>
         \/ /\ applied # [c \in {} |-> Nothing] /\ (default = Nothing \/ stage = "graph")
            /\ NotTold

ModesNext ==
  \/ Discover \/ (\E v \in Vars : Bind(v)) \/ TopMode \/ Hop \/ Literal
  \/ stage = "done" /\ UNCHANGED choosing

ModesSpec == ModesInit /\ [][ModesNext]_choosing

--------------------------------------------------------------------------------
(* What Figma renders: every variable in the mode of its collection's nearest *)
(* pin.  Unmapped: a mode the collection does not have any more.            *)
Nearest(c) ==
  LET L == {l \in Levels : pins[l][c] # Nothing}
  IN  IF L = {} THEN Default[c] ELSE pins[CHOOSE l \in L : \A k \in L : k <= l][c].mode
ModeShown(c) == IF Multi(c) THEN Nearest(c) ELSE Default[c]

(* Reference: the variables behind v on screen, the least set that has v and   *)
(* with a member the one its value on screen is an alias of.  At most one of   *)
(* them has a value that is no alias: it is what v shows.                     *)
Follows(S) ==
  \A u \in S : LET m == ModeShown(CollOf[u])
               IN  m # Unmapped /\ IsAlias(Val[u][m]) => Val[u][m].alias \in S
Behind(v) == {u \in Vars : \A S \in SUBSET Vars : v \in S /\ Follows(S) => u \in S}
Shows(v, x) ==
  \E u \in Behind(v) : LET m == ModeShown(CollOf[u])
                       IN  m # Unmapped /\ ~IsAlias(Val[u][m]) /\ x = Val[u][m]

(* In the graph a pin of the file's own collection is taken for one of c, which *)
(* another file has under the same plain id; or, if c is the file's own and the *)
(* graph has it as a copy, is not taken for one of c.                       *)
Mistakable(c) ==
  Multi(c) /\ \E l \in Levels, d \in Own :
    /\ pins[l][d] # Nothing
    /\ IF d = c THEN Suffix[c] # Plain ELSE Suffix[c] = Plain /\ LocalId[d] = LocalId[c]
NoneMistaken == \A u \in Behind(bound) : ~Mistakable(CollOf[u])

(* A value that is stated is the one on screen, through however many aliases  *)
(* and collections, whatever is hidden, renamed or missing: a mode that is    *)
(* not proved, an id that is not recognised, a path that is cut short each    *)
(* withhold it.  Of the file's index, always; of the graph, unless a plain id  *)
(* is mistaken on the way.                                                  *)
EffectiveIsTrue ==
  answer # Nothing /\ answer.value # Nothing /\ (answer.from = "index" \/ NoneMistaken) => Shows(bound, answer.value)

(* What docs/tools/design-qa.md says of effectiveHex, "the evidenced rendered  *)
(* value": the same without that exception.                                *)
StatedMeansShown == answer # Nothing /\ answer.value # Nothing => Shows(bound, answer.value)
================================================================================
