------------------------------- MODULE AliasRelation -------------------------------
(***************************************************************************)
(* Is one variable wired to another by aliases?  The answer decides whether a *)
(* difference between two tokens counts, so "related" and "unrelated" must be *)
(* proved and everything else is "unknown".                                 *)
(*                                                                         *)
(* The walk goes in breadth over the aliases of all modes, first through the  *)
(* file's own index of variables, then, from each published variable that it  *)
(* left the file by, through the synced graph of the libraries, on one budget *)
(* of levels; and then the other way round.  Rows of the index and of the     *)
(* graph may be missing (variables without a key are not synced), and so may   *)
(* the graph.                                                               *)
(*                                                                         *)
(* A variable has two names: another file refers to it by its key, its own by *)
(* its local id.  The walks compare names.                                  *)
(***************************************************************************)
EXTENDS Integers, FiniteSets

CONSTANTS Variables, FileOf, Here,   \* variables, their files, the file that is compared
          MayAlias,             \* external: the aliases a variable may have
          Cap,                  \* MERGED_WALK_CAP
          Unset                 \* not said, not asked yet

ASSUME AliasRelationAssumption ==
  /\ \A v \in Variables : MayAlias[v] \subseteq Variables
  /\ \A v \in Variables : \A w \in MayAlias[v] : FileOf[v] # Here => FileOf[w] # Here
  /\ Cap \in Nat \ {0}
  /\ Unset \notin {"related", "unrelated", "unknown"} /\ Unset \notin Variables \X Variables

VARIABLES aliases,    \* external: variable -> what it is an alias of in some mode
          rows,       \* the variables that the index, for a library's the graph, has
          viewed,     \* there is a graph
          pair,       \* the two variables asked about, or Unset
          forward,    \* what the first direction said, or Unset
          place,      \* "index", "graph", "end" of a direction, or "idle"
          frontier, visited, hole,     \* the locals of the walk under way
          levels,     \* levels left to it
          starts,     \* where the graph is still to be entered
          share,      \* the levels of each entry
          said        \* the answer, or Unset

wiring == <<aliases, rows, viewed>>
walking == <<frontier, visited, hole, levels, starts, share>>
relating == <<wiring, pair, forward, place, walking, said>>

Key(v)   == <<"key", v>>
Local(v) == <<"local", v>>
(* canonEvidenceId, extractLibraryKey: the name by which u refers to w, the   *)
(* name by which the question names v.                                      *)
Edge(u, w) == IF FileOf[u] = FileOf[w] THEN Local(w) ELSE Key(w)
Canon(v)   == IF FileOf[v] = Here THEN Local(v) ELSE Key(v)
IsKey(r)   == r[1] = "key"

From == IF forward = Unset THEN pair[1] ELSE pair[2]
To   == Canon(IF forward = Unset THEN pair[2] ELSE pair[1])

Unwalked == /\ frontier = {} /\ visited = {} /\ hole = FALSE /\ levels = 0 /\ starts = {} /\ share = 0

RelationInit ==
  /\ \E E \in SUBSET (UNION {{v} \X MayAlias[v] : v \in Variables}) :
       aliases = [v \in Variables |-> {w \in MayAlias[v] : <<v, w>> \in E}]
  /\ rows \in SUBSET Variables /\ viewed \in BOOLEAN
  /\ pair = Unset /\ forward = Unset /\ place = "idle" /\ said = Unset /\ Unwalked

--------------------------------------------------------------------------------
(* A direction ends with r: aliasRelation tries the other one unless related. *)
EndsWith(r) ==
  /\ frontier' = {} /\ visited' = {} /\ hole' = FALSE /\ levels' = 0 /\ starts' = {} /\ share' = 0
  /\ \/ /\ r # "related" /\ forward = Unset
        /\ forward' = r /\ place' = "end" /\ UNCHANGED <<pair, said>>
     \/ /\ r = "related" \/ forward # Unset
        /\ said' = IF r = "related" THEN r ELSE IF "unknown" \in {r, forward} THEN "unknown" ELSE "unrelated"
        /\ place' = "idle" /\ UNCHANGED <<pair, forward>>
  /\ UNCHANGED wiring

Walks(half, budget) ==
  /\ place' = half /\ frontier' = {Canon(From)} /\ levels' = budget
  /\ visited' = {} /\ hole' = FALSE /\ starts' = {} /\ share' = 0
  /\ UNCHANGED <<wiring, pair, forward, said>>

Ask(a, b) ==
  /\ said = Unset /\ pair = Unset /\ pair' = <<a, b>> /\ place' = "end"
  /\ UNCHANGED <<wiring, forward, walking, said>>

(* walkOne up to its loops: the libraries know nothing of the file.         *)
BeginWalk ==
  /\ place = "end"
  /\ \/ Canon(From) = To /\ EndsWith("related")
     \/ Canon(From) # To /\ FileOf[From] = Here /\ Walks("index", Cap)
     \/ Canon(From) # To /\ FileOf[From] # Here /\ ~IsKey(To) /\ EndsWith("unrelated")
     \/ Canon(From) # To /\ FileOf[From] # Here /\ IsKey(To) /\ ~viewed /\ EndsWith("unknown")
     \/ Canon(From) # To /\ FileOf[From] # Here /\ IsKey(To) /\ viewed /\ Walks("graph", Cap)

New   == frontier \ visited
Found == {r \in New : r[2] \in rows}
Edges == UNION {{Edge(r[2], w) : w \in aliases[r[2]]} : r \in Found}

(* Mutants: a row that is missing, or a budget that ends, passes for the end  *)
(* of the chain.                                                            *)
HoleIgnored == hole
(* sawHole after the nodes of a level.                                      *)
HoleAfter == hole \/ Found # New

(* One round of the loop over depths, in either half.                       *)
Level ==
  /\ place \in {"index", "graph"} /\ levels > 0 /\ frontier # {}
  /\ \/ To \in Edges /\ EndsWith("related")
     \/ /\ To \notin Edges
        /\ visited' = visited \cup New /\ hole' = HoleAfter /\ levels' = levels - 1
        /\ frontier' = IF place = "index" THEN {r \in Edges : ~IsKey(r)} ELSE Edges
        /\ starts' = IF place = "index" /\ IsKey(To) THEN starts \cup {r \in Edges : IsKey(r)} ELSE starts
        /\ UNCHANGED <<wiring, pair, forward, place, share, said>>

(* The index is walked: what is left of the budget is divided among the      *)
(* entries to the graph.                                                    *)
Over == levels = 0 \/ frontier = {}
Cut  == hole \/ frontier # {}
LeaveIndex ==
  /\ place = "index" /\ Over
  /\ IF starts = {} THEN EndsWith(IF Cut THEN "unknown" ELSE "unrelated")
     ELSE IF ~viewed \/ levels < Cardinality(starts) THEN EndsWith("unknown")
     ELSE /\ place' = "graph" /\ share' = levels \div Cardinality(starts)
          /\ frontier' = {} /\ levels' = 0 /\ hole' = Cut
          /\ UNCHANGED <<wiring, pair, forward, visited, starts, said>>

(* The next entry, on a budget and with a visited set of its own.           *)
Enter(r) ==
  /\ place = "graph" /\ Over /\ r \in starts
  /\ starts' = starts \ {r} /\ hole' = Cut
  /\ frontier' = {r} /\ visited' = {} /\ levels' = share
  /\ UNCHANGED <<wiring, pair, forward, place, share, said>>

LeaveGraph ==
  /\ place = "graph" /\ Over /\ starts = {} /\ EndsWith(IF Cut THEN "unknown" ELSE "unrelated")

RelationNext ==
  \/ \E a, b \in Variables : Ask(a, b)
  \/ BeginWalk \/ Level \/ LeaveIndex \/ LeaveGraph \/ \E v \in Variables : Enter(Key(v))
  \/ said # Unset /\ UNCHANGED relating

RelationSpec == RelationInit /\ [][RelationNext]_relating

--------------------------------------------------------------------------------
(* The wiring itself: what is reached from v by any number of aliases, the    *)
(* least set that holds v and whatever its members are aliases of.          *)
Closed(S) == \A u \in S : aliases[u] \subseteq S
Reach(v)  == {w \in Variables : \A S \in SUBSET Variables : v \in S /\ Closed(S) => w \in S}
(* b is reached from a, and named by the last alias as the question names it. *)
Named(a, b) == a = b \/ \E u \in Reach(a) : b \in aliases[u] /\ Edge(u, b) = Canon(b)

(* Whatever is missing and however the budget is divided, "related" is said   *)
(* of variables that the wiring relates, and "unrelated" only when no alias    *)
(* of either's chain names the other as it was pair for.                   *)
RelationIsProven ==
  said # Unset =>
    LET a == pair[1]  b == pair[2]
    IN  /\ said = "related" => b \in Reach(a) \/ a \in Reach(b)
        /\ said = "unrelated" => ~Named(a, b) /\ ~Named(b, a)

(* "relatedness is a property of the wiring": "unrelated" is said only of     *)
(* variables that the wiring does not relate.  It is not so: an alias inside   *)
(* a library names its target by its local id, and the question by its key.   *)
NonRelationIsProven ==
  said = "unrelated" => pair[2] \notin Reach(pair[1]) /\ pair[1] \notin Reach(pair[2])
================================================================================
