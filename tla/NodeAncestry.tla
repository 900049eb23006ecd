------------------------------ MODULE NodeAncestry ------------------------------
(***************************************************************************)
(* resolveAncestry: the containers of a node, found from above.  Figma does *)
(* not tell a node's parent, so the walk goes down from the top-level nodes *)
(* whose box holds the target's center, two levels per fetch, with at most  *)
(* MaxCalls fetches shared fairly between the branches, until it sees the   *)
(* target's id.  Fetches fail and the deadline passes.                      *)
(*                                                                         *)
(* Nodes are numbered in document order.  A path is a sequence of nodes     *)
(* from a top-level node down; the page above it is left out.  One branch   *)
(* is one top-level node.  The code's descend is a depth-first search that  *)
(* restarts from the branch's root after a pause and walks what it fetched  *)
(* before for free.  Where it goes next depends on the fetched and the      *)
(* failed nodes alone: here it passes by what it would find dead, and after *)
(* a dead end it begins at the branch's root again.                         *)
(***************************************************************************)
EXTENDS Integers, Sequences, SequencesExt, FiniteSets

CONSTANTS Nodes,      \* in document order
          Parent,     \* node -> its parent, 0 for a top-level node
          Area,       \* node -> area of its bounding box
          MaxCalls,
          Affine      \* nodes of the target's editing session

ASSUME NodeAncestryAssumption ==
  /\ Nodes \subseteq Nat \ {0} /\ MaxCalls \in Nat \ {0}
  /\ Parent \in [Nodes -> Nodes \cup {0}] /\ \A n \in Nodes : Parent[n] < n
  /\ Area \in [Nodes -> Nat] /\ Affine \subseteq Nodes

MinBranchCap == 2

VARIABLES target,          \* the id looked for: 0 if the file no longer has it
          holds,           \* the nodes whose box holds the target's center
          late,            \* the deadline has passed
          phase, calls, fetched, failed,
          turn, parked,    \* branches still to go in this round, parked in it
          ceiling,         \* the running branch's cap on calls, 0 between branches
          progress,        \* something was fetched in this round
          trail,           \* where the running branch is: the path to a fetched node
          best, result     \* bestPath; what was returned

file == <<target, holds>>
search == <<turn, parked, ceiling, progress, trail>>
vars == <<file, late, phase, calls, fetched, failed, search, best, result>>

Kids(n) == {m \in Nodes : Parent[m] = n}
Tops    == Kids(0)
Unanswered == [kind |-> "none", path |-> <<>>]

Blank ==
  /\ late = FALSE /\ phase = "idle" /\ calls = 0 /\ fetched = {} /\ failed = {}
  /\ turn = {} /\ parked = {} /\ ceiling = 0 /\ progress = FALSE /\ trail = <<>>
  /\ best = <<>> /\ result = Unanswered

Init == target \in Nodes \cup {0} /\ holds \in SUBSET Nodes /\ Blank

--------------------------------------------------------------------------------
(* byAreaAscending: by key, then by area, then in document order.           *)
First(S, key) ==
  CHOOSE n \in S : \A m \in S :
    \/ key[n] < key[m]
    \/ key[n] = key[m] /\ Area[n] < Area[m]
    \/ key[n] = key[m] /\ Area[n] = Area[m] /\ n <= m

(* What one fetch of n shows below it: steps of one level and of two.       *)
Steps == [n \in Nodes |-> {<<m>> : m \in Kids(n)} \cup {<<Parent[m], m>> : m \in UNION {Kids(k) : k \in Kids(n)}}]
Candidates(n) == {s \in Steps[n] : Last(s) \in holds}

(* Grandchildren first, then by area, then in document order.               *)
Before(s, u) ==
  \/ Len(s) > Len(u)
  \/ Len(s) = Len(u) /\ Area[Last(s)] < Area[Last(u)]
  \/ Len(s) = Len(u) /\ Area[Last(s)] = Area[Last(u)] /\ Last(s) <= Last(u)

(* A part of the tree is dead: every lead in it was fetched and led nowhere,  *)
(* or could not be fetched.                                                 *)
Exhausted(S) == \A n \in S : \A s \in Candidates(n) : Last(s) \in S \cup failed
Dead(n) == \E S \in SUBSET fetched : n \in S /\ Exhausted(S)

(* descend's candidates at the end of the trail, and the first of them.      *)
Live == {s \in Candidates(Last(trail)) : Last(s) \notin failed /\ (Last(s) \in fetched => ~Dead(Last(s)))}
Lead == CHOOSE s \in Live : \A u \in Live : Before(s, u)

(* recordPath: a tail of the target's session beats any other, then length.  *)
OnScreen(path) == path # <<>> /\ Last(path) \in Affine
Better(path, than) == IF OnScreen(path) # OnScreen(than) THEN OnScreen(path) ELSE Len(path) > Len(than)
Recorded(was, path) == IF Better(path, was) THEN path ELSE was

(* What entering a fetched node records: itself, then the parents of the     *)
(* grandchildren that hold the center, of which the deepest-reaching wins.   *)
Walked(was, path) ==
  LET here == Recorded(was, path)
      mids == {Parent[Last(s)] : s \in {s \in Candidates(Last(path)) : Len(s) = 2}}
      pick == IF mids \cap Affine # {} THEN mids \cap Affine ELSE mids
  IN  IF mids = {} THEN here
      ELSE Recorded(here, Append(path, CHOOSE m \in pick : \A k \in pick : m <= k))

StopReason == IF late THEN "time" ELSE IF calls >= MaxCalls THEN "calls" ELSE "go"

Finish(kind, path) == phase' = "done" /\ result' = [kind |-> kind, path |-> path]

--------------------------------------------------------------------------------
(* Call 1: the target's own box.  Without it, or without the target, throw. *)
Identify ==
  /\ phase = "idle"
  /\ calls' = 1 /\ late' \in BOOLEAN
  /\ \/ phase' = "skeleton" /\ UNCHANGED result
     \/ Finish("throws", <<>>)
  /\ UNCHANGED <<file, fetched, failed, search, best>>

(* Call 2: pages and top-level nodes.                                       *)
Skeleton ==
  /\ phase = "skeleton"
  /\ \/ /\ StopReason # "go" /\ Finish(StopReason, best) /\ UNCHANGED <<late, calls>>
     \/ /\ StopReason = "go" /\ calls' = calls + 1 /\ late' \in {late, TRUE}
        /\ \/ Finish("throws", <<>>)
           \/ target \in Tops /\ Finish("confirmed", <<>>)
           \/ target \notin Tops /\ Tops \cap holds = {} /\ Finish("nowhere", <<>>)
           \/ target \notin Tops /\ Tops \cap holds # {} /\ phase' = "probe" /\ UNCHANGED result
  /\ UNCHANGED <<file, fetched, failed, search, best>>

(* fetchNode of n, reached by path (n included): its two levels are seen.   *)
Fetch(n, path) ==
  /\ calls' = calls + 1 /\ late' \in {late, TRUE}
  /\ \/ /\ fetched' = fetched \cup {n} /\ UNCHANGED failed
        /\ \/ \E s \in Steps[n] : Last(s) = target /\ Finish("confirmed", path \o Front(s))
                                  /\ UNCHANGED best
           \/ /\ \A s \in Steps[n] : Last(s) # target
              /\ best' = IF phase = "probe" THEN Recorded(best, path) ELSE Walked(best, path)
              /\ UNCHANGED <<phase, result>>
     \/ failed' = failed \cup {n} /\ UNCHANGED <<fetched, phase, best, result>>
     \/ Finish("throws", <<>>) /\ UNCHANGED <<fetched, failed, best>>

Unprobed == (Tops \cap holds) \ (fetched \cup failed)

(* Every top-level candidate is looked at before any is descended into.     *)
Probe ==
  /\ phase = "probe" /\ Unprobed # {}
  /\ LET n == First(Unprobed, Area)
     IN  IF StopReason = "go" THEN Fetch(n, <<n>>)
         ELSE Finish(StopReason, best) /\ UNCHANGED <<late, calls, fetched, failed, best>>
  /\ UNCHANGED <<file, search>>

Probed ==
  /\ phase = "probe" /\ Unprobed = {}
  /\ phase' = "descend" /\ turn' = Tops \cap fetched
  /\ UNCHANGED <<file, late, calls, fetched, failed, parked, ceiling, progress, trail, best, result>>

--------------------------------------------------------------------------------
(* convergenceKey: the smallest box around the center that the probe shows. *)
Tightest ==
  [n \in Nodes |-> LET areas == {Area[m] : m \in {n} \cup {Last(s) : s \in Candidates(n)}}
                   IN  CHOOSE a \in areas : \A b \in areas : a <= b]
Branch == First(turn, Tightest)

(* A branch's turn: its share of what is left, at least MinBranchCap.       *)
BeginTurn ==
  /\ phase = "descend" /\ turn # {} /\ ceiling = 0
  /\ LET share == (MaxCalls - calls) \div Cardinality(turn)
     IN  ceiling' = calls + (IF share > MinBranchCap THEN share ELSE MinBranchCap)
  /\ trail' = <<Branch>> /\ best' = Walked(best, <<Branch>>)
  /\ UNCHANGED <<file, late, phase, calls, fetched, failed, turn, parked, progress, result>>

(* A cached node is entered for free.                                       *)
Forward ==
  /\ phase = "descend" /\ ceiling # 0 /\ Live # {} /\ Last(Lead) \in fetched
  /\ trail' = trail \o Lead /\ best' = Walked(best, trail \o Lead)
  /\ UNCHANGED <<file, late, phase, calls, fetched, failed, turn, parked, ceiling, progress, result>>

Descend ==
  /\ phase = "descend" /\ ceiling # 0 /\ Live # {} /\ Last(Lead) \notin fetched
  /\ \/ /\ StopReason # "go" /\ Finish(StopReason, best)
        /\ UNCHANGED <<late, calls, fetched, failed, best, progress, trail>>
     \/ /\ StopReason = "go" /\ calls < ceiling
        /\ Fetch(Last(Lead), trail \o Lead) /\ progress' = TRUE
        /\ trail' = IF Last(Lead) \in fetched' THEN trail \o Lead ELSE trail
  /\ UNCHANGED <<file, turn, parked, ceiling>>

Backtrack ==
  /\ phase = "descend" /\ ceiling # 0 /\ Live = {} /\ Len(trail) > 1
  /\ trail' = <<Branch>>
  /\ UNCHANGED <<file, late, phase, calls, fetched, failed, turn, parked, ceiling, progress, best, result>>

(* Mutant: a branch out of its share is forgotten.                          *)
ParkingLost == parked
(* A branch out of its share waits for the next round.                      *)
Parking == parked \cup {Branch}

EndTurn ==
  /\ phase = "descend" /\ ceiling # 0
  /\ \/ Live = {} /\ Len(trail) = 1 /\ UNCHANGED parked
     \/ /\ Live # {} /\ Last(Lead) \notin fetched /\ StopReason = "go" /\ calls >= ceiling
        /\ parked' = Parking
  /\ turn' = turn \ {Branch} /\ ceiling' = 0 /\ trail' = <<>>
  /\ UNCHANGED <<file, late, phase, calls, fetched, failed, progress, best, result>>

EndRound ==
  /\ phase = "descend" /\ ceiling = 0 /\ turn = {}
  /\ \/ parked = {} /\ Finish("broken", best) /\ UNCHANGED search
     \/ parked # {} /\ ~progress /\ Finish("calls", best) /\ UNCHANGED search
     \/ /\ parked # {} /\ progress
        /\ turn' = parked /\ parked' = {} /\ progress' = FALSE /\ UNCHANGED <<ceiling, trail, phase, result>>
  /\ UNCHANGED <<file, late, calls, fetched, failed, best>>

(* The answer is returned; the next request is about another node.          *)
Return ==
  /\ phase = "done"
  /\ late' = FALSE /\ phase' = "idle" /\ calls' = 0 /\ fetched' = {} /\ failed' = {}
  /\ turn' = {} /\ parked' = {} /\ ceiling' = 0 /\ progress' = FALSE /\ trail' = <<>>
  /\ best' = <<>> /\ result' = Unanswered
  /\ UNCHANGED file

WalkStep == Skeleton \/ Probe \/ Probed \/ BeginTurn \/ Forward \/ Descend \/ Backtrack \/ EndTurn \/ EndRound
Next == Identify \/ WalkStep \/ Return

Spec == Init /\ [][Next]_vars /\ WF_vars(WalkStep)

--------------------------------------------------------------------------------
TypeOK ==
  /\ target \in Nodes \cup {0} /\ holds \subseteq Nodes /\ late \in BOOLEAN
  /\ phase \in {"idle", "skeleton", "probe", "descend", "done"}
  /\ calls \in 0..MaxCalls /\ fetched \subseteq Nodes /\ failed \subseteq Nodes
  /\ turn \subseteq Tops /\ parked \subseteq Tops /\ progress \in BOOLEAN
  /\ trail \in Seq(Nodes) /\ best \in Seq(Nodes)
  /\ result.kind \in {"none", "throws", "confirmed", "nowhere", "broken", "time", "calls"}

(* Reference: a path of the document, each node in the one before it.        *)
Chain(path) == \A k \in DOMAIN path : Parent[path[k]] = IF k = 1 THEN 0 ELSE path[k - 1]

(* Reference: the nodes a walk by containment can come to, given the nodes   *)
(* it could not fetch: the least set that has, of the nodes that hold the    *)
(* center, the top-level ones and those one or two levels below a member.    *)
Near(S) ==
  \A n \in holds :
    \/ n \in Tops
    \/ Parent[n] \in S \ failed
    \/ Parent[n] \in Nodes \ Tops /\ Parent[Parent[n]] \in S \ failed
    => n \in S
Reachable == {n \in Nodes : \A S \in SUBSET Nodes : Near(S) => n \in S}

(* What the result says is so.  A confirmed path is the target's chain of    *)
(* containers.  "The chain broke" is said only when every node that can be   *)
(* come to was fetched or could not be, however the branches were parked and *)
(* resumed, and none of them shows the target.  Any other path that is told  *)
(* is a chain of the document, and ends on the target's own screen if any    *)
(* node of that screen was entered.                                         *)
ResultIsTrue ==
  /\ result.kind = "confirmed" => target # 0 /\ Chain(Append(result.path, target))
  /\ result.kind = "broken" =>
       /\ Reachable \subseteq fetched \cup failed
       /\ \A n \in fetched : \A s \in Steps[n] : Last(s) # target
  /\ result.kind \in {"time", "calls", "broken"} =>
       result.path = best /\ (fetched \cap Affine # {} => OnScreen(best))
  /\ Chain(best)

(* A walk ends, however its branches are parked.                            *)
Resolves == phase # "idle" ~> phase = "done"
===============================================================================
