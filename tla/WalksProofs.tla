------------------------------- MODULE WalksProofs -------------------------------
(* What the answers of the walks may be trusted with.  resolveAncestry: for any   *)
(* document, boxes and sessions.  The relation of two variables: for any files,  *)
(* aliases and hiding.  The value of a bound variable: for any pins, modes and   *)
(* aliases.  get_design_context: for any subtrees, components, times and sizes.   *)
(* resolveAnchors: for any revisions of the file, edits, cuts and deadlines.     *)
EXTENDS NodeAncestry, ResolveAnchors, DesignContext, AliasRelation, ModeResolution,
        FunctionTheorems, FiniteSetTheorems, WellFoundedInduction, TLAPS

(* Paths that are kept are paths of the document.                           *)
PathOK(p) == p \in Seq(Nodes) /\ Chain(p)
(* No node that was fetched shows the target, and if one of the target's     *)
(* screen was, the best path ends there.                                    *)
SeenOK ==
  result.kind # "confirmed" =>
    /\ \A n \in fetched : \A s \in Steps[n] : Last(s) # target
    /\ fetched \cap Affine # {} => OnScreen(best)
(* Every branch that was probed is still to come, parked or dead.            *)
BranchesOK ==
  phase = "descend" =>
    /\ Tops \cap holds \subseteq fetched \cup failed /\ turn \subseteq fetched /\ parked \subseteq fetched
    /\ \A b \in Tops \cap fetched : b \in turn \cup parked \/ Dead(b)
    /\ ceiling # 0 => turn # {} /\ trail # <<>> /\ trail[1] = Branch /\ Last(trail) \in fetched
AncestryIInv ==
  /\ TypeOK /\ PathOK(best) /\ PathOK(trail)
  /\ phase \in {"idle", "skeleton", "probe"} => parked = {} /\ ceiling = 0
  /\ phase \in {"idle", "skeleton"} => fetched = {}
  /\ phase # "done" => result = Unanswered
  /\ SeenOK /\ BranchesOK /\ ResultIsTrue

--------------------------------------------------------------------------------
(* Every inhabited set of naturals has a least one.                          *)
LEMMA LeastNatural ==
  ASSUME NEW T \in SUBSET Nat, T # {}
  PROVE  \E n \in T : \A m \in T : n <= m
<1>1. PICK n \in T : \A m \in T : ~ (<<m, n>> \in OpToRel(<, Nat))
  BY NatLessThanWellFounded, WFMin
<1>2. ASSUME NEW m \in T PROVE n <= m
  <2>1. m \in Nat /\ n \in Nat /\ ~ (m < n)
    BY <1>1 DEF OpToRel
  <2>2. QED
    BY <2>1
<1>3. QED
  BY <1>2

(* What is said of the code's orders: each inhabited set has a first member.  *)
LEMMA LeastOf ==
  ASSUME NEW S, S # {}, NEW f \in [S -> Nat]
  PROVE  \E x \in S : \A y \in S : f[x] <= f[y]
<1>1. {f[x] : x \in S} \in SUBSET Nat /\ {f[x] : x \in S} # {}
  OBVIOUS
<1>2. PICK a \in {f[x] : x \in S} : \A b \in {f[x] : x \in S} : a <= b
  BY <1>1, LeastNatural
<1>3. QED
  BY <1>2

(* One step goes from a node to a child or, by way of a child, to a           *)
(* grandchild.                                                              *)
LEMMA StepShape ==
  ASSUME NEW n \in Nodes, NEW s \in Steps[n]
  PROVE  \/ Last(s) \in Nodes /\ Parent[Last(s)] = n /\ s = <<Last(s)>>
         \/ /\ Last(s) \in Nodes /\ Parent[Last(s)] \in Nodes /\ Parent[Parent[Last(s)]] = n
            /\ s = <<Parent[Last(s)], Last(s)>>
<1>1. CASE \E m \in Kids(n) : s = <<m>>
  BY <1>1 DEF Kids, Last
<1>2. CASE \E k \in Kids(n) : \E m \in Kids(k) : s = <<Parent[m], m>>
  BY <1>2 DEF Kids, Last
<1>3. QED
  BY <1>1, <1>2 DEF Steps

(* And each child and grandchild is the end of a step.                        *)
LEMMA StepsReach ==
  ASSUME NEW m \in Nodes, Parent[m] \in Nodes
  PROVE  /\ \E s \in Steps[Parent[m]] : Last(s) = m
         /\ Parent[Parent[m]] \in Nodes => \E s \in Steps[Parent[Parent[m]]] : Last(s) = m
<1>1. <<m>> \in Steps[Parent[m]] /\ Last(<<m>>) = m
  BY DEF Steps, Kids, Last
<1>2. ASSUME Parent[Parent[m]] \in Nodes
      PROVE  <<Parent[m], m>> \in Steps[Parent[Parent[m]]] /\ Last(<<Parent[m], m>>) = m
  BY <1>2 DEF Steps, Kids, Last
<1>3. QED
  BY <1>1, <1>2

(* A path of the document taken one step further is one.                      *)
LEMMA Extended ==
  ASSUME NEW p, PathOK(p), p # <<>>, NEW s \in Steps[Last(p)]
  PROVE  /\ PathOK(p \o s) /\ p \o s # <<>> /\ Last(p \o s) = Last(s) /\ (p \o s)[1] = p[1]
         /\ Append(p \o Front(s), Last(s)) = p \o s
<1>1. p \in Seq(Nodes) /\ Len(p) \in Nat \ {0} /\ Last(p) \in Nodes
  BY DEF PathOK, Last
<1>2. CASE Last(s) \in Nodes /\ Parent[Last(s)] = Last(p) /\ s = <<Last(s)>>
  <2> DEFINE m == Last(s)
  <2> HIDE DEF m
  <2>1. m \in Nodes /\ Parent[m] = p[Len(p)] /\ s = <<m>>
    BY <1>2 DEF m, Last
  <2>2. p \o s \in Seq(Nodes) /\ Len(p \o s) = Len(p) + 1 /\ (p \o s)[Len(p) + 1] = m
        /\ \A k \in 1..Len(p) : (p \o s)[k] = p[k]
    BY <1>1, <2>1
  <2>3. Chain(p \o s)
    BY <1>1, <2>1, <2>2 DEF Chain, PathOK
  <2>4. Append(p \o Front(s), m) = p \o s
    <3>1. Front(s) = <<>>
      BY <2>1 DEF Front
    <3>2. QED
      BY <3>1, <1>1, <2>1
  <2>5. QED
    BY <1>1, <2>2, <2>3, <2>4 DEF PathOK, Last, m
<1>3. CASE /\ Last(s) \in Nodes /\ Parent[Last(s)] \in Nodes /\ Parent[Parent[Last(s)]] = Last(p)
           /\ s = <<Parent[Last(s)], Last(s)>>
  <2> DEFINE m == Last(s)
             i == Parent[m]
  <2> HIDE DEF m, i
  <2>1. m \in Nodes /\ i \in Nodes /\ Parent[m] = i /\ Parent[i] = p[Len(p)] /\ s = <<i, m>>
    BY <1>3 DEF m, i, Last
  <2>2. p \o s \in Seq(Nodes) /\ Len(p \o s) = Len(p) + 2
        /\ (p \o s)[Len(p) + 1] = i /\ (p \o s)[Len(p) + 2] = m
        /\ \A k \in 1..Len(p) : (p \o s)[k] = p[k]
    BY <1>1, <2>1
  <2>3. Chain(p \o s)
    BY <1>1, <2>1, <2>2 DEF Chain, PathOK
  <2>4. Append(p \o Front(s), m) = p \o s
    <3>1. Front(s) = <<i>>
      <4>1. Front(s) = SubSeq(<<i, m>>, 1, 1)
        BY <2>1 DEF Front
      <4>2. SubSeq(<<i, m>>, 1, 1) \in Seq(Nodes) /\ Len(SubSeq(<<i, m>>, 1, 1)) = 1 /\ SubSeq(<<i, m>>, 1, 1)[1] = i
        BY <2>1
      <4>3. \A q \in Seq(Nodes) : Len(q) = 1 /\ q[1] = i => q = <<i>>
        BY <2>1
      <4>4. QED
        BY <4>1, <4>2, <4>3
    <3>2. Append(p \o <<i>>, m) = p \o <<i, m>>
      BY <1>1, <2>1
    <3>3. QED
      BY <3>1, <3>2, <2>1
  <2>5. QED
    BY <1>1, <2>2, <2>3, <2>4 DEF PathOK, Last, m
<1>4. QED
  BY <1>1, <1>2, <1>3, StepShape

(* The child on the way to a grandchild ends a path too.                     *)
LEMMA OneMore ==
  ASSUME NEW p, PathOK(p), p # <<>>, NEW m \in Nodes, Parent[m] = Last(p)
  PROVE  PathOK(Append(p, m))
<1>1. p \in Seq(Nodes) /\ Len(p) \in Nat \ {0}
  BY DEF PathOK
<1>2. Append(p, m) \in Seq(Nodes) /\ Len(Append(p, m)) = Len(p) + 1 /\ Append(p, m)[Len(p) + 1] = m
      /\ \A k \in 1..Len(p) : Append(p, m)[k] = p[k]
  BY <1>1
<1>3. QED
  BY <1>1, <1>2 DEF PathOK, Chain, Last

(* A path begins at a top-level node.                                        *)
LEMMA TopIsPath ==
  ASSUME NEW b \in Tops
  PROVE  PathOK(<<b>>) /\ <<b>> # <<>> /\ Last(<<b>>) = b /\ b \in Nodes /\ <<b>>[1] = b
  BY DEF Tops, Kids, PathOK, Chain, Last

--------------------------------------------------------------------------------
(* byAreaAscending has a first one to give.                                 *)
LEMMA FirstIsOne ==
  ASSUME NEW S \in SUBSET Nodes, S # {}, NEW key \in [Nodes -> Nat]
  PROVE  First(S, key) \in S
<1>1. PICK a \in S : \A m \in S : key[a] <= key[m]
  <2>1. [x \in S |-> key[x]] \in [S -> Nat]
    OBVIOUS
  <2>2. QED
    BY <2>1, LeastOf
<1> DEFINE S1 == {n \in S : key[n] = key[a]}
<1>2. PICK b \in S1 : \A m \in S1 : Area[b] <= Area[m]
  <2>1. [x \in S1 |-> Area[x]] \in [S1 -> Nat] /\ S1 # {}
    BY NodeAncestryAssumption
  <2> HIDE DEF S1
  <2>2. QED
    BY <2>1, LeastOf
<1> DEFINE S2 == {n \in S1 : Area[n] = Area[b]}
<1>3. PICK c \in S2 : \A m \in S2 : c <= m
  <2>1. S2 \in SUBSET Nat /\ S2 # {}
    BY NodeAncestryAssumption
  <2> HIDE DEF S2
  <2>2. QED
    BY <2>1, LeastNatural
<1>4. \A m \in S :
        \/ key[c] < key[m]
        \/ key[c] = key[m] /\ Area[c] < Area[m]
        \/ key[c] = key[m] /\ Area[c] = Area[m] /\ c <= m
  <2> TAKE m \in S
  <2>1. key[m] \in Nat /\ key[c] \in Nat /\ Area[m] \in Nat /\ Area[c] \in Nat
    BY NodeAncestryAssumption
  <2>2. key[c] <= key[m] /\ (m \in S1 => Area[c] <= Area[m]) /\ (m \in S2 => c <= m)
    BY <1>1, <1>2, <1>3
  <2>3. key[c] = key[m] => m \in S1
    OBVIOUS
  <2>4. m \in S1 /\ Area[c] = Area[m] => m \in S2
    OBVIOUS
  <2> HIDE DEF S1, S2
  <2>5. QED
    BY <2>1, <2>2, <2>3, <2>4
<1>5. c \in S
  OBVIOUS
<1> HIDE DEF S1, S2
<1>6. QED
  BY <1>4, <1>5 DEF First

(* convergenceKey is an area.                                                *)
LEMMA TightestIsNatural == holds \subseteq Nodes => Tightest \in [Nodes -> Nat]
<1> SUFFICES ASSUME NEW n \in Nodes
             PROVE  (CHOOSE a \in {Area[m] : m \in {n} \cup {Last(s) : s \in Candidates(n)}} :
                       \A b \in {Area[m] : m \in {n} \cup {Last(s) : s \in Candidates(n)}} : a <= b) \in Nat
  BY DEF Tightest
<1> DEFINE areas == {Area[m] : m \in {n} \cup {Last(s) : s \in Candidates(n)}}
<1>1. \A s \in Candidates(n) : Last(s) \in Nodes
  BY StepShape DEF Candidates
<1>2. areas \in SUBSET Nat /\ areas # {}
  BY <1>1, NodeAncestryAssumption
<1> HIDE DEF areas
<1>3. \E a \in areas : \A b \in areas : a <= b
  BY <1>2, LeastNatural
<1>4. (CHOOSE a \in areas : \A b \in areas : a <= b) \in areas
  BY <1>3
<1>5. QED
  BY <1>2, <1>4 DEF areas

(* A round under way has a branch whose turn it is.                          *)
LEMMA BranchIsOne == TypeOK /\ turn # {} => Branch \in turn
<1>1. TypeOK => turn \in SUBSET Nodes
  BY DEF TypeOK, Tops, Kids
<1>2. QED
  BY <1>1, FirstIsOne, TightestIsNatural DEF Branch, TypeOK

(* The candidates have a first one too.                                       *)
LEMMA LeadIsOne ==
  ASSUME trail \in Seq(Nodes), trail # <<>>, Live # {}
  PROVE  Lead \in Live /\ Lead \in Steps[Last(trail)] /\ Last(Lead) \in Nodes
         /\ Last(Lead) \in holds /\ Last(Lead) \notin failed
<1>0. Last(trail) \in Nodes
  BY DEF Last
<1>1. \A s \in Live : s \in Steps[Last(trail)] /\ Last(s) \in Nodes /\ Len(s) \in {1, 2}
                      /\ Last(s) \in holds /\ Last(s) \notin failed
  <2> TAKE s \in Live
  <2>1. s \in Steps[Last(trail)] /\ Last(s) \in holds /\ Last(s) \notin failed
    BY DEF Live, Candidates
  <2>2. Last(s) \in Nodes /\ Len(s) \in {1, 2}
    BY <1>0, <2>1, StepShape
  <2>3. QED
    BY <2>1, <2>2
<1>2. PICK x \in Live : \A s \in Live : Len(s) <= Len(x)
  <2>1. CASE \E s \in Live : Len(s) = 2
    <3>1. PICK x \in Live : Len(x) = 2
      BY <2>1
    <3>2. \A s \in Live : Len(s) <= 2
      <4> TAKE s \in Live
      <4>1. Len(s) \in {1, 2}
        BY <1>1
      <4>2. \A k \in {1, 2} : k <= 2
        OBVIOUS
      <4> QED  BY <4>1, <4>2
    <3>3. QED
      BY <3>1, <3>2
  <2>2. CASE ~ \E s \in Live : Len(s) = 2
    <3>1. \A s \in Live : Len(s) = 1
      BY <2>2, <1>1
    <3>2. 1 <= 1
      OBVIOUS
    <3>3. QED
      BY <3>1, <3>2
  <2>3. QED
    BY <2>1, <2>2
<1> DEFINE S1 == {s \in Live : Len(s) = Len(x)}
<1>3. PICK y \in S1 : \A s \in S1 : Area[Last(y)] <= Area[Last(s)]
  <2> DEFINE g == [s \in S1 |-> Area[Last(s)]]
  <2>1. g \in [S1 -> Nat] /\ S1 # {} /\ \A s \in S1 : g[s] = Area[Last(s)]
    BY <1>1, NodeAncestryAssumption
  <2> HIDE DEF S1, g
  <2>2. \E a \in S1 : \A b \in S1 : g[a] <= g[b]
    BY <2>1, LeastOf
  <2>3. QED
    BY <2>1, <2>2
<1> DEFINE S2 == {s \in S1 : Area[Last(s)] = Area[Last(y)]}
<1>4. PICK z \in S2 : \A s \in S2 : Last(z) <= Last(s)
  <2> DEFINE g == [s \in S2 |-> Last(s)]
  <2>1. g \in [S2 -> Nat] /\ S2 # {} /\ \A s \in S2 : g[s] = Last(s)
    BY <1>1, NodeAncestryAssumption
  <2> HIDE DEF S2, g
  <2>2. \E a \in S2 : \A b \in S2 : g[a] <= g[b]
    BY <2>1, LeastOf
  <2>3. QED
    BY <2>1, <2>2
<1>5. \A s \in Live : Before(z, s)
  <2> TAKE s \in Live
  <2>1. Len(s) \in Nat /\ Len(z) \in Nat /\ Area[Last(s)] \in Nat /\ Area[Last(z)] \in Nat
    <3>1. z \in Live
      OBVIOUS
    <3> HIDE DEF S1, S2
    <3>2. Len(s) \in {1, 2} /\ Len(z) \in {1, 2} /\ Last(s) \in Nodes /\ Last(z) \in Nodes
      BY <1>1, <3>1
    <3>3. QED
      BY <3>2, NodeAncestryAssumption
  <2>2. Len(s) <= Len(z) /\ (s \in S1 => Area[Last(z)] <= Area[Last(s)]) /\ (s \in S2 => Last(z) <= Last(s))
    BY <1>2, <1>3, <1>4
  <2>3. Len(s) = Len(z) => s \in S1
    OBVIOUS
  <2>4. s \in S1 /\ Area[Last(s)] = Area[Last(z)] => s \in S2
    OBVIOUS
  <2> HIDE DEF S1, S2
  <2>5. QED
    BY <2>1, <2>2, <2>3, <2>4 DEF Before
<1>6. z \in Live
  OBVIOUS
<1> HIDE DEF S1, S2
<1>7. Lead \in Live
  BY <1>5, <1>6 DEF Lead
<1>8. QED
  BY <1>1, <1>7

--------------------------------------------------------------------------------
(* recordPath keeps a path it was given, and never leaves the target's screen. *)
LEMMA RecordsPath ==
  ASSUME NEW was, PathOK(was), NEW path, PathOK(path)
  PROVE  PathOK(Recorded(was, path))
         /\ (OnScreen(was) \/ OnScreen(path) => OnScreen(Recorded(was, path)))
<1>1. Recorded(was, path) \in {was, path}
  BY DEF Recorded
<1>2. OnScreen(was) \in BOOLEAN /\ OnScreen(path) \in BOOLEAN
  BY DEF OnScreen
<1>3. OnScreen(was) \/ OnScreen(path) => OnScreen(Recorded(was, path))
  BY <1>2 DEF Recorded, Better
<1>4. QED
  BY <1>1, <1>3

(* Entering a node keeps both.                                               *)
LEMMA WalkRecordsPath ==
  ASSUME NEW was, PathOK(was), NEW path, PathOK(path), path # <<>>
  PROVE  PathOK(Walked(was, path))
         /\ (OnScreen(was) \/ OnScreen(path) => OnScreen(Walked(was, path)))
<1> DEFINE here == Recorded(was, path)
           mids == {Parent[Last(s)] : s \in {s \in Candidates(Last(path)) : Len(s) = 2}}
           pick == IF mids \cap Affine # {} THEN mids \cap Affine ELSE mids
           mid  == CHOOSE m \in pick : \A k \in pick : m <= k
<1>0. Last(path) \in Nodes
  BY DEF PathOK, Last
<1>1. \A m \in mids : m \in Nodes /\ Parent[m] = Last(path)
  <2> SUFFICES ASSUME NEW s \in Candidates(Last(path)), Len(s) = 2
               PROVE  Parent[Last(s)] \in Nodes /\ Parent[Parent[Last(s)]] = Last(path)
    OBVIOUS
  <2>1. s \in Steps[Last(path)]
    BY DEF Candidates
  <2>2. s # <<Last(s)>>
    OBVIOUS
  <2>3. QED
    BY <1>0, <2>1, <2>2, StepShape
<1>2. PathOK(here) /\ (OnScreen(was) \/ OnScreen(path) => OnScreen(here))
  BY RecordsPath
<1>3. Walked(was, path) = IF mids = {} THEN here ELSE Recorded(here, Append(path, mid))
  BY DEF Walked
<1>4. mids # {} => pick # {} /\ pick \subseteq mids
  OBVIOUS
<1> HIDE DEF mids, here
<1>5. CASE mids = {}
  BY <1>2, <1>3, <1>5
<1>6. CASE mids # {}
  <2>1. pick \in SUBSET Nat /\ pick # {}
    BY <1>1, <1>4, <1>6, NodeAncestryAssumption
  <2>2. pick \subseteq mids
    BY <1>4, <1>6
  <2> HIDE DEF pick
  <2>3. \E m \in pick : \A k \in pick : m <= k
    BY <2>1, LeastNatural
  <2>4. mid \in pick
    BY <2>3
  <2> HIDE DEF mid
  <2>5. PathOK(Append(path, mid))
    BY <1>1, <2>2, <2>4, OneMore
  <2>6. QED
    BY <1>2, <1>3, <1>6, <2>5, RecordsPath
<1>7. QED
  BY <1>5, <1>6

--------------------------------------------------------------------------------
(* All the dead parts together are exhausted.                               *)
LEMMA TheDeadAreExhausted == Exhausted({n \in fetched : Dead(n)})
<1> DEFINE D == {n \in fetched : Dead(n)}
<1> SUFFICES ASSUME NEW n \in D, NEW s \in Candidates(n) PROVE Last(s) \in D \cup failed
  BY DEF Exhausted
<1>1. PICK S \in SUBSET fetched : n \in S /\ Exhausted(S)
  BY DEF Dead
<1>2. S \subseteq D
  BY <1>1 DEF Dead
<1>3. QED
  BY <1>1, <1>2 DEF Exhausted

(* A node without a live candidate is dead.                                  *)
LEMMA NoLeadIsDead ==
  ASSUME NEW b \in fetched, Last(trail) = b, Live = {}
  PROVE  Dead(b)
<1> DEFINE D == {n \in fetched : Dead(n)}
<1>1. Exhausted(D)
  BY TheDeadAreExhausted
<1>2. \A s \in Candidates(b) : Last(s) \in D \cup failed
  BY DEF Live
<1> HIDE DEF D
<1>3. Exhausted(D \cup {b})
  BY <1>1, <1>2 DEF Exhausted
<1>4. D \cup {b} \in SUBSET fetched
  BY DEF D
<1>5. QED
  BY <1>3, <1>4 DEF Dead

(* What is dead stays dead.                                                 *)
LEMMA DeadStays ==
  ASSUME holds' = holds, fetched \subseteq fetched', failed \subseteq failed', NEW n, Dead(n)
  PROVE  Dead(n)'
<1>1. PICK S \in SUBSET fetched : n \in S /\ Exhausted(S)
  BY DEF Dead
<1>2. Exhausted(S)'
  BY <1>1 DEF Exhausted, Candidates
<1>3. QED
  BY <1>1, <1>2 DEF Dead

(* Once every branch is dead nothing that can be come to is left.             *)
LEMMA AllDeadIsAll ==
  ASSUME TypeOK, Tops \cap holds \subseteq fetched \cup failed, \A b \in Tops \cap fetched : Dead(b)
  PROVE  Reachable \subseteq fetched \cup failed
<1> DEFINE D == {n \in fetched : Dead(n)}
<1>1. Exhausted(D)
  BY TheDeadAreExhausted
<1>2. D \subseteq Nodes /\ D \subseteq fetched /\ failed \subseteq Nodes
  BY DEF TypeOK
<1>3. Near(D \cup failed)
  <2> SUFFICES ASSUME NEW n \in holds,
                      \/ n \in Tops
                      \/ Parent[n] \in (D \cup failed) \ failed
                      \/ Parent[n] \in Nodes \ Tops /\ Parent[Parent[n]] \in (D \cup failed) \ failed
               PROVE  n \in D \cup failed
    BY DEF Near
  <2>0. n \in Nodes
    BY DEF TypeOK
  <2>1. CASE n \in Tops
    BY <2>1
  <2> HIDE DEF D
  <2>2. CASE Parent[n] \in D
    <3>1. PICK s \in Steps[Parent[n]] : Last(s) = n
      BY <1>2, <2>0, <2>2, StepsReach
    <3>2. QED
      BY <1>1, <2>2, <3>1 DEF Exhausted, Candidates
  <2>3. CASE Parent[n] \in Nodes \ Tops /\ Parent[Parent[n]] \in D
    <3>1. PICK s \in Steps[Parent[Parent[n]]] : Last(s) = n
      BY <1>2, <2>0, <2>3, StepsReach
    <3>2. QED
      BY <1>1, <2>3, <3>1 DEF Exhausted, Candidates
  <2>4. QED
    BY <2>1, <2>2, <2>3
<1> HIDE DEF D
<1>4. QED
  BY <1>2, <1>3 DEF Reachable

--------------------------------------------------------------------------------
(* What a step leaves in place: everything but the branches' own bookkeeping.  *)
Steady ==
  /\ target' \in Nodes \cup {0} /\ holds' \subseteq Nodes /\ late' \in BOOLEAN
  /\ phase' \in {"idle", "skeleton", "probe", "descend", "done"}
  /\ calls' \in 0..MaxCalls /\ fetched' \subseteq Nodes /\ failed' \subseteq Nodes
  /\ result'.kind \in {"none", "throws", "confirmed", "nowhere", "broken", "time", "calls"}
  /\ PathOK(best') /\ (phase' # "done" => result' = Unanswered)
  /\ SeenOK' /\ ResultIsTrue'

(* With the bookkeeping in order that is all.                                *)
LEMMA SteadyIs ==
  ASSUME Steady, turn' \subseteq Tops, parked' \subseteq Tops, progress' \in BOOLEAN, PathOK(trail'), BranchesOK',
         phase' \in {"idle", "skeleton", "probe"} => parked' = {} /\ ceiling' = 0,
         phase' \in {"idle", "skeleton"} => fetched' = {}
  PROVE  AncestryIInv'
<1>1. TypeOK'
  BY DEF Steady, TypeOK, PathOK, Tops, Kids
<1>2. QED
  BY <1>1 DEF Steady, AncestryIInv

(* A stop says what is known: the best path so far.                           *)
LEMMA StopsKeep ==
  ASSUME AncestryIInv, phase \notin {"idle", "done"}, StopReason # "go", Finish(StopReason, best),
         UNCHANGED <<file, late, calls, fetched, failed, best>>
  PROVE  Steady
<1>1. result'.kind \in {"time", "calls"} /\ result'.path = best /\ phase' = "done"
  BY DEF StopReason, Finish
<1>2. result.kind = "none" /\ TypeOK /\ SeenOK /\ PathOK(best)
  BY DEF AncestryIInv, Unanswered
<1>3. SeenOK'
  BY <1>1, <1>2 DEF SeenOK, file, OnScreen
<1>4. ResultIsTrue'
  BY <1>1, <1>2 DEF SeenOK, ResultIsTrue, PathOK, file, OnScreen
<1>5. QED
  BY <1>1, <1>2, <1>3, <1>4 DEF Steady, TypeOK, file

(* A call that is allowed stays under the cap.                               *)
LEMMA OneMoreCall ==
  ASSUME TypeOK, StopReason = "go", calls' = calls + 1, late' \in {late, TRUE}
  PROVE  calls' \in 0..MaxCalls /\ late' \in BOOLEAN
<1>1. ~(calls >= MaxCalls) /\ calls \in 0..MaxCalls /\ late \in BOOLEAN
  BY DEF StopReason, TypeOK
<1>2. MaxCalls \in Nat /\ calls \in Nat
  BY <1>1, NodeAncestryAssumption
<1>3. late' \in BOOLEAN
  BY <1>1
<1>4. calls' \in 0..MaxCalls
  BY <1>1, <1>2
<1>5. QED
  BY <1>3, <1>4

(* One fetch: the target is shown and told with its chain, or the node is one   *)
(* more of which the opposite is known.                                      *)
LEMMA FetchKeeps ==
  ASSUME AncestryIInv, phase \in {"probe", "descend"}, UNCHANGED file, StopReason = "go",
         NEW path, PathOK(path), path # <<>>, Fetch(Last(path), path)
  PROVE  /\ Steady /\ phase' \in {phase, "done"} /\ fetched \subseteq fetched' /\ failed \subseteq failed'
         /\ phase' # "done" => Last(path) \in fetched' \cup failed' /\ fetched' \subseteq fetched \cup {Last(path)}
<1> DEFINE n == Last(path)
<1>0. n \in Nodes /\ path \in Seq(Nodes)
  BY DEF PathOK, Last
<1>1. TypeOK /\ SeenOK /\ PathOK(best) /\ result = Unanswered /\ result.kind = "none"
  BY DEF AncestryIInv, Unanswered
<1>2. calls' = calls + 1 /\ late' \in {late, TRUE}
  BY DEF Fetch
<1>3. calls' \in 0..MaxCalls /\ late' \in BOOLEAN
  BY <1>1, <1>2, OneMoreCall
<1> HIDE DEF n
<1>4. CASE /\ fetched' = fetched \cup {n} /\ UNCHANGED <<failed, best>>
           /\ \E s \in Steps[n] : Last(s) = target /\ Finish("confirmed", path \o Front(s))
  <2>1. PICK s \in Steps[n] : Last(s) = target /\ Finish("confirmed", path \o Front(s))
    BY <1>4
  <2>2. target \in Nodes
    BY <1>0, <2>1, StepShape
  <2>3. PathOK(Append(path \o Front(s), target))
    BY <2>1, Extended DEF n
  <2>4. result'.kind = "confirmed" /\ Chain(Append(result'.path, target)) /\ phase' = "done"
    BY <2>1, <2>3 DEF Finish, PathOK
  <2>5. ResultIsTrue' /\ SeenOK'
    BY <1>1, <1>4, <2>2, <2>4, NodeAncestryAssumption DEF ResultIsTrue, SeenOK, PathOK, file
  <2>6. QED
    BY <1>0, <1>1, <1>3, <1>4, <2>4, <2>5 DEF Steady, TypeOK, file
<1>5. CASE /\ fetched' = fetched \cup {n} /\ UNCHANGED <<failed, phase, result>>
           /\ \A s \in Steps[n] : Last(s) # target
           /\ best' = IF phase = "probe" THEN Recorded(best, path) ELSE Walked(best, path)
  <2>1. PathOK(best') /\ (OnScreen(best) \/ OnScreen(path) => OnScreen(best'))
    BY <1>1, <1>5, RecordsPath, WalkRecordsPath
  <2>2. n \in Affine => OnScreen(path)
    BY DEF OnScreen, n
  <2>3. SeenOK'
    BY <1>1, <1>5, <2>1, <2>2 DEF SeenOK, OnScreen, file
  <2>4. ResultIsTrue'
    BY <1>1, <1>5, <2>1 DEF ResultIsTrue, PathOK
  <2>5. QED
    BY <1>0, <1>1, <1>3, <1>5, <2>1, <2>3, <2>4 DEF Steady, TypeOK, file, n
<1>6. CASE failed' = failed \cup {n} /\ UNCHANGED <<fetched, phase, best, result>>
  <2>1. SeenOK' /\ ResultIsTrue'
    BY <1>1, <1>6 DEF SeenOK, ResultIsTrue, OnScreen, PathOK, file
  <2>2. QED
    BY <1>0, <1>1, <1>3, <1>6, <2>1 DEF Steady, TypeOK, file, n
<1>7. CASE Finish("throws", <<>>) /\ UNCHANGED <<fetched, failed, best>>
  <2>1. result'.kind = "throws" /\ phase' = "done"
    BY <1>7 DEF Finish
  <2>2. SeenOK' /\ ResultIsTrue'
    BY <1>1, <1>7, <2>1 DEF SeenOK, ResultIsTrue, OnScreen, PathOK, file
  <2>3. QED
    BY <1>1, <1>3, <1>7, <2>1, <2>2 DEF Steady, TypeOK, file
<1>8. QED
  BY <1>4, <1>5, <1>6, <1>7 DEF Fetch, n

--------------------------------------------------------------------------------
(* One lemma an action from here on.                                         *)
LEMMA IdentifyKeeps == AncestryIInv /\ Identify => AncestryIInv'
<1> SUFFICES ASSUME AncestryIInv, Identify PROVE AncestryIInv'
  OBVIOUS
<1>1. TypeOK /\ SeenOK /\ PathOK(best) /\ PathOK(trail) /\ result = Unanswered /\ fetched = {} /\ parked = {} /\ ceiling = 0
  BY DEF AncestryIInv, Identify
<1>2. calls' \in 0..MaxCalls /\ late' \in BOOLEAN
  BY NodeAncestryAssumption DEF Identify
<1>3. \/ phase' = "skeleton" /\ result' = result
      \/ phase' = "done" /\ result'.kind = "throws"
  BY DEF Identify, Finish
<1>4. SeenOK' /\ ResultIsTrue'
  BY <1>1, <1>3 DEF Identify, SeenOK, ResultIsTrue, OnScreen, PathOK, Unanswered, file
<1>5. Steady
  BY <1>1, <1>2, <1>3, <1>4 DEF Steady, TypeOK, Identify, file, Unanswered
<1>6. BranchesOK'
  BY <1>3 DEF BranchesOK
<1>7. QED
  BY <1>1, <1>3, <1>5, <1>6, SteadyIs DEF Identify, search, TypeOK

LEMMA SkeletonKeeps == AncestryIInv /\ Skeleton => AncestryIInv'
<1> SUFFICES ASSUME AncestryIInv, Skeleton PROVE AncestryIInv'
  OBVIOUS
<1>1. TypeOK /\ SeenOK /\ PathOK(best) /\ PathOK(trail) /\ result = Unanswered /\ fetched = {} /\ parked = {} /\ ceiling = 0
      /\ phase = "skeleton"
  BY DEF AncestryIInv, Skeleton
<1>2. CASE StopReason # "go" /\ Finish(StopReason, best) /\ UNCHANGED <<late, calls>>
  <2>1. Steady
    BY <1>1, <1>2, StopsKeep DEF Skeleton
  <2>2. phase' = "done"
    BY <1>2 DEF Finish
  <2>3. BranchesOK'
    BY <2>2 DEF BranchesOK
  <2>4. QED
    BY <1>1, <2>1, <2>2, <2>3, SteadyIs DEF Skeleton, search, TypeOK
<1>3. CASE StopReason = "go" /\ calls' = calls + 1 /\ late' \in {late, TRUE}
  <2>1. calls' \in 0..MaxCalls /\ late' \in BOOLEAN
    BY <1>1, <1>3, OneMoreCall
  <2>2. \/ phase' = "done" /\ result'.kind \in {"throws", "nowhere"}
        \/ phase' = "done" /\ result'.kind = "confirmed" /\ result'.path = <<>> /\ target \in Tops
        \/ phase' = "probe" /\ result' = result
    BY <1>3 DEF Skeleton, Finish
  <2>3. target \in Tops => target # 0 /\ Chain(Append(<<>>, target))
    BY NodeAncestryAssumption DEF Tops, Kids, Chain
  <2>4. UNCHANGED <<target, holds, fetched, failed, best, turn, parked, ceiling, progress, trail>>
    BY DEF Skeleton, file, search
  <2>5. SeenOK' /\ ResultIsTrue'
    <3>1. SeenOK'
      BY <1>1, <2>2, <2>4 DEF SeenOK, OnScreen
    <3>0. Chain(best)' /\ target' = target
      BY <1>1, <2>4 DEF PathOK
    <3>2. CASE result'.kind \in {"throws", "nowhere", "none"}
      BY <3>0, <3>1, <3>2 DEF ResultIsTrue
    <3>3. CASE result'.kind = "confirmed" /\ result'.path = <<>> /\ target \in Tops
      <4>1. target' # 0 /\ Chain(Append(result'.path, target'))
        BY <2>3, <3>0, <3>3
      <4>2. QED
        BY <3>0, <3>1, <3>3, <4>1 DEF ResultIsTrue
    <3>4. QED
      BY <1>1, <2>2, <3>1, <3>2, <3>3 DEF Unanswered
  <2>6. Steady
    BY <1>1, <2>1, <2>2, <2>4, <2>5 DEF Steady, TypeOK, Unanswered
  <2>7. BranchesOK'
    BY <2>2 DEF BranchesOK
  <2>8. QED
    BY <1>1, <2>2, <2>4, <2>6, <2>7, SteadyIs DEF TypeOK
<1>4. QED
  BY <1>2, <1>3 DEF Skeleton

LEMMA ProbeKeeps == AncestryIInv /\ Probe => AncestryIInv'
<1> SUFFICES ASSUME AncestryIInv, Probe PROVE AncestryIInv'
  OBVIOUS
<1> DEFINE n == First(Unprobed, Area)
<1>1. TypeOK /\ PathOK(trail) /\ parked = {} /\ ceiling = 0 /\ phase = "probe"
      /\ UNCHANGED <<target, holds, turn, parked, ceiling, progress, trail>>
  BY DEF AncestryIInv, Probe, file, search
<1>2. n \in Tops
  <2>1. Unprobed \in SUBSET Nodes /\ Unprobed # {}
    BY DEF Probe, Unprobed, Tops, Kids
  <2>2. n \in Unprobed
    BY <2>1, FirstIsOne, NodeAncestryAssumption
  <2>3. QED
    BY <2>2 DEF Unprobed
<1>3. Steady /\ phase' \in {"probe", "done"}
  <2>1. CASE StopReason = "go"
    <3>1. PathOK(<<n>>) /\ <<n>> # <<>> /\ Last(<<n>>) = n
      BY <1>2, TopIsPath
    <3>2. Fetch(Last(<<n>>), <<n>>)
      BY <2>1, <3>1 DEF Probe
    <3> HIDE DEF n
    <3>3. QED
      BY <1>1, <2>1, <3>1, <3>2, FetchKeeps DEF file
  <2>2. CASE StopReason # "go"
    <3>1. Finish(StopReason, best) /\ UNCHANGED <<late, calls, fetched, failed, best>>
      BY <2>2 DEF Probe
    <3>2. QED
      BY <1>1, <2>2, <3>1, StopsKeep DEF file, Finish
  <2>3. QED
    BY <2>1, <2>2
<1>4. BranchesOK'
  BY <1>3 DEF BranchesOK
<1>5. QED
  BY <1>1, <1>3, <1>4, SteadyIs DEF TypeOK

(* A step that fetches nothing and answers nothing.                          *)
LEMMA QuietIsSteady ==
  ASSUME AncestryIInv, UNCHANGED <<file, late, calls, fetched, failed, result>>, phase \in {"probe", "descend"},
         phase' = "descend", PathOK(best'), OnScreen(best) => OnScreen(best')
  PROVE  Steady
<1>1. TypeOK /\ SeenOK /\ result = Unanswered /\ result.kind = "none"
  BY DEF AncestryIInv, Unanswered
<1>2. SeenOK' /\ ResultIsTrue'
  BY <1>1 DEF SeenOK, ResultIsTrue, PathOK, file, OnScreen
<1>3. QED
  BY <1>1, <1>2 DEF Steady, TypeOK, file

(* Branches that are left to go, parked or dead stay so while others are        *)
(* walked.                                                                  *)
LEMMA BranchesStay ==
  ASSUME AncestryIInv, phase = "descend", holds' = holds, fetched \subseteq fetched', failed \subseteq failed',
         NEW b \in Tops \cap fetched, b \notin turn \cup parked
  PROVE  Dead(b)'
<1>1. Dead(b)
  BY DEF AncestryIInv, BranchesOK
<1>2. QED
  BY <1>1, DeadStays

LEMMA ProbedKeeps == AncestryIInv /\ Probed => AncestryIInv'
<1> SUFFICES ASSUME AncestryIInv, Probed PROVE AncestryIInv'
  OBVIOUS
<1>1. TypeOK /\ PathOK(trail) /\ PathOK(best) /\ parked = {} /\ ceiling = 0 /\ phase = "probe" /\ phase' = "descend"
      /\ turn' = Tops \cap fetched /\ Tops \cap holds \subseteq fetched \cup failed
      /\ UNCHANGED <<target, holds, late, calls, fetched, failed, parked, ceiling, progress, trail, best, result>>
  BY DEF AncestryIInv, Probed, file, Unprobed
<1>2. Steady
  BY <1>1, QuietIsSteady DEF file
<1>3. BranchesOK'
  BY <1>1 DEF BranchesOK
<1>4. QED
  BY <1>1, <1>2, <1>3, SteadyIs DEF TypeOK

LEMMA BeginTurnKeeps == AncestryIInv /\ BeginTurn => AncestryIInv'
<1> SUFFICES ASSUME AncestryIInv, BeginTurn PROVE AncestryIInv'
  OBVIOUS
<1>1. TypeOK /\ BranchesOK /\ PathOK(best) /\ phase = "descend" /\ turn # {} /\ trail' = <<Branch>>
      /\ best' = Walked(best, <<Branch>>)
      /\ UNCHANGED <<target, holds, late, phase, calls, fetched, failed, turn, parked, progress, result>>
  BY DEF AncestryIInv, BeginTurn, file
<1>2. Branch \in turn /\ Branch \in Tops /\ Branch \in fetched /\ Branch' = Branch
  <2>1. Branch \in turn
    BY <1>1, BranchIsOne
  <2>2. Branch' = Branch
    BY <1>1 DEF Branch, Tightest, Candidates
  <2>3. QED
    BY <1>1, <2>1, <2>2 DEF TypeOK, BranchesOK
<1>3. PathOK(trail') /\ trail' # <<>> /\ Last(trail') = Branch /\ trail'[1] = Branch
  BY <1>1, <1>2, TopIsPath
<1>4. PathOK(best') /\ (OnScreen(best) => OnScreen(best'))
  BY <1>1, <1>3, WalkRecordsPath
<1>5. Steady
  BY <1>1, <1>4, QuietIsSteady DEF file
<1>6. ASSUME NEW b \in Tops \cap fetched, b \notin turn \cup parked PROVE Dead(b)'
  BY <1>1, <1>6, BranchesStay
<1>7. BranchesOK'
  BY <1>1, <1>2, <1>3, <1>6 DEF BranchesOK
<1>8. QED
  BY <1>1, <1>3, <1>5, <1>7, SteadyIs DEF TypeOK

(* A branch under way: its trail, and where the trail may go on.               *)
LEMMA UnderWay ==
  ASSUME AncestryIInv, phase = "descend", ceiling # 0
  PROVE  /\ PathOK(trail) /\ trail # <<>> /\ trail[1] = Branch /\ Last(trail) \in fetched
         /\ Branch \in turn /\ Branch \in Tops /\ Branch \in fetched
         /\ Live # {} => /\ PathOK(trail \o Lead) /\ trail \o Lead # <<>> /\ Last(trail \o Lead) = Last(Lead)
                         /\ (trail \o Lead)[1] = Branch
<1>1. TypeOK /\ PathOK(trail) /\ trail # <<>> /\ trail[1] = Branch /\ Last(trail) \in fetched /\ turn # {} /\ turn \subseteq fetched
  BY DEF AncestryIInv, BranchesOK
<1>2. Branch \in turn /\ Branch \in Tops /\ Branch \in fetched
  BY <1>1, BranchIsOne DEF TypeOK
<1>3. ASSUME Live # {}
      PROVE  /\ PathOK(trail \o Lead) /\ trail \o Lead # <<>> /\ Last(trail \o Lead) = Last(Lead)
             /\ (trail \o Lead)[1] = Branch
  <2>1. Lead \in Steps[Last(trail)]
    BY <1>1, <1>3, LeadIsOne DEF PathOK
  <2>2. QED
    BY <1>1, <2>1, Extended
<1>4. QED
  BY <1>1, <1>2, <1>3

LEMMA ForwardKeeps == AncestryIInv /\ Forward => AncestryIInv'
<1> SUFFICES ASSUME AncestryIInv, Forward PROVE AncestryIInv'
  OBVIOUS
<1>1. TypeOK /\ BranchesOK /\ PathOK(best) /\ phase = "descend" /\ ceiling # 0 /\ Live # {} /\ Last(Lead) \in fetched
      /\ trail' = trail \o Lead /\ best' = Walked(best, trail \o Lead)
      /\ UNCHANGED <<target, holds, late, phase, calls, fetched, failed, turn, parked, ceiling, progress, result>>
  BY DEF AncestryIInv, Forward, file
<1>2. PathOK(trail') /\ trail' # <<>> /\ Last(trail') = Last(Lead) /\ trail'[1] = Branch
  BY <1>1, UnderWay
<1>3. PathOK(best') /\ (OnScreen(best) => OnScreen(best'))
  BY <1>1, <1>2, WalkRecordsPath
<1>4. Steady
  BY <1>1, <1>3, QuietIsSteady DEF file
<1>5. Branch' = Branch
  BY <1>1 DEF Branch, Tightest, Candidates
<1>6. ASSUME NEW b \in Tops \cap fetched, b \notin turn \cup parked PROVE Dead(b)'
  BY <1>1, <1>6, BranchesStay
<1>7. BranchesOK'
  BY <1>1, <1>2, <1>5, <1>6 DEF BranchesOK
<1>8. QED
  BY <1>1, <1>2, <1>4, <1>7, SteadyIs DEF TypeOK

LEMMA DescendKeeps == AncestryIInv /\ Descend => AncestryIInv'
<1> SUFFICES ASSUME AncestryIInv, Descend PROVE AncestryIInv'
  OBVIOUS
<1>1. TypeOK /\ BranchesOK /\ PathOK(best) /\ PathOK(trail) /\ phase = "descend" /\ ceiling # 0 /\ Live # {}
      /\ UNCHANGED <<target, holds, turn, parked, ceiling>>
  BY DEF AncestryIInv, Descend, file
<1>2. CASE StopReason # "go" /\ Finish(StopReason, best) /\ UNCHANGED <<late, calls, fetched, failed, best, progress, trail>>
  <2>1. Steady /\ phase' = "done"
    BY <1>1, <1>2, StopsKeep DEF file, Finish
  <2>2. BranchesOK'
    BY <2>1 DEF BranchesOK
  <2>3. QED
    BY <1>1, <1>2, <2>1, <2>2, SteadyIs DEF TypeOK
<1>3. CASE /\ StopReason = "go" /\ Fetch(Last(Lead), trail \o Lead) /\ progress' = TRUE
           /\ trail' = IF Last(Lead) \in fetched' THEN trail \o Lead ELSE trail
  <2> DEFINE path == trail \o Lead
  <2>1. PathOK(path) /\ path # <<>> /\ Last(path) = Last(Lead) /\ path[1] = Branch
        /\ trail # <<>> /\ trail[1] = Branch /\ Last(trail) \in fetched
    BY <1>1, UnderWay
  <2>2. Fetch(Last(path), path)
    BY <1>3, <2>1
  <2>3. (trail' = path /\ Last(Lead) \in fetched') \/ trail' = trail
    BY <1>3
  <2> HIDE DEF path
  <2>4. Steady /\ phase' \in {"descend", "done"} /\ fetched \subseteq fetched' /\ failed \subseteq failed'
        /\ (phase' # "done" => fetched' \subseteq fetched \cup {Last(path)})
    BY <1>1, <1>3, <2>1, <2>2, FetchKeeps DEF file
  <2>5. PathOK(trail') /\ trail' # <<>> /\ trail'[1] = Branch /\ Last(trail') \in fetched'
    BY <1>1, <2>1, <2>3, <2>4
  <2>6. Branch' = Branch
    BY <1>1 DEF Branch, Tightest, Candidates
  <2>7. Last(path) \notin Tops
    <3>1. Lead \in Steps[Last(trail)] /\ Last(trail) \in Nodes
      BY <1>1, <2>1, LeadIsOne DEF PathOK, Last
    <3>2. Parent[Last(Lead)] \in Nodes
      BY <3>1, StepShape
    <3>3. QED
      BY <2>1, <3>2, NodeAncestryAssumption DEF Tops, Kids
  <2>8. ASSUME NEW b \in Tops \cap fetched, b \notin turn \cup parked PROVE Dead(b)'
    BY <1>1, <2>4, <2>8, BranchesStay
  <2>9. BranchesOK'
    <3> SUFFICES ASSUME phase' = "descend" PROVE BranchesOK'
      BY DEF BranchesOK
    <3>1. Tops \cap fetched' \subseteq Tops \cap fetched
      BY <2>4, <2>7
    <3>2. \A b \in Tops \cap fetched' : b \in turn' \cup parked' \/ Dead(b)'
      BY <1>1, <2>8, <3>1
    <3>3. Tops \cap holds' \subseteq fetched' \cup failed' /\ turn' \subseteq fetched' /\ parked' \subseteq fetched' /\ turn' # {}
      BY <1>1, <2>4 DEF BranchesOK
    <3>4. QED
      BY <2>5, <2>6, <3>2, <3>3 DEF BranchesOK
  <2>10. QED
    BY <1>1, <1>3, <2>4, <2>5, <2>9, SteadyIs DEF TypeOK
<1>4. QED
  BY <1>2, <1>3 DEF Descend

LEMMA BacktrackKeeps == AncestryIInv /\ Backtrack => AncestryIInv'
<1> SUFFICES ASSUME AncestryIInv, Backtrack PROVE AncestryIInv'
  OBVIOUS
<1>1. TypeOK /\ BranchesOK /\ PathOK(best) /\ phase = "descend" /\ ceiling # 0 /\ trail' = <<Branch>>
      /\ UNCHANGED <<target, holds, late, phase, calls, fetched, failed, turn, parked, ceiling, progress, best, result>>
  BY DEF AncestryIInv, Backtrack, file
<1>2. Branch \in Tops /\ Branch \in fetched
  BY <1>1, UnderWay
<1>3. PathOK(trail') /\ trail' # <<>> /\ Last(trail') = Branch /\ trail'[1] = Branch
  BY <1>1, <1>2, TopIsPath
<1>4. Steady
  BY <1>1, QuietIsSteady DEF file
<1>5. Branch' = Branch
  BY <1>1 DEF Branch, Tightest, Candidates
<1>6. ASSUME NEW b \in Tops \cap fetched, b \notin turn \cup parked PROVE Dead(b)'
  BY <1>1, <1>6, BranchesStay
<1>7. BranchesOK'
  BY <1>1, <1>2, <1>3, <1>5, <1>6 DEF BranchesOK
<1>8. QED
  BY <1>1, <1>3, <1>4, <1>7, SteadyIs DEF TypeOK

LEMMA EndTurnKeeps == AncestryIInv /\ EndTurn => AncestryIInv'
<1> SUFFICES ASSUME AncestryIInv, EndTurn PROVE AncestryIInv'
  OBVIOUS
<1>1. TypeOK /\ BranchesOK /\ PathOK(best) /\ phase = "descend" /\ ceiling # 0 /\ trail' = <<>> /\ ceiling' = 0
      /\ turn' = turn \ {Branch}
      /\ UNCHANGED <<target, holds, late, phase, calls, fetched, failed, progress, best, result>>
  BY DEF AncestryIInv, EndTurn, file
<1>2. PathOK(trail) /\ trail # <<>> /\ trail[1] = Branch /\ Branch \in turn /\ Branch \in Tops /\ Branch \in fetched
  BY <1>1, UnderWay
<1>3. PathOK(trail')
  BY <1>1 DEF PathOK, Chain
<1>4. Steady
  BY <1>1, QuietIsSteady DEF file
<1>5. (parked' = parked /\ Dead(Branch)) \/ parked' = parked \cup {Branch}
  <2>1. CASE Live = {} /\ Len(trail) = 1 /\ parked' = parked
    <3>1. Last(trail) = Branch
      BY <1>2, <2>1 DEF Last
    <3>2. QED
      BY <1>2, <2>1, <3>1, NoLeadIsDead
  <2>2. CASE parked' = Parking
    BY <2>2 DEF Parking
  <2>3. QED
    BY <2>1, <2>2 DEF EndTurn
<1>6. parked' \subseteq Tops /\ parked' \subseteq fetched /\ turn' \subseteq Tops /\ turn' \subseteq fetched
  BY <1>1, <1>2, <1>5 DEF TypeOK, BranchesOK
<1>7. ASSUME NEW b \in Tops \cap fetched PROVE b \in turn' \cup parked' \/ Dead(b)'
  <2>1. CASE b \notin turn \cup parked
    BY <1>1, <2>1, BranchesStay
  <2>2. CASE b = Branch
    BY <1>1, <1>5, <2>2, DeadStays
  <2>3. CASE b # Branch /\ b \in turn \cup parked
    BY <1>1, <1>5, <2>3
  <2>4. QED
    BY <2>1, <2>2, <2>3
<1>8. BranchesOK'
  BY <1>1, <1>6, <1>7 DEF BranchesOK
<1>9. QED
  BY <1>1, <1>3, <1>4, <1>6, <1>8, SteadyIs DEF TypeOK

LEMMA EndRoundKeeps == AncestryIInv /\ EndRound => AncestryIInv'
<1> SUFFICES ASSUME AncestryIInv, EndRound PROVE AncestryIInv'
  OBVIOUS
<1>1. TypeOK /\ BranchesOK /\ SeenOK /\ PathOK(best) /\ PathOK(trail) /\ phase = "descend" /\ ceiling = 0 /\ turn = {}
      /\ result.kind = "none" /\ UNCHANGED <<target, holds, late, calls, fetched, failed, best>>
  BY DEF AncestryIInv, EndRound, file, Unanswered
<1>2. CASE \/ parked = {} /\ Finish("broken", best) /\ UNCHANGED search
           \/ parked # {} /\ ~progress /\ Finish("calls", best) /\ UNCHANGED search
  <2>1. phase' = "done" /\ result'.path = best /\ result'.kind \in {"broken", "calls"}
        /\ (result'.kind = "broken" => parked = {}) /\ UNCHANGED <<turn, parked, ceiling, progress, trail>>
    BY <1>2 DEF Finish, search
  <2>2. result'.kind = "broken" => Reachable \subseteq fetched \cup failed
    BY <1>1, <2>1, AllDeadIsAll DEF BranchesOK
  <2>3. Reachable' = Reachable
    BY <1>1 DEF Reachable, Near
  <2>4. SeenOK'
    BY <1>1, <2>1 DEF SeenOK, OnScreen
  <2>5. Chain(best)' /\ OnScreen(best)' = OnScreen(best)
    BY <1>1 DEF PathOK, OnScreen
  <2>6. ResultIsTrue'
    BY <1>1, <2>1, <2>2, <2>3, <2>4, <2>5 DEF ResultIsTrue, SeenOK
  <2>7. Steady
    BY <1>1, <2>1, <2>4, <2>6 DEF Steady, TypeOK
  <2>8. BranchesOK'
    BY <2>1 DEF BranchesOK
  <2>9. QED
    BY <1>1, <2>1, <2>7, <2>8, SteadyIs DEF TypeOK
<1>3. CASE /\ parked # {} /\ progress
           /\ turn' = parked /\ parked' = {} /\ progress' = FALSE /\ UNCHANGED <<ceiling, trail, phase, result>>
  <2>1. Steady
    BY <1>1, <1>3, QuietIsSteady DEF file
  <2>2. ASSUME NEW b \in Tops \cap fetched, b \notin turn \cup parked PROVE Dead(b)'
    BY <1>1, <2>2, BranchesStay
  <2>3. BranchesOK'
    BY <1>1, <1>3, <2>2 DEF BranchesOK
  <2>4. QED
    BY <1>1, <1>3, <2>1, <2>3, SteadyIs DEF TypeOK
<1>4. QED
  BY <1>2, <1>3 DEF EndRound

(* A walk that has not begun.                                                *)
Afresh == target \in Nodes \cup {0} /\ holds \in SUBSET Nodes /\ Blank
LEMMA AfreshIsFine == Afresh => AncestryIInv
<1> SUFFICES ASSUME target \in Nodes \cup {0}, holds \in SUBSET Nodes, Blank PROVE AncestryIInv
  BY DEF Afresh
<1>1. TypeOK
  <2>1. calls \in 0..MaxCalls /\ trail \in Seq(Nodes) /\ best \in Seq(Nodes) /\ result.kind = "none"
    BY NodeAncestryAssumption DEF Blank, Unanswered
  <2>2. late \in BOOLEAN /\ progress \in BOOLEAN /\ phase = "idle" /\ fetched = {} /\ failed = {} /\ turn = {} /\ parked = {}
    BY DEF Blank
  <2>3. QED
    BY <2>1, <2>2 DEF TypeOK
<1>2. PathOK(best) /\ PathOK(trail)
  BY DEF PathOK, Chain, Blank
<1>3. SeenOK /\ BranchesOK /\ result.kind = "none"
  BY DEF SeenOK, BranchesOK, Blank, Unanswered
<1>4. ResultIsTrue
  BY <1>2, <1>3 DEF ResultIsTrue, PathOK
<1>5. QED
  BY <1>1, <1>2, <1>3, <1>4 DEF AncestryIInv, Blank

LEMMA ReturnKeeps == AncestryIInv /\ Return => AncestryIInv'
<1> SUFFICES ASSUME AncestryIInv, Return PROVE AncestryIInv'
  OBVIOUS
<1>1. Afresh'
  BY DEF AncestryIInv, TypeOK, Return, file, Blank, Afresh
<1>2. QED
  BY <1>1, AfreshIsFine, PTL

(* Every path that is told is a path of the document, on the target's screen    *)
(* if one of its nodes was entered, and the walk never says the chain broke     *)
(* while a node it can come to is unfetched: in every document, whatever the    *)
(* boxes and the sessions, and however the branches were parked.              *)
THEOREM AncestryIsTrue == Spec => [](TypeOK /\ ResultIsTrue)
<1>1. Init => AncestryIInv
  BY AfreshIsFine DEF Init, Afresh
<1>2. AncestryIInv /\ [Next]_vars => AncestryIInv'
  <2> SUFFICES ASSUME AncestryIInv, [Next]_vars PROVE AncestryIInv'
    OBVIOUS
  <2>1. CASE UNCHANGED vars
    <3>0. UNCHANGED <<target, holds, late, phase, calls, fetched, failed, turn, parked, ceiling, progress, trail, best, result>>
      BY <2>1 DEF vars, file, search
    <3>1. TypeOK'
      BY <3>0 DEF AncestryIInv, TypeOK
    <3>2. SeenOK'
      BY <3>0 DEF AncestryIInv, SeenOK, OnScreen
    <3>3. BranchesOK'
      BY <3>0 DEF AncestryIInv, BranchesOK, Branch, Tightest, Candidates, Dead, Exhausted
    <3>4. ResultIsTrue'
      BY <3>0 DEF AncestryIInv, ResultIsTrue, OnScreen, Reachable, Near
    <3>5. QED
      BY <3>0, <3>1, <3>2, <3>3, <3>4 DEF AncestryIInv, PathOK
  <2>2. QED
    BY <2>1, IdentifyKeeps, SkeletonKeeps, ProbeKeeps, ProbedKeeps, BeginTurnKeeps, ForwardKeeps, DescendKeeps,
       BacktrackKeeps, EndTurnKeeps, EndRoundKeeps, ReturnKeeps DEF Next, WalkStep
<1>3. AncestryIInv => TypeOK /\ ResultIsTrue
  BY DEF AncestryIInv
<1>4. QED
  BY <1>1, <1>2, <1>3, PTL DEF Spec

--------------------------------------------------------------------------------
(* The variables a set of names stands for; those of other files; the one a    *)
(* direction goes to.                                                       *)
Meant(R) == {r[2] : r \in R}
Outside  == {v \in Variables : FileOf[v] # Here}
Sought   == IF forward = Unset THEN pair[2] ELSE pair[1]

(* No alias on a chain from v names what is sought as it was asked for.      *)
Clear(v) == \A u \in Reach(v) : \A w \in aliases[u] : Edge(u, w) # To
(* Where the chain from v leaves the compared file.                         *)
Border(v) == IF FileOf[v] # Here THEN {v}
             ELSE UNION {{w \in aliases[u] : FileOf[w] # Here} : u \in {u \in Reach(v) : FileOf[u] = Here}}

WiringOK ==
  /\ aliases \in [Variables -> SUBSET Variables]
  /\ \A v \in Variables : \A w \in aliases[v] : FileOf[v] # Here => FileOf[w] # Here
PairOK ==
  /\ place \in {"idle", "end", "index", "graph"}
  /\ place # "idle" => pair \in Variables \X Variables /\ said = Unset
  /\ pair = Unset \/ pair \in Variables \X Variables
  /\ forward \in {Unset, "unknown", "unrelated"} /\ (pair = Unset => forward = Unset)
  /\ forward = "unrelated" => ~Named(pair[1], pair[2])

(* A walk under way: it sees only what is reached, and what it went past goes  *)
(* on to what it saw, is seeing or is to enter.                              *)
Sighted == frontier \cup visited
WalkOK ==
  place \in {"index", "graph"} =>
    /\ \A r \in Sighted \cup starts : r[2] \in Reach(From) /\ r \in {Local(r[2]), Key(r[2])}
    /\ \A r \in starts : r = Key(r[2]) /\ FileOf[r[2]] # Here
    /\ From # Sought
IndexOK ==
  place = "index" =>
    /\ FileOf[From] = Here
    /\ \A r \in Sighted : r = Local(r[2]) /\ FileOf[r[2]] = Here
    /\ Canon(From) \in Sighted
    /\ ~IsKey(To) => starts = {}
    /\ ~hole => \A r \in visited : \A w \in aliases[r[2]] :
         /\ Edge(r[2], w) # To
         /\ FileOf[w] = Here => Local(w) \in Sighted
         /\ FileOf[w] # Here /\ IsKey(To) => Key(w) \in starts
GraphOK ==
  place = "graph" =>
    /\ IsKey(To)
    /\ ~hole =>
         /\ \A u \in Reach(From) : FileOf[u] = Here => \A w \in aliases[u] : Edge(u, w) # To
         /\ \A r \in visited : FileOf[r[2]] # Here => \A w \in aliases[r[2]] :
              Edge(r[2], w) # To /\ w \in Meant(Sighted)
         /\ \A w \in Border(From) : Clear(w) \/ Key(w) \in starts \/ w \in Meant(Sighted)
RelationIInv == WiringOK /\ PairOK /\ WalkOK /\ IndexOK /\ GraphOK /\ RelationIsProven

--------------------------------------------------------------------------------
(* Reach(v) is closed and holds v, and is the least such set.                *)
LEMMA ReachCloses ==
  ASSUME WiringOK, NEW v \in Variables
  PROVE  v \in Reach(v) /\ Reach(v) \subseteq Variables /\ \A u \in Reach(v) : aliases[u] \subseteq Reach(v)
<1>1. v \in Reach(v) /\ Reach(v) \subseteq Variables
  BY DEF Reach
<1>2. ASSUME NEW u \in Reach(v), NEW w \in aliases[u] PROVE w \in Reach(v)
  <2>1. w \in Variables
    BY <1>1, <1>2 DEF WiringOK
  <2>2. ASSUME NEW S \in SUBSET Variables, v \in S, Closed(S) PROVE w \in S
    BY <1>2, <2>2 DEF Reach, Closed
  <2>3. QED
    BY <2>1, <2>2 DEF Reach
<1>3. QED
  BY <1>1, <1>2

(* The least, as an induction over chains of aliases.                        *)
LEMMA ReachIsLeast ==
  ASSUME NEW v, NEW S \in SUBSET Variables, v \in S, Closed(S) PROVE Reach(v) \subseteq S
  BY DEF Reach

(* A library knows nothing of the file.                                     *)
LEMMA StaysOutside == ASSUME WiringOK, NEW v \in Outside PROVE Reach(v) \subseteq Outside
<1>1. Closed(Outside)
  BY DEF WiringOK, Closed, Outside
<1>2. QED
  BY <1>1, ReachIsLeast DEF Outside

(* Whatever is reached outside is reached from the border.                  *)
LEMMA OverTheBorder ==
  ASSUME WiringOK, NEW v \in Variables, NEW u \in Reach(v), FileOf[u] # Here
  PROVE  \E w \in Border(v) : u \in Reach(w)
<1>1. CASE FileOf[v] # Here
  BY <1>1 DEF Border
<1>2. CASE FileOf[v] = Here
  <2> DEFINE inside == {x \in Reach(v) : FileOf[x] = Here}
             S == inside \cup UNION {Reach(w) : w \in Border(v)}
  <2>1. /\ v \in Reach(v) /\ Reach(v) \subseteq Variables
        /\ \A x \in Reach(v) : aliases[x] \subseteq Reach(v)
    BY ReachCloses
  <2>2. Border(v) \subseteq Variables /\ \A x \in inside : \A w \in aliases[x] : w \in inside \cup Border(v)
    BY <1>2, <2>1 DEF Border
  <2>3. \A w \in Border(v) : w \in Reach(w) /\ Reach(w) \subseteq Variables /\ \A x \in Reach(w) : aliases[x] \subseteq Reach(w)
    BY <2>2, ReachCloses
  <2>4. S \in SUBSET Variables /\ v \in S
    BY <1>2, <2>1, <2>3
  <2>5. Closed(S)
    <3>1. ASSUME NEW x \in inside PROVE aliases[x] \subseteq S
      <4> HIDE DEF inside
      <4>1. QED
        BY <2>2, <2>3
    <3>2. ASSUME NEW w \in Border(v), NEW x \in Reach(w) PROVE aliases[x] \subseteq S
      BY <2>3
    <3>3. QED
      BY <3>1, <3>2 DEF Closed
  <2>6. u \in S
    BY <2>4, <2>5, ReachIsLeast
  <2>7. QED
    BY <2>6
<1>3. QED
  BY <1>1, <1>2

(* A chain leaves the file at variables of other files.                      *)
LEMMA BorderOutside == ASSUME WiringOK, NEW v \in Variables PROVE Border(v) \subseteq Outside
  BY ReachCloses DEF Border, Outside, WiringOK

(* The chain is clear from start to end.                                    *)
LEMMA ClearEnough ==
  ASSUME WiringOK, From \in Variables, From # Sought, To = Canon(Sought),
         \A u \in Reach(From) : FileOf[u] = Here => \A w \in aliases[u] : Edge(u, w) # To,
         \A w \in Border(From) : Clear(w)
  PROVE  ~Named(From, Sought)
<1> SUFFICES ASSUME NEW u \in Reach(From), Sought \in aliases[u], Edge(u, Sought) = To PROVE FALSE
  BY DEF Named
<1>1. PICK w \in Border(From) : u \in Reach(w)
  BY OverTheBorder
<1>2. QED
  BY <1>1 DEF Clear

(* What a walk has to do with the question.                                 *)
LEMMA Question ==
  ASSUME PairOK, place # "idle"
  PROVE  /\ From \in Variables /\ Sought \in Variables /\ To = Canon(Sought)
         /\ IsKey(To) <=> FileOf[Sought] # Here
         /\ forward = Unset => From = pair[1] /\ Sought = pair[2]
         /\ forward # Unset => From = pair[2] /\ Sought = pair[1]
<1>1. pair \in Variables \X Variables
  BY DEF PairOK
<1>2. To = Canon(Sought) /\ From \in Variables /\ Sought \in Variables
  BY <1>1 DEF To, From, Sought
<1>3. IsKey(Canon(Sought)) <=> FileOf[Sought] # Here
  BY DEF IsKey, Canon, Key, Local
<1>4. QED
  BY <1>2, <1>3 DEF From, Sought

(* While the wiring and the question stay, so does what is true of them.     *)
LEMMA SameReach ==
  ASSUME UNCHANGED wiring
  PROVE  /\ (\A v : Reach(v)' = Reach(v)) /\ (\A v : Border(v)' = Border(v))
         /\ \A a, b : Named(a, b)' <=> Named(a, b)
<1>1. \A v : Reach(v)' = Reach(v)
  BY DEF wiring, Reach, Closed
<1>2. QED
  BY <1>1 DEF Border, Named, wiring
(* A step that leaves the pair alone asks the same of it.                    *)
LEMMA SameQuestion ==
  ASSUME UNCHANGED <<wiring, pair, forward>>
  PROVE  From' = From /\ Sought' = Sought /\ To' = To /\ \A v : Clear(v)' <=> Clear(v)
<1>1. From' = From /\ Sought' = Sought /\ To' = To
  BY DEF From, Sought, To
<1>2. QED
  BY <1>1, SameReach DEF Clear, wiring

--------------------------------------------------------------------------------
(* A direction that ends on a proof leads to an answer that is proved.       *)
LEMMA EndsProved ==
  ASSUME AliasRelationAssumption, RelationIInv, place # "idle", NEW r \in {"related", "unrelated", "unknown"}, EndsWith(r),
         r = "related" => Sought \in Reach(From),
         r = "unrelated" => ~Named(From, Sought)
  PROVE  RelationIInv'
<1>1. UNCHANGED wiring /\ place' \in {"end", "idle"} /\ pair' = pair
  BY DEF EndsWith
<1>2. pair \in Variables \X Variables /\ said = Unset
  BY DEF RelationIInv, PairOK
<1>3. WiringOK'
  BY <1>1 DEF RelationIInv, WiringOK, wiring
<1>4. /\ WalkOK' /\ IndexOK' /\ GraphOK'
  BY <1>1 DEF WalkOK, IndexOK, GraphOK
<1>5. /\ forward = Unset => From = pair[1] /\ Sought = pair[2]
      /\ forward # Unset => From = pair[2] /\ Sought = pair[1]
  BY Question DEF RelationIInv
<1>6. CASE r # "related" /\ forward = Unset /\ forward' = r /\ place' = "end" /\ UNCHANGED <<pair, said>>
  <2>1. PairOK'
    BY <1>1, <1>2, <1>5, <1>6, SameReach DEF PairOK
  <2>2. RelationIsProven'
    BY <1>2, <1>6 DEF RelationIsProven
  <2>3. QED
    BY <1>3, <1>4, <2>1, <2>2 DEF RelationIInv
<1>7. CASE /\ r = "related" \/ forward # Unset
           /\ said' = IF r = "related" THEN r ELSE IF "unknown" \in {r, forward} THEN "unknown" ELSE "unrelated"
           /\ place' = "idle" /\ UNCHANGED <<pair, forward>>
  <2>1. PairOK'
    BY <1>1, <1>2, <1>7, SameReach DEF PairOK, RelationIInv
  <2>2. said' = "related" => pair[2] \in Reach(pair[1]) \/ pair[1] \in Reach(pair[2])
    BY <1>5, <1>7
  <2>3. said' = "unrelated" => ~Named(pair[1], pair[2]) /\ ~Named(pair[2], pair[1])
    BY <1>5, <1>7 DEF RelationIInv, PairOK
  <2>4. RelationIsProven'
    BY <1>1, <2>2, <2>3, SameReach DEF RelationIsProven
  <2>5. QED
    BY <1>3, <1>4, <2>1, <2>4 DEF RelationIInv
<1>8. QED
  BY <1>6, <1>7 DEF EndsWith

(* A step of a walk that does not end it.                                   *)
LEMMA WalkGoesOn ==
  ASSUME RelationIInv, place # "idle", UNCHANGED <<wiring, pair, forward, said>>,
         place' \in {"end", "index", "graph"}, WalkOK', IndexOK', GraphOK'
  PROVE  RelationIInv'
<1>1. pair \in Variables \X Variables /\ said = Unset
  BY DEF RelationIInv, PairOK
<1>2. WiringOK'
  BY DEF RelationIInv, WiringOK, wiring
<1>3. PairOK'
  BY <1>1, SameReach DEF RelationIInv, PairOK
<1>4. RelationIsProven'
  BY <1>1 DEF RelationIsProven
<1>5. QED
  BY <1>2, <1>3, <1>4 DEF RelationIInv

(* One lemma an action from here on.                                         *)
LEMMA AskKeeps ==
  ASSUME AliasRelationAssumption, RelationIInv, NEW a \in Variables, NEW b \in Variables, Ask(a, b) PROVE RelationIInv'
<1>1. UNCHANGED wiring /\ pair' = <<a, b>> /\ place' = "end" /\ forward' = forward /\ said' = said /\ said = Unset /\ pair = Unset
  BY DEF Ask
<1>2. WiringOK' /\ WalkOK' /\ IndexOK' /\ GraphOK' /\ RelationIsProven'
  BY <1>1 DEF RelationIInv, WiringOK, WalkOK, IndexOK, GraphOK, RelationIsProven, wiring
<1>3. QED
  BY <1>1, <1>2 DEF RelationIInv, PairOK, AliasRelationAssumption

LEMMA BeginKeeps == ASSUME AliasRelationAssumption, RelationIInv, BeginWalk PROVE RelationIInv'
<1>1. place = "end"
  BY DEF BeginWalk
<1>2. /\ From \in Variables /\ Sought \in Variables /\ To = Canon(Sought)
      /\ IsKey(To) <=> FileOf[Sought] # Here
  BY <1>1, Question DEF RelationIInv
<1>3. From \in Reach(From) /\ WiringOK
  BY <1>2, ReachCloses DEF RelationIInv
<1>4. CASE Canon(From) = To /\ EndsWith("related")
  <2>1. From = Sought
    BY <1>2, <1>4 DEF Canon, Key, Local
  <2>2. QED
    BY <1>1, <1>3, <1>4, <2>1, EndsProved
<1>5. ASSUME Canon(From) # To, FileOf[From] = Here, Walks("index", Cap) PROVE RelationIInv'
  <2>1. /\ UNCHANGED <<wiring, pair, forward, said>> /\ place' = "index"
        /\ frontier' = {Canon(From)} /\ visited' = {} /\ starts' = {} /\ hole' = FALSE
    BY <1>5 DEF Walks
  <2>2. From' = From /\ Sought' = Sought /\ To' = To /\ \A v : Reach(v)' = Reach(v)
    BY <2>1, SameReach, SameQuestion
  <2>3. Canon(From) = Local(From) /\ Local(From)[2] = From /\ From # Sought /\ Canon(From)' = Canon(From)
    BY <1>2, <1>5, <2>2 DEF Canon, Local
  <2>4. WalkOK'
    BY <1>3, <2>1, <2>2, <2>3 DEF WalkOK, Sighted
  <2>5. IndexOK' /\ GraphOK'
    BY <1>5, <2>1, <2>2, <2>3 DEF IndexOK, GraphOK, Sighted
  <2>6. QED
    BY <1>1, <2>1, <2>4, <2>5, WalkGoesOn
<1>6. CASE Canon(From) # To /\ FileOf[From] # Here /\ ~IsKey(To) /\ EndsWith("unrelated")
  <2>1. Reach(From) \subseteq Outside
    BY <1>2, <1>3, <1>6, StaysOutside DEF Outside
  <2>2. FileOf[Sought] = Here /\ From # Sought
    BY <1>2, <1>6
  <2>3. \A u \in Reach(From) : Edge(u, Sought) # Canon(Sought)
    BY <2>1, <2>2 DEF Edge, Canon, Key, Local, Outside
  <2>4. ~Named(From, Sought)
    BY <2>2, <2>3 DEF Named
  <2>5. QED
    BY <1>1, <1>6, <2>4, EndsProved
<1>7. CASE EndsWith("unknown")
  BY <1>1, <1>7, EndsProved
<1>8. ASSUME Canon(From) # To, FileOf[From] # Here, IsKey(To), Walks("graph", Cap) PROVE RelationIInv'
  <2>1. /\ UNCHANGED <<wiring, pair, forward, said>> /\ place' = "graph"
        /\ frontier' = {Canon(From)} /\ visited' = {} /\ starts' = {} /\ hole' = FALSE
    BY <1>8 DEF Walks
  <2>2. /\ From' = From /\ Sought' = Sought /\ To' = To
        /\ (\A v : Reach(v)' = Reach(v)) /\ (\A v : Border(v)' = Border(v))
    BY <2>1, SameReach, SameQuestion
  <2>3. Canon(From) = Key(From) /\ Key(From)[2] = From /\ From # Sought /\ IsKey(To)' = IsKey(To)
    BY <1>2, <1>8, <2>2 DEF Canon, Key, IsKey
  <2>4. WalkOK'
    BY <1>3, <2>1, <2>2, <2>3 DEF WalkOK, Sighted
  <2>5. \A u \in Reach(From) : FileOf[u] # Here
    BY <1>2, <1>3, <1>8, StaysOutside DEF Outside
  <2>6. Border(From) = {From} /\ From \in Meant(Sighted)'
    BY <1>8, <2>1, <2>3 DEF Border, Meant, Sighted
  <2>7. GraphOK'
    BY <1>8, <2>1, <2>2, <2>3, <2>5, <2>6 DEF GraphOK
  <2>8. IndexOK'
    BY <2>1 DEF IndexOK
  <2>9. QED
    BY <1>1, <2>1, <2>4, <2>7, <2>8, WalkGoesOn
<1>9. QED
  BY <1>4, <1>5, <1>6, <1>7, <1>8 DEF BeginWalk

(* What the walk of the index knows when nothing is left to see.            *)
LEMMA IndexWalked ==
  ASSUME RelationIInv, place = "index", frontier = {}, ~hole, NEW u \in Reach(From)
  PROVE  /\ FileOf[u] = Here => \E r \in visited : r[2] = u
         /\ IsKey(To) /\ starts = {} => FileOf[u] = Here
<1>1. From \in Variables /\ WiringOK /\ Sighted = visited
  BY Question DEF RelationIInv, Sighted
<1>2. Reach(From) \subseteq Variables /\ FileOf[From] = Here
  BY <1>1, ReachCloses DEF RelationIInv, IndexOK
<1> DEFINE V == {r[2] : r \in visited}
<1>3. From \in V /\ V \subseteq Variables
  <2>1. Canon(From) = Local(From) /\ Local(From)[2] = From
    BY <1>2 DEF Canon, Local
  <2>2. QED
    BY <1>1, <1>2, <2>1 DEF RelationIInv, IndexOK, WalkOK
<1>4. ASSUME NEW x \in V, NEW w \in aliases[x]
      PROVE  /\ FileOf[w] = Here => w \in V
             /\ FileOf[w] # Here /\ IsKey(To) => starts # {}
  <2>1. PICK r \in visited : x = r[2]
    OBVIOUS
  <2>2. /\ FileOf[w] = Here => Local(w) \in visited
        /\ FileOf[w] # Here /\ IsKey(To) => Key(w) \in starts
    BY <1>1, <1>4, <2>1 DEF RelationIInv, IndexOK
  <2>3. Local(w)[2] = w
    BY DEF Local
  <2>4. QED
    BY <2>2, <2>3
<1> HIDE DEF V
<1>5. Closed(V \cup Outside)
  <2>1. \A x \in V : aliases[x] \subseteq V \cup Outside
    BY <1>1, <1>3, <1>4 DEF Outside, WiringOK
  <2>2. \A x \in Outside : aliases[x] \subseteq Outside
    BY <1>1 DEF Outside, WiringOK
  <2>3. QED
    BY <2>1, <2>2 DEF Closed
<1>6. u \in V \cup Outside
  BY <1>3, <1>5, ReachIsLeast DEF Outside
<1>7. ASSUME IsKey(To), starts = {} PROVE FileOf[u] = Here
  <2>1. Closed(V)
    BY <1>4, <1>7 DEF Closed
  <2>2. u \in V
    BY <1>3, <2>1, ReachIsLeast
  <2>3. QED
    BY <1>1, <2>2 DEF V, RelationIInv, IndexOK
<1>8. QED
  BY <1>6, <1>7 DEF V, Outside

LEMMA LevelKeeps == ASSUME AliasRelationAssumption, RelationIInv, Level PROVE RelationIInv'
<1>1. /\ place \in {"index", "graph"} /\ WalkOK /\ WiringOK
      /\ From \in Variables /\ Sought \in Variables /\ To = Canon(Sought) /\ (IsKey(To) <=> FileOf[Sought] # Here)
  BY Question DEF Level, RelationIInv
<1>2. \A v \in Reach(From) : v \in Variables /\ aliases[v] \subseteq Reach(From)
  BY <1>1, ReachCloses
<1>3. \A u, w : Edge(u, w)[2] = w /\ Edge(u, w) \in {Local(w), Key(w)}
  BY DEF Edge, Local, Key
<1>4. Found \subseteq New /\ New \subseteq frontier /\ Sighted = visited \cup New
  BY DEF Found, New, Sighted
<1>5. \A e \in Edges : \E r \in Found : \E w \in aliases[r[2]] : e = Edge(r[2], w)
  BY DEF Edges
<1>6. \A r \in Found : \A w \in aliases[r[2]] : Edge(r[2], w) \in Edges
  BY DEF Edges
<1>7. \A e \in Edges : e[2] \in Reach(From) /\ e \in {Local(e[2]), Key(e[2])}
  BY <1>1, <1>2, <1>3, <1>4, <1>5 DEF WalkOK
<1>8. CASE To \in Edges /\ EndsWith("related")
  <2>1. To[2] = Sought
    BY <1>1 DEF Canon, Key, Local
  <2>2. QED
    BY <1>1, <1>7, <1>8, <2>1, EndsProved
<1>9. ASSUME To \notin Edges,
             visited' = visited \cup New, hole' = HoleAfter,
             frontier' = (IF place = "index" THEN {r \in Edges : ~IsKey(r)} ELSE Edges),
             starts' = (IF place = "index" /\ IsKey(To) THEN starts \cup {r \in Edges : IsKey(r)} ELSE starts),
             UNCHANGED <<wiring, pair, forward, place, said>>
      PROVE  RelationIInv'
  <2>1. /\ From' = From /\ Sought' = Sought /\ To' = To /\ \A v : Clear(v)' <=> Clear(v)
        /\ (\A v : Reach(v)' = Reach(v)) /\ (\A v : Border(v)' = Border(v))
        /\ aliases' = aliases /\ Canon(From)' = Canon(From) /\ IsKey(To)' = IsKey(To)
    BY <1>9, SameReach, SameQuestion DEF wiring, IsKey, Canon
  <2>2. visited' = Sighted /\ Sighted' = frontier' \cup Sighted /\ frontier' \subseteq Edges
    BY <1>4, <1>9 DEF Sighted
  <2>3. \A r \in Edges : IsKey(r) => r = Key(r[2]) /\ FileOf[r[2]] # Here
    <3>1. ASSUME NEW r \in Edges, IsKey(r) PROVE r = Key(r[2])
      BY <1>7, <3>1 DEF IsKey, Local, Key
    <3>2. ASSUME NEW r \in Edges, IsKey(r) PROVE FileOf[r[2]] # Here
      <4>1. PICK q \in Found : \E w \in aliases[q[2]] : r = Edge(q[2], w)
        BY <1>5
      <4>2. PICK w \in aliases[q[2]] : r = Edge(q[2], w)
        BY <4>1
      <4>3. q[2] \in Reach(From) /\ q[2] \in Variables
        BY <1>1, <1>2, <1>4 DEF WalkOK
      <4>4. FileOf[q[2]] # FileOf[w] /\ r[2] = w
        BY <3>2, <4>2, <1>3 DEF Edge, IsKey, Local, Key
      <4>5. QED
        BY <1>1, <4>3, <4>4 DEF WiringOK
    <3>3. QED
      BY <3>1, <3>2
  <2>4. starts' \subseteq starts \cup {r \in Edges : IsKey(r)}
    BY <1>9
  <2>5. WalkOK'
    <3>1. \A r \in Sighted \cup starts : r[2] \in Reach(From) /\ r \in {Local(r[2]), Key(r[2])}
      BY <1>1 DEF WalkOK
    <3>2. \A r \in (Sighted \cup starts)' : r[2] \in Reach(From) /\ r \in {Local(r[2]), Key(r[2])}
      BY <1>7, <2>2, <2>4, <3>1
    <3>3. \A r \in starts' : r = Key(r[2]) /\ FileOf[r[2]] # Here
      BY <1>1, <2>3, <2>4 DEF WalkOK
    <3>4. From # Sought
      BY <1>1 DEF WalkOK
    <3>5. QED
      BY <2>1, <3>2, <3>3, <3>4 DEF WalkOK
  <2>6. ASSUME place = "index" PROVE IndexOK'
    <3>1. /\ FileOf[From] = Here /\ \A r \in Sighted : r = Local(r[2]) /\ FileOf[r[2]] = Here
          /\ Canon(From) \in Sighted /\ (~IsKey(To) => starts = {})
          /\ ~hole => \A r \in visited : \A w \in aliases[r[2]] :
               /\ Edge(r[2], w) # To
               /\ FileOf[w] = Here => Local(w) \in Sighted
               /\ FileOf[w] # Here /\ IsKey(To) => Key(w) \in starts
      BY <2>6 DEF RelationIInv, IndexOK
    <3>2. ~hole' => ~hole /\ Found = New
      BY <1>9 DEF HoleAfter
    <3>3. \A r \in frontier' : r = Local(r[2]) /\ FileOf[r[2]] = Here
      <4>1. ASSUME NEW r \in frontier' PROVE r = Local(r[2]) /\ FileOf[r[2]] = Here
        <5>1. r \in Edges /\ ~IsKey(r)
          BY <1>9, <2>6
        <5>2. r = Local(r[2])
          BY <1>7, <5>1 DEF IsKey, Key, Local
        <5>3. PICK q \in Found : \E w \in aliases[q[2]] : r = Edge(q[2], w)
          BY <1>5, <5>1
        <5>4. PICK w \in aliases[q[2]] : r = Edge(q[2], w)
          BY <5>3
        <5>5. FileOf[q[2]] = Here
          BY <1>4, <3>1
        <5>6. FileOf[w] = Here /\ r[2] = w
          BY <1>3, <5>1, <5>4, <5>5 DEF Edge, IsKey, Key
        <5>7. QED
          BY <5>2, <5>6
      <4>2. QED
        BY <4>1
    <3>4. \A r \in Sighted' : r = Local(r[2]) /\ FileOf[r[2]] = Here
      BY <2>2, <3>1, <3>3
    <3>5. ~IsKey(To) => starts' = {}
      BY <1>9, <3>1
    <3>6. ASSUME ~hole', NEW r \in visited', NEW w \in aliases[r[2]]
          PROVE  /\ Edge(r[2], w) # To
                 /\ FileOf[w] = Here => Local(w) \in Sighted'
                 /\ FileOf[w] # Here /\ IsKey(To) => Key(w) \in starts'
      <4>1. CASE r \in visited
        BY <4>1, <2>2, <3>1, <3>2, <3>6, <1>9
      <4>2. CASE r \in New
        <5>1. Edge(r[2], w) \in Edges /\ FileOf[r[2]] = Here
          BY <1>4, <1>6, <3>1, <3>2, <3>6, <4>2
        <5>2. FileOf[w] = Here => Local(w) \in frontier'
          BY <1>9, <2>6, <5>1 DEF Edge, IsKey, Local
        <5>3. FileOf[w] # Here /\ IsKey(To) => Key(w) \in starts'
          BY <1>9, <2>6, <5>1 DEF Edge, IsKey, Key
        <5>4. QED
          BY <1>9, <2>2, <5>1, <5>2, <5>3
      <4>3. QED
        BY <1>9, <3>6, <4>1, <4>2
    <3>7. QED
      BY <2>1, <2>2, <3>1, <3>2, <3>4, <3>5, <3>6 DEF IndexOK
  <2>7. ASSUME place = "graph" PROVE GraphOK'
    <3>1. IsKey(To) /\ starts' = starts /\ frontier' = Edges
      BY <1>9, <2>7 DEF RelationIInv, GraphOK
    <3>2. ASSUME ~hole'
          PROVE  /\ \A u \in Reach(From) : FileOf[u] = Here => \A w \in aliases[u] : Edge(u, w) # To
                 /\ \A r \in visited' : FileOf[r[2]] # Here => \A w \in aliases[r[2]] :
                      Edge(r[2], w) # To /\ w \in Meant(Sighted')
                 /\ \A w \in Border(From) : Clear(w) \/ Key(w) \in starts' \/ w \in Meant(Sighted')
      <4>1. ~hole /\ Found = New
        BY <1>9, <3>2 DEF HoleAfter
      <4>2. /\ \A u \in Reach(From) : FileOf[u] = Here => \A w \in aliases[u] : Edge(u, w) # To
            /\ \A r \in visited : FileOf[r[2]] # Here => \A w \in aliases[r[2]] :
                 Edge(r[2], w) # To /\ w \in Meant(Sighted)
            /\ \A w \in Border(From) : Clear(w) \/ Key(w) \in starts \/ w \in Meant(Sighted)
        BY <2>7, <4>1 DEF RelationIInv, GraphOK
      <4>3. Meant(Sighted) \subseteq Meant(Sighted')
        BY <2>2 DEF Meant
      <4>4. \A r \in New : \A w \in aliases[r[2]] : Edge(r[2], w) # To /\ w \in Meant(Sighted')
        <5>1. ASSUME NEW r \in New, NEW w \in aliases[r[2]] PROVE Edge(r[2], w) # To /\ w \in Meant(Sighted')
          <6>1. Edge(r[2], w) \in Edges /\ Edge(r[2], w)[2] = w
            BY <1>3, <1>6, <4>1
          <6>2. Edge(r[2], w) \in Sighted'
            BY <2>2, <3>1, <6>1
          <6>3. QED
            BY <1>9, <6>1, <6>2 DEF Meant
        <5>2. QED
          BY <5>1
      <4>5. QED
        BY <1>9, <3>1, <4>2, <4>3, <4>4
    <3>3. Meant(Sighted') = Meant(Sighted)'
      BY DEF Meant
    <3>4. QED
      BY <2>1, <3>1, <3>2, <3>3 DEF GraphOK, Edge, Local, Key
  <2>8. IndexOK' /\ GraphOK'
    BY <1>1, <1>9, <2>6, <2>7 DEF IndexOK, GraphOK
  <2>9. QED
    BY <1>1, <1>9, <2>5, <2>8, WalkGoesOn
<1>10. QED
  BY <1>8, <1>9 DEF Level

LEMMA LeaveIndexKeeps == ASSUME AliasRelationAssumption, RelationIInv, LeaveIndex PROVE RelationIInv'
<1>1. /\ place = "index" /\ WalkOK /\ IndexOK /\ WiringOK
      /\ From \in Variables /\ Sought \in Variables /\ To = Canon(Sought) /\ (IsKey(To) <=> FileOf[Sought] # Here)
  BY Question DEF LeaveIndex, RelationIInv
(* Nothing here names what is sought.                                       *)
<1>2. ASSUME frontier = {}, ~hole, NEW u \in Reach(From), FileOf[u] = Here, NEW w \in aliases[u]
      PROVE  Edge(u, w) # To /\ (FileOf[w] # Here /\ IsKey(To) => Key(w) \in starts)
  <2>1. PICK r \in visited : r[2] = u
    BY <1>1, <1>2, IndexWalked
  <2>2. QED
    BY <1>1, <1>2, <2>1 DEF IndexOK
<1>3. CASE EndsWith("unknown")
  BY <1>1, <1>3, EndsProved
<1>4. CASE starts = {} /\ ~Cut /\ EndsWith("unrelated")
  <2>1. frontier = {} /\ ~hole
    BY <1>4 DEF Cut
  <2>2. ASSUME NEW u \in Reach(From), Sought \in aliases[u] PROVE Edge(u, Sought) # To
    <3>1. CASE FileOf[u] = Here
      BY <1>2, <2>1, <2>2, <3>1
    <3>2. CASE FileOf[u] # Here
      <4>1. ~IsKey(To)
        BY <1>1, <1>4, <2>1, <3>2, IndexWalked
      <4>2. To = Local(Sought) /\ FileOf[u] # FileOf[Sought]
        BY <1>1, <3>2, <4>1 DEF Canon
      <4>3. QED
        BY <4>2 DEF Edge, Local, Key
    <3>3. QED
      BY <3>1, <3>2
  <2>3. ~Named(From, Sought)
    BY <1>1, <2>2 DEF Named, WalkOK
  <2>4. QED
    BY <1>1, <1>4, <2>3, EndsProved
<1>5. ASSUME starts # {}, place' = "graph", frontier' = {}, hole' = Cut,
             UNCHANGED <<wiring, pair, forward, said, visited, starts>>
      PROVE  RelationIInv'
  <2>1. /\ From' = From /\ Sought' = Sought /\ To' = To /\ \A v : Clear(v)' <=> Clear(v)
        /\ (\A v : Reach(v)' = Reach(v)) /\ (\A v : Border(v)' = Border(v)) /\ aliases' = aliases
    BY <1>5, SameReach, SameQuestion DEF wiring
  <2>2. IsKey(To)
    BY <1>1, <1>5 DEF IndexOK
  <2>3. WalkOK'
    BY <1>1, <1>5, <2>1 DEF WalkOK, Sighted, Local, Key
  <2>4. ASSUME ~hole'
        PROVE  /\ \A u \in Reach(From) : FileOf[u] = Here => \A w \in aliases[u] : Edge(u, w) # To
               /\ \A r \in visited : FileOf[r[2]] = Here
               /\ \A w \in Border(From) : Key(w) \in starts
    <3>1. frontier = {} /\ ~hole
      BY <1>5, <2>4 DEF Cut
    <3>2. \A r \in visited : FileOf[r[2]] = Here
      BY <1>1 DEF IndexOK, Sighted
    <3>3. ASSUME NEW w \in Border(From) PROVE Key(w) \in starts
      <4>1. PICK u \in Reach(From) : FileOf[u] = Here /\ w \in aliases[u] /\ FileOf[w] # Here
        BY <1>1, <3>3 DEF Border, IndexOK
      <4>2. QED
        BY <1>2, <2>2, <3>1, <4>1
    <3>4. QED
      BY <1>2, <3>1, <3>2, <3>3
  <2>5. GraphOK'
    BY <1>5, <2>1, <2>2, <2>4 DEF GraphOK, IsKey, Edge, Local, Key
  <2>6. IndexOK'
    BY <1>5 DEF IndexOK
  <2>7. QED
    BY <1>1, <1>5, <2>3, <2>5, <2>6, WalkGoesOn
<1>6. QED
  BY <1>3, <1>4, <1>5 DEF LeaveIndex

(* What the walk of an entry knows when nothing is left to see.             *)
LEMMA EntryWalked ==
  ASSUME RelationIInv, place = "graph", frontier = {}, ~hole, NEW w \in Meant(visited), w \in Outside
  PROVE  Clear(w)
<1>1. From \in Variables /\ WiringOK /\ Sighted = visited
  BY Question DEF RelationIInv, Sighted
<1> DEFINE V == {v \in Meant(visited) : v \in Outside}
<1>2. ASSUME NEW x \in V, NEW y \in aliases[x] PROVE y \in V /\ Edge(x, y) # To
  <2>1. PICK r \in visited : x = r[2] /\ FileOf[r[2]] # Here
    BY DEF Meant, Outside
  <2>2. Edge(x, y) # To /\ y \in Meant(visited)
    BY <1>1, <1>2, <2>1 DEF RelationIInv, GraphOK
  <2>3. y \in Outside
    BY <1>1, <1>2 DEF WiringOK, Outside
  <2>4. QED
    BY <2>2, <2>3
<1>3. Reach(w) \subseteq V
  <2>1. V \in SUBSET Variables /\ w \in V
    BY DEF Outside
  <2>2. Closed(V)
    BY <1>2 DEF Closed
  <2> HIDE DEF V
  <2>3. QED
    BY <2>1, <2>2, ReachIsLeast
<1>4. QED
  BY <1>2, <1>3 DEF Clear

LEMMA EnterKeeps == ASSUME AliasRelationAssumption, RelationIInv, NEW r, Enter(r) PROVE RelationIInv'
<1>1. /\ place = "graph" /\ WalkOK /\ GraphOK /\ WiringOK /\ From \in Variables
  BY Question DEF Enter, RelationIInv
<1>2. /\ r \in starts /\ starts' = starts \ {r} /\ hole' = Cut /\ frontier' = {r} /\ visited' = {}
      /\ UNCHANGED <<wiring, pair, forward, place, said>>
  BY DEF Enter
<1>3. /\ From' = From /\ Sought' = Sought /\ To' = To /\ \A v : Clear(v)' <=> Clear(v)
      /\ (\A v : Reach(v)' = Reach(v)) /\ (\A v : Border(v)' = Border(v)) /\ aliases' = aliases
  BY <1>2, SameReach, SameQuestion DEF wiring
<1>4. WalkOK'
  BY <1>1, <1>2, <1>3 DEF WalkOK, Sighted, Local, Key
<1>5. ASSUME ~hole'
      PROVE  /\ \A u \in Reach(From) : FileOf[u] = Here => \A w \in aliases[u] : Edge(u, w) # To
             /\ \A w \in Border(From) : Clear(w) \/ Key(w) \in starts' \/ w \in Meant({r})
  <2>1. frontier = {} /\ ~hole /\ Sighted = visited
    BY <1>2, <1>5 DEF Cut, Sighted
  <2>2. ASSUME NEW w \in Border(From) PROVE Clear(w) \/ Key(w) \in starts' \/ w \in Meant({r})
    <3>1. Clear(w) \/ Key(w) \in starts \/ w \in Meant(visited)
      BY <1>1, <2>1 DEF GraphOK
    <3>2. ASSUME w \in Meant(visited) PROVE Clear(w)
      BY <1>1, <2>1, <3>2, EntryWalked, BorderOutside
    <3>3. Key(w) = r => w \in Meant({r})
      BY DEF Key, Meant
    <3>4. QED
      BY <1>2, <3>1, <3>2, <3>3
  <2>3. QED
    BY <1>1, <2>1, <2>2 DEF GraphOK
<1>6. Meant(Sighted)' = Meant({r})
  BY <1>2 DEF Meant, Sighted
<1>7. GraphOK'
  BY <1>1, <1>2, <1>3, <1>5, <1>6 DEF GraphOK, IsKey, Edge, Local, Key
<1>8. IndexOK'
  BY <1>1, <1>2 DEF IndexOK
<1>9. QED
  BY <1>1, <1>2, <1>4, <1>7, <1>8, WalkGoesOn

LEMMA LeaveGraphKeeps == ASSUME AliasRelationAssumption, RelationIInv, LeaveGraph PROVE RelationIInv'
<1>1. /\ place = "graph" /\ WalkOK /\ GraphOK /\ WiringOK /\ starts = {}
      /\ From \in Variables /\ Sought \in Variables /\ To = Canon(Sought)
  BY Question DEF LeaveGraph, RelationIInv
<1>2. CASE Cut
  BY <1>1, <1>2, EndsProved DEF LeaveGraph
<1>3. CASE ~Cut
  <2>1. frontier = {} /\ ~hole /\ Sighted = visited
    BY <1>3 DEF Cut, Sighted
  <2>2. ASSUME NEW w \in Border(From) PROVE Clear(w)
    <3>1. Clear(w) \/ w \in Meant(visited)
      BY <1>1, <2>1 DEF GraphOK
    <3>2. QED
      BY <1>1, <2>1, <3>1, EntryWalked, BorderOutside
  <2>3. \A u \in Reach(From) : FileOf[u] = Here => \A w \in aliases[u] : Edge(u, w) # To
    BY <1>1, <2>1 DEF GraphOK
  <2>4. ~Named(From, Sought)
    BY <1>1, <2>2, <2>3, ClearEnough DEF WalkOK
  <2>5. QED
    BY <1>1, <1>3, <2>4, EndsProved DEF LeaveGraph
<1>4. QED
  BY <1>2, <1>3

(* variable-graph.ts, aliasRelation: whatever the files, the aliases and the    *)
(* budget, whatever the graph lacks, "related" and "unrelated" are proved.     *)
THEOREM RelationAlwaysProven == RelationSpec => []RelationIsProven
<1>1. ASSUME RelationInit PROVE RelationIInv
  <2>1. PICK E \in SUBSET (UNION {{v} \X MayAlias[v] : v \in Variables}) :
          aliases = [v \in Variables |-> {w \in MayAlias[v] : <<v, w>> \in E}]
    BY <1>1 DEF RelationInit
  <2>2. WiringOK
    BY <2>1, AliasRelationAssumption DEF WiringOK, AliasRelationAssumption
  <2>3. QED
    BY <1>1, <2>2, AliasRelationAssumption
       DEF RelationInit, RelationIInv, PairOK, WalkOK, IndexOK, GraphOK, RelationIsProven, AliasRelationAssumption
<1>2. ASSUME RelationIInv, [RelationNext]_relating PROVE RelationIInv'
  <2>1. CASE UNCHANGED relating
    <3>1. UNCHANGED <<wiring, pair, forward, said, place, frontier, visited, hole, starts>>
      BY <2>1 DEF relating, walking
    <3>2. UNCHANGED <<WiringOK, PairOK, WalkOK, IndexOK, GraphOK, RelationIsProven>>
      <4>1. /\ From' = From /\ Sought' = Sought /\ To' = To /\ \A v : Clear(v)' <=> Clear(v)
            /\ (\A v : Reach(v)' = Reach(v)) /\ (\A v : Border(v)' = Border(v)) /\ aliases' = aliases
            /\ \A a, b : Named(a, b)' <=> Named(a, b)
        BY <3>1, SameReach, SameQuestion DEF wiring
      <4>2. Sighted' = Sighted /\ \A S : Meant(S)' = Meant(S)
        BY <3>1 DEF Sighted, Meant
      <4>3. WiringOK' <=> WiringOK
        BY <4>1 DEF WiringOK
      <4>4. PairOK' <=> PairOK
        BY <3>1, <4>1 DEF PairOK
      <4>5. WalkOK' <=> WalkOK
        BY <3>1, <4>1, <4>2 DEF WalkOK, Local, Key
      <4>6. IndexOK' <=> IndexOK
        BY <3>1, <4>1, <4>2 DEF IndexOK, Local, Key, Edge, IsKey, Canon
      <4>7. GraphOK' <=> GraphOK
        BY <3>1, <4>1, <4>2 DEF GraphOK, Local, Key, Edge, IsKey
      <4>8. RelationIsProven' <=> RelationIsProven
        BY <3>1, <4>1 DEF RelationIsProven
      <4>9. QED
        BY <4>3, <4>4, <4>5, <4>6, <4>7, <4>8 DEF WiringOK, PairOK, WalkOK, IndexOK, GraphOK, RelationIsProven
    <3>3. QED
      BY <1>2, <3>2 DEF RelationIInv
  <2>2. QED
    BY <1>2, <2>1, AliasRelationAssumption, AskKeeps, BeginKeeps, LevelKeeps, LeaveIndexKeeps, EnterKeeps, LeaveGraphKeeps
       DEF RelationNext
<1>3. RelationIInv => RelationIsProven
  BY DEF RelationIInv
<1>4. QED
  BY <1>1, <1>2, <1>3, PTL DEF RelationSpec

--------------------------------------------------------------------------------
(* Every stage but the last goes on, or fails the call, and names each stage   *)
(* it cuts.                                                                 *)
Stage == Core \/ ReadVariables \/ Ready \/ Ancestors \/ Instances \/ Records \/ Describe \/ Shoot
LEMMA StagesGoOn ==
  ASSUME Stage
  PROVE  ~Answered' /\ (cut \subseteq degraded => (cut \subseteq degraded)')
<1> DEFINE Ends == ~Answered' /\ (cut \subseteq degraded => (cut \subseteq degraded)')
<1>1. ASSUME NEW s, NEW d, NEW e, (s # "done" /\ Goes(s)) \/ Fail(e), Whole \/ Degrade(d, d)
      PROVE  Ends
  BY <1>1 DEF Goes, Fail, Answered, Whole, Degrade
<1>2. ASSUME NEW s, NEW e, NEW next, next # "done", Tolerates(s, e, next)
      PROVE  Ends
  <2>1. CASE e = "limited"
    BY <1>2, <2>1, <1>1 DEF Tolerates
  <2>2. CASE e = "ok"
    BY <1>2, <2>2, <1>1 DEF Tolerates
  <2>3. CASE e # "limited" /\ e # "ok"
    BY <1>2, <2>3, <1>1 DEF Tolerates
  <2> QED  BY <2>1, <2>2, <2>3
<1>3. CASE Core
  BY <1>1, <1>3 DEF Core
<1>4. CASE ReadVariables
  BY <1>1, <1>2, <1>4 DEF ReadVariables
<1>5. CASE Ready
  BY <1>1, <1>5 DEF Ready
<1>6. CASE Ancestors
  BY <1>1, <1>2, <1>6 DEF Ancestors
<1>7. CASE Instances
  BY <1>1, <1>7 DEF Instances
<1>8. CASE Records
  BY <1>1, <1>8 DEF Records, FailsBoth
<1>9. CASE Describe
  BY <1>1, <1>9 DEF Describe
<1>10. CASE Shoot
  BY <1>1, <1>2, <1>10 DEF Shoot
<1> QED  BY <1>3, <1>4, <1>5, <1>6, <1>7, <1>8, <1>9, <1>10 DEF Stage

--------------------------------------------------------------------------------
(* The marker.  It is decided in one step, by what the stages before found.   *)
LEMMA MarkerStep ==
  ASSUME Assemble PROVE PaintsAreDefault'
<1>1. PICK s \in Sizes : reply'.marker \in {FALSE, modeContext}
  BY DEF Assemble
<1>2. UNCHANGED shown
  BY DEF Assemble
<1>3. SUFFICES ASSUME modeContext, NEW b \in shown.bindings, b.path = "paint"
               PROVE  Axes(b) \cap (shown.above \cup shown.within) = {}
  BY <1>1, <1>2 DEF PaintsAreDefault, AtDefault, Axes
<1>4. Pinned = {} /\ (coverageComplete \/ Axes(b) \ Pinned = {})
  BY <1>3 DEF modeContext, unconfirmedDefaultUsed
<1>5. CASE coverageComplete
  BY <1>4, <1>5 DEF Pinned
<1>6. CASE Axes(b) = {}
  BY <1>6
<1> QED  BY <1>4, <1>5, <1>6

(* mode_context is said of paints on positive evidence alone.                *)
THEOREM MarkerOnEvidence == ContextSpec => []PaintsAreDefault
<1>1. ContextInit => PaintsAreDefault
  BY DEF ContextInit, PaintsAreDefault, Answered
<1>2. PaintsAreDefault /\ [ContextNext]_context => PaintsAreDefault'
  <2> SUFFICES ASSUME PaintsAreDefault, [ContextNext]_context PROVE PaintsAreDefault'
    OBVIOUS
  <2>1. CASE Stage
    BY <2>1, StagesGoOn DEF PaintsAreDefault
  <2>2. CASE Assemble
    BY <2>2, MarkerStep
  <2>3. CASE UNCHANGED context
    BY <2>3 DEF PaintsAreDefault, Answered, AtDefault, Axes, context
  <2> QED  BY <2>1, <2>2, <2>3 DEF ContextNext, Stage
<1> QED  BY <1>1, <1>2, PTL DEF ContextSpec

--------------------------------------------------------------------------------
(* The greatest of a set that holds an upper bound, the least of one that      *)
(* holds a lower one.                                                        *)
LEMMA MaxHeld ==
  ASSUME NEW S \in SUBSET Int, NEW m \in S, \A x \in S : x <= m PROVE Max(S) = m
<1> DEFINE P(x) == x \in S /\ \A y \in S : x >= y
<1>1. P(m)
  OBVIOUS
<1>2. \A x : P(x) => x = m
  OBVIOUS
<1> QED  BY <1>1, <1>2 DEF Max

LEMMA MinHeld ==
  ASSUME NEW S \in SUBSET Int, NEW m \in S, \A x \in S : m <= x PROVE Min(S) = m
<1> DEFINE P(x) == x \in S /\ \A y \in S : x =< y
<1>1. P(m)
  OBVIOUS
<1>2. \A x : P(x) => x = m
  OBVIOUS
<1> QED  BY <1>1, <1>2 DEF Min

(* A tree that fits is not cut.                                             *)
LEMMA WholeIfFits ==
  ASSUME NEW node, NEW rest, Depth \in Fitting(node, rest)
  PROVE  FitDepth(node, rest) = Depth
<1>1. {1} \cup Fitting(node, rest) \in SUBSET Int /\ Depth \in {1} \cup Fitting(node, rest)
  BY DEF Fitting
<1>2. \A x \in {1} \cup Fitting(node, rest) : x <= Depth
  BY DesignContextAssumption DEF Fitting
<1> QED  BY <1>1, <1>2, MaxHeld DEF FitDepth

LEMMA AnswerStep ==
  ASSUME cut \subseteq degraded, Assemble
  PROVE  AnswerAccounts' /\ (cut \subseteq degraded)'
<1>1. UNCHANGED <<cut, degraded, have>>
  BY DEF Assemble, Whole
<1> DEFINE weight(s, P) == MapThenSumSet(LAMBDA p : s.part[p], P \cup {"globalVars"})
           depth(s) == FitDepth(s.node, weight(s, have))
           fit(s) == {i \in DOMAIN Forms : s.node[depth(s)] + weight(s, Forms[i]) + s.extra <= SizeBudget}
           whole(s) == Depth \notin Fitting(s.node, weight(s, have)) \/ 1 \notin fit(s)
<1>2. PICK s \in Sizes :
        reply' = IF fit(s) = {}
                 THEN [parts |-> have \cap {"concrete_instances"}, depth |-> depth(s),
                       degraded |-> TRUE, stages |-> degraded, marker |-> FALSE]
                 ELSE [parts |-> Forms[Min(fit(s))], depth |-> depth(s),
                       degraded |-> whole(s), stages |-> degraded, marker |-> modeContext]
  BY DEF Assemble
<1> HIDE DEF weight, depth, fit
<1>3. reply'.stages = degraded /\ reply'.depth = depth(s)
  BY <1>2
<1>4. reply'.parts # have \/ depth(s) < Depth => reply'.degraded
  <2>1. CASE fit(s) = {}
    BY <1>2, <2>1
  <2>2. CASE fit(s) # {} /\ 1 \in fit(s) /\ Depth \in Fitting(s.node, weight(s, have))
    <3>1. depth(s) = Depth
      BY <2>2, WholeIfFits DEF depth
    <3>2. Forms \in Seq(SUBSET have) /\ Forms[1] = have
      BY DEF Forms
    <3>3. fit(s) \in SUBSET Int /\ \A i \in fit(s) : 1 <= i
      BY <3>2 DEF fit
    <3>4. Min(fit(s)) = 1
      BY <2>2, <3>3, MinHeld
    <3> QED  BY <1>2, <2>2, <3>1, <3>2, <3>4, DesignContextAssumption
  <2> QED  BY <1>2, <2>1, <2>2
<1> QED  BY <1>1, <1>3, <1>4 DEF AnswerAccounts

(* What the answer lacks it says.                                           *)
THEOREM AnswerAlwaysAccounts == ContextSpec => []AnswerAccounts
<1> DEFINE Inv == AnswerAccounts /\ cut \subseteq degraded
<1>1. ContextInit => Inv
  BY DEF ContextInit, AnswerAccounts, Answered
<1>2. Inv /\ [ContextNext]_context => Inv'
  <2> SUFFICES ASSUME Inv, [ContextNext]_context PROVE Inv'
    OBVIOUS
  <2>1. CASE Stage
    BY <2>1, StagesGoOn DEF AnswerAccounts
  <2>2. CASE Assemble
    BY <2>2, AnswerStep
  <2>3. CASE UNCHANGED context
    BY <2>3 DEF AnswerAccounts, Answered, context
  <2> QED  BY <2>1, <2>2, <2>3 DEF ContextNext, Stage
<1>3. Inv => AnswerAccounts
  OBVIOUS
<1> QED  BY <1>1, <1>2, <1>3, PTL DEF ContextSpec

--------------------------------------------------------------------------------
(* color-token-resolver.ts: the value of a bound variable.                  *)

(* What is held of the pins is true, and all of it if the path is covered.   *)
PinsOK ==
  /\ pins \in [Levels -> NodePins]
  /\ seen \in {pins, [l \in {NodeLevel} |-> pins[l]]} /\ (covered => seen = pins)

(* Unless a choice on the way is unproved, or rests on an id that the graph    *)
(* may mistake, the walk is where the screen is.                            *)
Unmistaken == stage = "index" \/ NoneMistaken
Proved == \A c \in DOMAIN applied : applied[c] # "unverifiable"
HoppingOK ==
  stage \in {"index", "graph"} =>
    /\ bound \in Vars
    /\ mode = Nothing => reached = bound /\ applied = [c \in {} |-> Nothing]
    /\ mode # Nothing => There(reached) /\ mode \in ModesOf[CollOf[reached]]
    /\ \A c \in DOMAIN applied : applied[c] = Source(c, ModeOf(c))
    /\ mode # Nothing /\ Proved /\ Unmistaken => reached \in Behind(bound) /\ mode = ModeShown(CollOf[reached])
ModesIInv == PinsOK /\ HoppingOK /\ EffectiveIsTrue /\ (answer # Nothing => stage = "done")

(* The highest of the levels.                                               *)
LEMMA HighestLevel ==
  ASSUME NEW L \in SUBSET Levels, L # {}
  PROVE  \E l \in L : (\A k \in L : k <= l) /\ l = CHOOSE x \in L : \A k \in L : k <= x
<1>0. NodeLevel \in Nat
  BY ModeResolutionAssumption DEF ModeResolutionAssumption
<1>1. {NodeLevel - l : l \in L} \in SUBSET Nat /\ {NodeLevel - l : l \in L} # {}
  <2>1. ASSUME NEW l \in L PROVE NodeLevel - l \in Nat
    BY <1>0 DEF Levels
  <2>2. QED
    BY <2>1
<1>2. PICK n \in {NodeLevel - l : l \in L} : \A m \in {NodeLevel - l : l \in L} : n <= m
  BY <1>1, LeastNatural
<1>3. PICK l \in L : n = NodeLevel - l
  BY <1>2
<1>4. ASSUME NEW k \in L PROVE k <= l
  <2>1. n <= NodeLevel - k /\ k \in Nat /\ l \in Nat
    BY <1>0, <1>2 DEF Levels
  <2>2. QED
    BY <1>0, <1>3, <2>1
<1>5. ASSUME NEW x \in L, \A k \in L : k <= x PROVE x = l
  <2>1. x <= l /\ l <= x /\ x \in Nat /\ l \in Nat
    BY <1>0, <1>4, <1>5 DEF Levels
  <2>2. QED
    BY <2>1
<1>6. QED
  BY <1>4, <1>5

(* Held is the pins of the levels that were seen.                           *)
LEMMA HeldIs ==
  ASSUME PinsOK
  PROVE  /\ \A e \in Held : /\ e.coll \in Colls /\ e.level \in Levels /\ pins[e.level] \in NodePins
                            /\ pins[e.level][e.coll] # Nothing
                            /\ e.form = pins[e.level][e.coll].form /\ e.mode = pins[e.level][e.coll].mode
                            /\ e.level = NodeLevel \/ seen = pins
         /\ \A c \in Colls, l \in Levels :
              (seen = pins \/ l = NodeLevel) /\ pins[l][c] # Nothing =>
                [coll |-> c, form |-> pins[l][c].form, mode |-> pins[l][c].mode, level |-> l] \in Held
<1>0. NodeLevel \in Levels
  BY ModeResolutionAssumption DEF Levels, ModeResolutionAssumption
<1>1. DOMAIN seen \subseteq Levels /\ \A l \in DOMAIN seen : seen[l] = pins[l] /\ pins[l] \in NodePins
  BY <1>0 DEF PinsOK
<1>2. (seen = pins => DOMAIN seen = Levels) /\ (seen # pins => DOMAIN seen = {NodeLevel})
  BY DEF PinsOK
<1>3. NodeLevel \in DOMAIN seen
  BY <1>0, <1>2
<1>5. ASSUME NEW e \in Held
      PROVE  /\ e.coll \in Colls /\ e.level \in Levels /\ pins[e.level] \in NodePins
             /\ pins[e.level][e.coll] # Nothing
             /\ e.form = pins[e.level][e.coll].form /\ e.mode = pins[e.level][e.coll].mode
             /\ e.level = NodeLevel \/ seen = pins
  <2>1. PICK l \in DOMAIN seen : e \in PinsAt(l)
    BY DEF Held
  <2>2. PICK c \in Colls : /\ seen[l][c] # Nothing
                          /\ e = [coll |-> c, form |-> seen[l][c].form, mode |-> seen[l][c].mode, level |-> l]
    BY <2>1 DEF PinsAt
  <2>3. QED
    BY <1>1, <1>2, <2>2
<1>6. ASSUME NEW c \in Colls, NEW l \in Levels, seen = pins \/ l = NodeLevel, pins[l][c] # Nothing
      PROVE  [coll |-> c, form |-> pins[l][c].form, mode |-> pins[l][c].mode, level |-> l] \in Held
  <2>1. l \in DOMAIN seen /\ seen[l] = pins[l]
    BY <1>1, <1>2, <1>3, <1>6
  <2>2. [coll |-> c, form |-> pins[l][c].form, mode |-> pins[l][c].mode, level |-> l] \in PinsAt(l)
    BY <1>6, <2>1 DEF PinsAt
  <2>3. QED
    BY <2>1, <2>2 DEF Held
<1>7. QED
  BY <1>5, <1>6

(* The walk asks for a collection of the index, or of the graph.            *)
Asks(c) == c \in Colls /\ stage \in {"index", "graph"} /\ (stage = "index" => \E v \in Index : CollOf[v] = c)

(* What a pin that is held says of whose it is.                             *)
LEMMA HeldForm ==
  ASSUME PinsOK, NEW e \in Held
  PROVE  e.coll \in Colls /\ (e.form = Plain <=> e.coll \in Own)
<1>1. /\ e.coll \in Colls /\ pins[e.level] \in NodePins
      /\ pins[e.level][e.coll] # Nothing /\ e.form = pins[e.level][e.coll].form
  BY HeldIs
<1>2. QED
  BY <1>1, IdsAssumption DEF IdsAssumption

(* In the one file an id, or a key, is of one collection.                   *)
LEMMA OneCollection ==
  ASSUME PinsOK, NEW e \in Held, NEW f \in Held, LibKey(e) = LibKey(f) \/ IdOf(e) = IdOf(f)
  PROVE  e.coll = f.coll
<1>1. /\ e.form = Plain <=> e.coll \in Own
      /\ f.form = Plain <=> f.coll \in Own
  BY HeldForm
<1>2. CASE e.form = Plain
  <2>1. f.form = Plain /\ LocalId[e.coll] = LocalId[f.coll]
    BY <1>2 DEF LibKey, IdOf, Id
  <2>2. QED
    BY <1>1, <1>2, <2>1, IdsAssumption DEF IdsAssumption
<1>3. CASE e.form # Plain
  BY <1>3 DEF LibKey, IdOf, Id
<1>4. QED
  BY <1>2, <1>3

(* A pin that speaks for c is one of c, and none that is held is nearer.    *)
LEMMA SpeakerIsNearest ==
  ASSUME PinsOK, NEW c, Asks(c), Multi(c), stage = "index" \/ ~ Mistakable(c), NEW e \in For(c)
  PROVE  e \in Held /\ e.coll = c /\ \A f \in Held : f.coll = c => f.level <= e.level
<1>0. e \in Held /\ (stage # "index" => e \in ByKey(Held))
  BY DEF For, Exact, ByKey
<1>1. e.coll = c
  <2>1. CASE stage = "index"
    BY <2>1 DEF For
  <2>2. CASE stage # "index" /\ LibKey(e) = <<c, FALSE>>
    BY <2>2 DEF LibKey
  <2>3. CASE stage # "index" /\ IdOf(e) = Id(c, Suffix[c])
    <3>1. CASE e.form # Plain
      BY <2>3, <3>1 DEF IdOf, Id
    <3>2. CASE e.form = Plain
      <4>1. Suffix[c] = Plain /\ LocalId[e.coll] = LocalId[c]
        BY <2>3, <3>2 DEF IdOf, Id
      <4>2. e.coll \in Own /\ e.level \in Levels /\ pins[e.level][e.coll] # Nothing
        BY <1>0, <3>2, HeldForm, HeldIs
      <4>3. QED
        BY <2>3, <4>1, <4>2 DEF Mistakable
    <3>3. QED
      BY <3>1, <3>2
  <2>4. QED
    BY <2>1, <2>2, <2>3 DEF For
<1>2. ASSUME NEW f \in Held, f.coll = c PROVE ~ Nearer(e, f)
  <2>1. CASE stage = "index"
    <3>1. /\ pins[e.level] \in NodePins /\ pins[f.level] \in NodePins
          /\ pins[e.level][c] # Nothing /\ pins[f.level][c] # Nothing
          /\ e.form = pins[e.level][c].form /\ f.form = pins[f.level][c].form
      BY <1>0, <1>1, <1>2, HeldIs
    <3>2. e.form = f.form
      BY <2>1, <3>1, IdsAssumption DEF Asks, IdsAssumption
    <3>3. IdOf(e) = IdOf(f)
      BY <1>1, <1>2, <3>2 DEF IdOf
    <3>4. QED
      BY <1>2, <2>1, <3>3 DEF For, Exact
  <2>2. CASE stage # "index"
    <3>1. (e.form = Plain) <=> (f.form = Plain)
      BY <1>0, <1>1, <1>2, HeldForm
    <3>2. LibKey(e) = LibKey(f)
      BY <1>1, <1>2, <3>1 DEF LibKey
    <3>3. QED
      BY <1>0, <1>2, <2>2, <3>2 DEF ByKey
  <2>3. QED
    BY <2>1, <2>2
<1>3. ASSUME NEW f \in Held, f.coll = c PROVE f.level <= e.level
  <2>1. e.level \in Levels /\ f.level \in Levels
    BY <1>0, HeldIs
  <2>2. QED
    BY <1>2, <1>3, <2>1 DEF Nearer, Levels
<1>4. QED
  BY <1>0, <1>1, <1>3

(* If any held pin is of c, one speaks for it.                              *)
LEMMA SomeoneSpeaks ==
  ASSUME PinsOK, NEW c, Asks(c), Multi(c), stage = "index" \/ ~ Mistakable(c), NEW g \in Held, g.coll = c
  PROVE  For(c) # {}
<1>1. DEFINE L == {f.level : f \in {h \in Held : h.coll = c}}
<1>2. L \in SUBSET Levels /\ L # {}
  BY HeldIs
<1>3. PICK l \in L : \A k \in L : k <= l
  BY <1>2, HighestLevel
<1>4. PICK e \in Held : e.coll = c /\ e.level = l
  BY <1>3
<1>5. ASSUME NEW f \in Held, LibKey(e) = LibKey(f) \/ IdOf(e) = IdOf(f) PROVE ~ Nearer(e, f)
  <2>1. f.coll = c
    BY <1>4, <1>5, OneCollection
  <2>2. f.level \in L
    BY <2>1
  <2>3. f.level <= e.level /\ f.level \in Levels /\ e.level \in Levels
    BY <1>2, <1>3, <1>4, <2>2
  <2>4. QED
    BY <2>3 DEF Nearer, Levels
<1>6. CASE stage = "index"
  <2>1. e \in Exact(Held)
    BY <1>4, <1>5 DEF Exact
  <2>2. QED
    BY <1>4, <1>6, <2>1 DEF For
<1>7. CASE stage # "index"
  <2>1. e \in ByKey(Held)
    BY <1>4, <1>5 DEF ByKey
  <2>2. CASE e.form = Plain
    <3>1. Suffix[c] = Plain
      <4>1. c \in Own /\ e.level \in Levels /\ pins[e.level][c] # Nothing
        BY <1>4, <2>2, HeldForm, HeldIs
      <4>2. QED
        BY <1>7, <4>1 DEF Mistakable
    <3>2. IdOf(e) = Id(c, Suffix[c])
      BY <1>4, <2>2, <3>1 DEF IdOf
    <3>3. QED
      BY <1>7, <2>1, <3>2 DEF For
  <2>3. CASE e.form # Plain
    <3>1. LibKey(e) = <<c, FALSE>>
      BY <1>4, <2>3 DEF LibKey
    <3>2. QED
      BY <1>7, <2>1, <3>1 DEF For
  <2>4. QED
    BY <2>2, <2>3
<1>8. QED
  BY <1>6, <1>7

(* A choice of a mode that is not unverifiable is the one on screen, if the id *)
(* it rests on is not mistaken.                                             *)
LEMMA ChosenIsShown ==
  ASSUME PinsOK, NEW c, Asks(c), Multi(c) => Source(c, ModeOf(c)) # "unverifiable",
         stage = "index" \/ ~ Mistakable(c)
  PROVE  ModeOf(c) = ModeShown(c)
<1>0. Default[c] \in ModesOf[c]
  BY ModeResolutionAssumption DEF Asks, ModeResolutionAssumption
<1>1. CASE ~ Multi(c)
  <2>1. \A m \in ModesOf[c] : m = Default[c]
    BY <1>0, <1>1 DEF Multi
  <2>2. ModeOf(c) = Default[c]
    BY <2>1 DEF ModeOf, Picked
  <2>3. QED
    BY <1>1, <2>2 DEF ModeShown
<1>2. CASE Multi(c) /\ For(c) = {}
  <2>1. seen = pins
    BY <1>2 DEF Source, PinsOK
  <2>2. \A l \in Levels : pins[l][c] = Nothing
    <3>1. ASSUME NEW l \in Levels, pins[l][c] # Nothing PROVE FALSE
      <4>1. [coll |-> c, form |-> pins[l][c].form, mode |-> pins[l][c].mode, level |-> l] \in Held
        BY <2>1, <3>1, HeldIs DEF Asks
      <4>2. QED
        BY <1>2, <4>1, SomeoneSpeaks
    <3>2. QED
      BY <3>1
  <2>3. Nearest(c) = Default[c]
    BY <2>2 DEF Nearest
  <2>4. ModeOf(c) = Default[c]
    BY <1>2 DEF ModeOf, Picked
  <2>5. QED
    BY <1>2, <2>3, <2>4 DEF ModeShown
<1>3. CASE Multi(c) /\ For(c) # {}
  <2>1. PICK e \in For(c) : e.mode = ModeOf(c)
    BY <1>3 DEF Source
  <2>2. e \in Held /\ e.coll = c /\ \A f \in Held : f.coll = c => f.level <= e.level
    BY <1>3, SpeakerIsNearest
  <2>3. /\ e.level \in Levels /\ pins[e.level][c] # Nothing /\ e.mode = pins[e.level][c].mode
        /\ e.level = NodeLevel \/ seen = pins
    BY <2>2, HeldIs
  <2>4. DEFINE L == {l \in Levels : pins[l][c] # Nothing}
  <2>5. e.level \in L
    BY <2>3
  <2>6. \A k \in L : k <= e.level
    <3>1. ASSUME NEW k \in L PROVE k <= e.level
      <4>1. CASE e.level = NodeLevel
        BY <4>1, ModeResolutionAssumption DEF Levels, ModeResolutionAssumption
      <4>2. CASE seen = pins
        <5>1. [coll |-> c, form |-> pins[k][c].form, mode |-> pins[k][c].mode, level |-> k] \in Held
          BY <4>2, HeldIs DEF Asks
        <5>2. QED
          BY <2>2, <5>1
      <4>3. QED
        BY <2>3, <4>1, <4>2
    <3>2. QED
      BY <3>1
  <2>7. (CHOOSE x \in L : \A k \in L : k <= x) = e.level
    <3>1. PICK l \in L : (\A k \in L : k <= l) /\ l = CHOOSE x \in L : \A k \in L : k <= x
      BY <2>5, HighestLevel
    <3>2. l <= e.level /\ e.level <= l /\ l \in Levels /\ e.level \in Levels
      BY <2>5, <2>6, <3>1
    <3>3. l = e.level
      BY <3>2 DEF Levels
    <3>4. QED
      BY <3>1, <3>3
  <2>8. Nearest(c) = pins[e.level][c].mode
    BY <2>5, <2>7 DEF Nearest
  <2>9. QED
    BY <1>3, <2>1, <2>3, <2>8 DEF ModeShown
<1>4. QED
  BY <1>1, <1>2, <1>3

(* What is behind a variable on screen: itself, and what a member's value is  *)
(* an alias of.                                                             *)
LEMMA BehindStarts == ASSUME NEW v \in Vars PROVE v \in Behind(v)
  BY DEF Behind
LEMMA BehindCloses ==
  ASSUME NEW v \in Vars, NEW u \in Behind(v), NEW m, m = ModeShown(CollOf[u]), m # Unmapped,
         IsAlias(Val[u][m]), Val[u][m].alias \in Vars
  PROVE  Val[u][m].alias \in Behind(v)
<1>1. ASSUME NEW S \in SUBSET Vars, v \in S, Follows(S) PROVE Val[u][m].alias \in S
  <2>1. u \in S
    BY <1>1 DEF Behind
  <2>2. QED
    BY <1>1, <2>1 DEF Follows
<1>2. QED
  BY <1>1 DEF Behind

LEMMA ModeIsOne == ASSUME NEW c \in Colls PROVE ModeOf(c) \in ModesOf[c]
  BY ModeResolutionAssumption DEF ModeOf, Picked, ModeResolutionAssumption

(* What a step that leaves the scene and what was seen alone leaves alone.    *)
LEMMA SameScreen ==
  UNCHANGED pins => /\ \A c : ModeShown(c)' = ModeShown(c)
                    /\ \A v : Behind(v)' = Behind(v)
                    /\ \A v, x : Shows(v, x)' <=> Shows(v, x)
                    /\ UNCHANGED bound => (NoneMistaken' <=> NoneMistaken)
<1>1. SUFFICES ASSUME UNCHANGED pins
               PROVE  /\ \A c : ModeShown(c)' = ModeShown(c)
                      /\ \A v : Behind(v)' = Behind(v)
                      /\ \A v, x : Shows(v, x)' <=> Shows(v, x)
                      /\ UNCHANGED bound => (NoneMistaken' <=> NoneMistaken)
  OBVIOUS
<1>2. ASSUME NEW c PROVE ModeShown(c)' = ModeShown(c)
  BY <1>1 DEF ModeShown, Nearest, Multi
<1>3. ASSUME NEW S PROVE Follows(S)' <=> Follows(S)
  BY <1>2 DEF Follows
<1>4. ASSUME NEW v PROVE Behind(v)' = Behind(v)
  BY <1>3 DEF Behind
<1>5. ASSUME NEW v, NEW x PROVE Shows(v, x)' <=> Shows(v, x)
  BY <1>2, <1>4 DEF Shows
<1>6. ASSUME UNCHANGED bound PROVE NoneMistaken' <=> NoneMistaken
  <2>1. \A c : Mistakable(c)' <=> Mistakable(c)
    BY <1>1 DEF Mistakable
  <2>2. Behind(bound)' = Behind(bound)
    BY <1>3, <1>6 DEF Behind
  <2>3. QED
    BY <2>1, <2>2 DEF NoneMistaken
<1>7. QED
  BY <1>2, <1>4, <1>5, <1>6
LEMMA SameChoice ==
  UNCHANGED <<seen, covered, stage>> => \A c : /\ ModeOf(c)' = ModeOf(c) /\ For(c)' = For(c)
                                               /\ \A m : Source(c, m)' = Source(c, m)
<1>1. SUFFICES ASSUME UNCHANGED <<seen, covered, stage>>, NEW c
               PROVE  /\ ModeOf(c)' = ModeOf(c) /\ For(c)' = For(c)
                      /\ \A m : Source(c, m)' = Source(c, m)
  OBVIOUS
<1>2. Held' = Held
  BY <1>1 DEF Held, PinsAt
<1>3. For(c)' = For(c)
  BY <1>1, <1>2 DEF For, Exact, ByKey, LibKey, IdOf, Id, Nearer
<1>4. QED
  BY <1>1, <1>3 DEF ModeOf, Picked, Source

(* The walk for a token begins at the variable, in the index or in the graph. *)
LEMMA ResolvingKeeps ==
  ASSUME ModesIInv, answer = Nothing, NEW half \in {"index", "graph"}, NEW v \in Vars, Resolving(half, v),
         bound' = v, UNCHANGED <<pins, seen, covered, answer>>
  PROVE  ModesIInv'
  BY DEF ModesIInv, PinsOK, HoppingOK, Resolving, EffectiveIsTrue
LEMMA NotToldKeeps == ASSUME ModesIInv, stage \in {"index", "graph"}, NotTold PROVE ModesIInv'
<1>1. answer = Nothing /\ bound \in Vars
  BY DEF ModesIInv, HoppingOK
<1>2. CASE stage = "index"
  BY <1>1, <1>2, ResolvingKeeps DEF NotTold, scene
<1>3. CASE stage # "index"
  BY <1>1, <1>3 DEF NotTold, scene, ModesIInv, PinsOK, HoppingOK, EffectiveIsTrue
<1>4. QED
  BY <1>2, <1>3

(* recordApplied, at a collection that is asked for.                        *)
LEMMA AppliedIs ==
  ASSUME PinsOK, NEW c, Asks(c), \A d \in DOMAIN applied : applied[d] = Source(d, ModeOf(d)),
         NEW a, a = Applied(applied, c, ModeOf(c))
  PROVE  /\ \A d \in DOMAIN a : a[d] = Source(d, ModeOf(d))
         /\ (\A d \in DOMAIN a : a[d] # "unverifiable") => Proved
         /\ (\A d \in DOMAIN a : a[d] # "unverifiable") /\ (stage = "index" \/ ~ Mistakable(c)) =>
              ModeOf(c) = ModeShown(c)
<1>1. CASE Multi(c) /\ c \notin DOMAIN applied
  <2>1. DOMAIN a = DOMAIN applied \cup {c} /\ a[c] = Source(c, ModeOf(c)) /\ \A d \in DOMAIN applied : a[d] = applied[d]
    BY <1>1 DEF Applied
  <2>2. QED
    BY <2>1, ChosenIsShown DEF Proved
<1>2. CASE ~ (Multi(c) /\ c \notin DOMAIN applied)
  <2>1. a = applied
    BY <1>2 DEF Applied
  <2>2. QED
    BY <1>2, <2>1, ChosenIsShown DEF Proved
<1>3. QED
  BY <1>1, <1>2

LEMMA ThereAsks ==
  ASSUME stage \in {"index", "graph"}, NEW v, There(v) PROVE v \in Vars /\ Asks(CollOf[v])
  BY ModeResolutionAssumption DEF There, Asks, ModeResolutionAssumption

LEMMA TopModeKeeps == ASSUME ModesIInv, TopMode PROVE ModesIInv'
<1>1. CASE NotTold
  BY <1>1, NotToldKeeps DEF TopMode
<1>2. CASE ~ NotTold
  <2>1. /\ stage \in {"index", "graph"} /\ mode = Nothing /\ There(reached)
        /\ mode' = ModeOf(CollOf[reached]) /\ applied' = Applied(applied, CollOf[reached], ModeOf(CollOf[reached]))
        /\ UNCHANGED <<scene, seen, covered, attempt, stage, bound, reached, hops, answer>>
    BY <1>2 DEF TopMode
  <2>2. /\ PinsOK /\ answer = Nothing /\ bound \in Vars /\ reached = bound
        /\ \A c \in DOMAIN applied : applied[c] = Source(c, ModeOf(c))
    BY <2>1 DEF ModesIInv, HoppingOK
  <2>3. reached \in Vars /\ Asks(CollOf[reached])
    BY <2>1, ThereAsks
  <2>4. mode' \in ModesOf[CollOf[reached]]
    BY <2>1, <2>3, ModeIsOne DEF Asks
  <2>5. /\ \A d \in DOMAIN applied' : applied'[d] = Source(d, ModeOf(d))
        /\ Proved' /\ (stage = "index" \/ ~ Mistakable(CollOf[reached])) => mode' = ModeShown(CollOf[reached])
    BY <2>1, <2>2, <2>3, AppliedIs DEF Proved
  <2>6. reached \in Behind(bound)
    BY <2>2, BehindStarts
  <2>7. UNCHANGED <<pins, seen, covered, stage, bound, reached, answer>>
    BY <2>1 DEF scene
  <2>8. (\A c : ModeShown(c)' = ModeShown(c)) /\ Behind(bound)' = Behind(bound) /\ (Unmistaken' <=> Unmistaken)
    BY <2>7, SameScreen DEF Unmistaken
  <2>9. \A c : ModeOf(c)' = ModeOf(c) /\ \A m : Source(c, m)' = Source(c, m)
    BY <2>7, SameChoice
  <2>10. HoppingOK'
    <3>1. mode' # Nothing
      BY <2>3, <2>4, ModeResolutionAssumption DEF Asks, ModeResolutionAssumption
    <3>2. There(reached)'
      BY <2>1, <2>7 DEF There
    <3>3. Unmistaken => stage = "index" \/ ~ Mistakable(CollOf[reached])
      BY <2>6 DEF Unmistaken, NoneMistaken
    <3>4. QED
      BY <2>2, <2>4, <2>5, <2>6, <2>7, <2>8, <2>9, <3>1, <3>2, <3>3 DEF HoppingOK
  <2>11. PinsOK' /\ EffectiveIsTrue'
    BY <2>2, <2>7 DEF PinsOK, EffectiveIsTrue
  <2>12. QED
    BY <2>2, <2>7, <2>10, <2>11 DEF ModesIInv
<1>3. QED
  BY <1>1, <1>2

LEMMA HopKeeps == ASSUME ModesIInv, Hop PROVE ModesIInv'
<1>1. CASE NotTold
  BY <1>1, NotToldKeeps DEF Hop
<1>2. CASE ~ NotTold
  <2> DEFINE w == Value.alias
             c == CollOf[w]
             inherited == Picked(c) = {} /\ c = CollOf[reached]
  <2>1. /\ stage \in {"index", "graph"} /\ mode # Nothing /\ IsAlias(Value) /\ There(w) /\ reached' = w
        /\ mode' = (IF inherited THEN mode ELSE ModeOf(c))
        /\ applied' = (IF inherited THEN applied ELSE Applied(applied, c, ModeOf(c)))
        /\ UNCHANGED <<scene, seen, covered, attempt, stage, bound, answer>>
    BY <1>2 DEF Hop
  <2>2. /\ PinsOK /\ answer = Nothing /\ bound \in Vars
        /\ There(reached) /\ mode \in ModesOf[CollOf[reached]]
        /\ \A d \in DOMAIN applied : applied[d] = Source(d, ModeOf(d))
        /\ Proved /\ Unmistaken => reached \in Behind(bound) /\ mode = ModeShown(CollOf[reached])
    BY <2>1 DEF ModesIInv, HoppingOK
  <2>3. w \in Vars /\ Asks(c) /\ reached \in Vars /\ Asks(CollOf[reached])
    BY <2>1, <2>2, ThereAsks
  <2>4. Proved /\ Unmistaken => w \in Behind(bound) /\ (stage = "index" \/ ~ Mistakable(c))
    <3>1. mode # Unmapped
      BY <2>2, <2>3, ModeResolutionAssumption DEF Asks, ModeResolutionAssumption
    <3>2. Proved /\ Unmistaken => w \in Behind(bound)
      BY <2>1, <2>2, <2>3, <3>1, BehindCloses DEF Value
    <3>3. QED
      BY <3>2 DEF Unmistaken, NoneMistaken
  <2>5. /\ mode' \in ModesOf[c]
        /\ \A d \in DOMAIN applied' : applied'[d] = Source(d, ModeOf(d))
        /\ Proved' => Proved
        /\ Proved' /\ Unmistaken => mode' = ModeShown(c)
    <3>1. CASE inherited
      BY <2>1, <2>2, <3>1 DEF Proved
    <3>2. CASE ~ inherited
      <4>1. mode' = ModeOf(c) /\ applied' = Applied(applied, c, ModeOf(c))
        BY <2>1, <3>2
      <4>2. ModeOf(c) \in ModesOf[c]
        BY <2>3, ModeIsOne DEF Asks
      <4> HIDE DEF c, w
      <4>3. /\ \A d \in DOMAIN applied' : applied'[d] = Source(d, ModeOf(d))
            /\ Proved' => Proved
            /\ Proved' /\ (stage = "index" \/ ~ Mistakable(c)) => ModeOf(c) = ModeShown(c)
        BY <2>2, <2>3, <4>1, AppliedIs DEF Proved
      <4>4. QED
        BY <2>4, <4>1, <4>2, <4>3
    <3>3. QED
      BY <3>1, <3>2
  <2> HIDE DEF w, c, inherited
  <2>6. c = CollOf[w]
    BY DEF c
  <2>7. UNCHANGED <<pins, seen, covered, stage, bound, answer>>
    BY <2>1 DEF scene
  <2>8. (\A d : ModeShown(d)' = ModeShown(d)) /\ Behind(bound)' = Behind(bound) /\ (Unmistaken' <=> Unmistaken)
    BY <2>7, SameScreen DEF Unmistaken
  <2>9. \A d : ModeOf(d)' = ModeOf(d) /\ \A m : Source(d, m)' = Source(d, m)
    BY <2>7, SameChoice
  <2>10. HoppingOK'
    <3>1. mode' # Nothing
      BY <2>3, <2>5, ModeResolutionAssumption DEF Asks, ModeResolutionAssumption
    <3>2. There(reached)'
      BY <2>1, <2>7 DEF There
    <3>3. QED
      BY <2>1, <2>2, <2>4, <2>5, <2>6, <2>7, <2>8, <2>9, <3>1, <3>2 DEF HoppingOK
  <2>11. PinsOK' /\ EffectiveIsTrue'
    BY <2>2, <2>7 DEF PinsOK, EffectiveIsTrue
  <2>12. QED
    BY <2>2, <2>7, <2>10, <2>11 DEF ModesIInv
<1>3. QED
  BY <1>1, <1>2

LEMMA LiteralKeeps == ASSUME ModesIInv, Literal PROVE ModesIInv'
<1>1. CASE NotTold
  BY <1>1, NotToldKeeps DEF Literal
<1>2. CASE ~ NotTold
  <2>1. PICK default : /\ stage \in {"index", "graph"} /\ mode # Nothing /\ ~ IsAlias(Value)
                       /\ \/ applied = [c \in {} |-> Nothing]
                             /\ answer' = [value |-> Value, default |-> Nothing, source |-> "none", from |-> stage]
                          \/ answer' = [value |-> IF Composite(applied) = "unverifiable" THEN Nothing ELSE Value,
                                        default |-> default, source |-> Composite(applied), from |-> stage]
                       /\ stage' = "done" /\ UNCHANGED <<scene, seen, covered, attempt, hopping>>
    BY <1>2 DEF Literal
  <2>2. /\ PinsOK /\ bound \in Vars /\ There(reached) /\ mode \in ModesOf[CollOf[reached]]
        /\ Proved /\ Unmistaken => reached \in Behind(bound) /\ mode = ModeShown(CollOf[reached])
    BY <2>1 DEF ModesIInv, HoppingOK
  <2>3. answer'.from = stage /\ (answer'.value # Nothing => Proved /\ answer'.value = Value)
    <3>1. applied = [c \in {} |-> Nothing] => Proved
      BY DEF Proved
    <3>2. Composite(applied) # "unverifiable" => Proved
      BY DEF Composite, Proved
    <3>3. QED
      BY <2>1, <3>1, <3>2
  <2>4. Proved /\ Unmistaken => Shows(bound, Value)
    <3>1. reached \in Vars /\ Asks(CollOf[reached])
      BY <2>1, <2>2, ThereAsks
    <3>2. mode # Unmapped
      BY <2>2, <3>1, ModeResolutionAssumption DEF Asks, ModeResolutionAssumption
    <3>3. QED
      BY <2>1, <2>2, <3>2 DEF Shows, Value
  <2>5. UNCHANGED <<pins, seen, covered, bound>>
    BY <2>1 DEF scene, hopping
  <2>6. (\A x : Shows(bound, x)' <=> Shows(bound, x)) /\ (NoneMistaken' <=> NoneMistaken)
    BY <2>5, SameScreen
  <2>7. EffectiveIsTrue'
    BY <2>3, <2>4, <2>5, <2>6 DEF EffectiveIsTrue, Unmistaken
  <2>8. QED
    BY <2>1, <2>2, <2>5, <2>7 DEF ModesIInv, PinsOK, HoppingOK
<1>3. QED
  BY <1>1, <1>2

(* color-token-resolver.ts, variable-graph.ts, mode-resolve.ts: whatever the    *)
(* pins, the modes, the aliases, the levels that were seen and the rows that    *)
(* are missing, a value that is stated is the one on screen; one of the graph,   *)
(* if no plain id on the way is that of two collections.                        *)
THEOREM EffectiveAlwaysTrue == ModesSpec => []EffectiveIsTrue
<1>1. ASSUME ModesInit PROVE ModesIInv
  BY <1>1 DEF ModesInit, ModesIInv, PinsOK, HoppingOK, EffectiveIsTrue
<1>2. ASSUME ModesIInv, [ModesNext]_choosing PROVE ModesIInv'
  <2>1. CASE UNCHANGED choosing
    <3>1. UNCHANGED <<pins, seen, covered, stage, bound, reached, mode, applied, answer>>
      BY <2>1 DEF choosing, scene, hopping
    <3>2. /\ \A c : ModeShown(c)' = ModeShown(c)
          /\ \A v : Behind(v)' = Behind(v)
          /\ \A v, x : Shows(v, x)' <=> Shows(v, x)
          /\ NoneMistaken' <=> NoneMistaken
      BY <3>1, SameScreen
    <3>3. \A c : ModeOf(c)' = ModeOf(c) /\ \A m : Source(c, m)' = Source(c, m)
      BY <3>1, SameChoice
    <3>4. PinsOK' /\ EffectiveIsTrue'
      BY <1>2, <3>1, <3>2 DEF ModesIInv, PinsOK, EffectiveIsTrue
    <3>5. HoppingOK'
      BY <1>2, <3>1, <3>2, <3>3 DEF ModesIInv, HoppingOK, There, Proved, Unmistaken
    <3>6. QED
      BY <1>2, <3>1, <3>4, <3>5 DEF ModesIInv
  <2>2. CASE Discover
    <3>1. /\ answer = Nothing /\ PinsOK /\ stage' \in {"discover", "bind"} /\ UNCHANGED <<pins, answer>>
          /\ seen' = pins \/ UNCHANGED <<seen, covered>>
      BY <1>2, <2>2 DEF Discover, Discovered, MissingTarget, NotDiscovered, SameVersion, scene, ModesIInv
    <3>2. QED
      BY <3>1 DEF ModesIInv, PinsOK, HoppingOK, EffectiveIsTrue
  <2>3. ASSUME NEW v \in Vars, Bind(v) PROVE ModesIInv'
    <3>1. answer = Nothing /\ UNCHANGED <<pins, seen, covered, answer>> /\ bound' = v
      BY <1>2, <2>3 DEF Bind, ModesIInv, scene
    <3>2. PICK half \in {"index", "graph"} : Resolving(half, v)
      BY <2>3 DEF Bind
    <3>3. QED
      BY <1>2, <3>1, <3>2, ResolvingKeeps
  <2>4. QED
    BY <1>2, <2>1, <2>2, <2>3, TopModeKeeps, HopKeeps, LiteralKeeps DEF ModesNext
<1>3. ModesIInv => EffectiveIsTrue
  BY DEF ModesIInv
<1>4. QED
  BY <1>1, <1>2, <1>3, PTL DEF ModesSpec

--------------------------------------------------------------------------------
(* resolveAnchors.                                                          *)

(* What the locals of a request are.                                        *)
Asked == Ids \cup {Scope}
ProjectionTask == [ids : SUBSET Ids, depth : Int, limit : Int]
FetchTask == [ids : SUBSET Asked, last : BOOLEAN]
Types == {TypeOf[r][i] : r \in Revisions, i \in Ids}
Answers == Asked \X (Revisions \cup {NotYet})
Request ==
  [phase : Phases, scoped : BOOLEAN, typed : BOOLEAN, oldest : Nat,
   work : Seq(ProjectionTask \cup FetchTask), answers : SUBSET Answers, depth : Int,
   calls : 0..CallCap, version : Revisions \cup {NotYet}, stop : Reasons \cup {NotYet}, proven : BOOLEAN,
   member : [Ids -> Verdicts], meta : [Ids -> Types \cup {NotYet}],
   found : SUBSET Ids, present : SUBSET Ids, absent : SUBSET Ids, skipped : SUBSET Ids,
   deferred : SUBSET Ids,
   attempted : SUBSET ((Revisions \cup {NotYet}) \X Int \X SUBSET Ids)]

IdsOf(w) == UNION {w[k].ids : k \in DOMAIN w}
Rounded(w) == w # <<>> => w[Len(w)].last
IdsIn(A) == {a[1] : a \in A}
Heard(d) == IdsIn(d.answers)

(* The requests still to be sent fit the phase, halves end with a whole, and without a version a      *)
(* scoped request has nothing to ask for.                                   *)
WorkFits(d) ==
  /\ d.phase \in {"project", "deepen"} => d.work \in Seq(ProjectionTask)
  /\ d.phase \in {"check", "type", "enrich"} =>
       d.work \in Seq(FetchTask) /\ Rounded(d.work)
  /\ d.phase \in {"project", "check", "deepen"} => d.scoped
  /\ ~d.scoped => d.version = NotYet
  /\ d.scoped /\ d.version = NotYet /\ d.phase \in {"check", "type", "enrich"} => IdsOf(d.work) = {}

(* The revisions an answer may come from: the version, once there is one;    *)
(* without a scope, those since the oldest that was remembered during the    *)
(* request.  An answer that left the node out is of none.                   *)
Times(d, h) == {r \in Revisions : IF d.scoped THEN r = d.version ELSE d.oldest <= r /\ r <= h}
Timely(A, d, h) == \A a \in A : a[2] # NotYet => a[2] \in Times(d, h)

(* Whatever was noted of a node is what such a revision says.               *)
MemberTrue(d, i) ==
  /\ d.member[i] # "unknown" \/ i \in d.found \/ i \in d.absent => d.version # NotYet
  /\ d.member[i] = "yes" => (\E o \in File[d.version][i] : Scope \in ToSet(o)) /\ d.meta[i] # NotYet
  /\ d.member[i] = "no" =>
       /\ File[d.version][i] = {} \/ \E o \in File[d.version][i] : Scope \notin ToSet(o)
       /\ d.phase \in {"type", "enrich", "done"} /\ d.scoped => d.proven
  /\ i \in d.absent => File[d.version][i] = {}
MetaTrue(d, h, i) == d.meta[i] # NotYet => \E r \in Times(d, h) : d.meta[i] = TypeOf[r][i]
Truthful(d, h) ==
  /\ d.oldest <= remembered
  /\ d.proven => d.version # NotYet /\ File[d.version][Scope] # {}
  /\ Timely(d.answers, d, h)
  /\ \A i \in Ids : MemberTrue(d, i) /\ MetaTrue(d, h, i)

(* Nothing is forgotten as long as the request was not stopped: a node is    *)
(* decided, or the file is ambiguous about it, or an answer left it out, or   *)
(* it is still to be asked.                                                 *)
Told(d, i) == d.member[i] # "unknown" \/ Cardinality(File[d.version][i]) > 1
Unforgotten(d, h, i) ==
  /\ i \in d.found => Told(d, i)
  /\ d.phase = "check" /\ d.version # NotYet =>
       i \in d.found \cup d.present \cup d.absent \cup d.skipped \cup IdsOf(d.work) \cup Heard(d)
  /\ d.phase = "deepen" =>
       i \in d.found \cup d.present \cup d.absent \cup d.skipped /\ d.proven /\ (i \in d.absent => Told(d, i))
  /\ d.phase \in {"type", "enrich", "done"} /\ d.scoped => Told(d, i) \/ i \in d.skipped
  /\ d.phase \in {"type", "enrich", "done"} /\ ~d.scoped /\ d.typed =>
       \/ d.meta[i] # NotYet \/ i \in d.skipped \/ \E r \in Times(d, h) : File[r][i] = {}
       \/ d.phase = "type" /\ i \in IdsOf(d.work) \cup Heard(d)
Covered(d, h) == d.stop = NotYet => \A i \in Ids : Unforgotten(d, h, i)
Good(d, h) == d \in Request /\ WorkFits(d) /\ Truthful(d, h) /\ Covered(d, h)

(* Answers that are held belong to a batch whose rest is still to come.      *)
Halfway(d) == d.stop = NotYet /\ d.answers # {} => d.work # <<>> /\ d.phase \in {"check", "type", "enrich"}

AnchorsIInv ==
  /\ head \in Revisions /\ remembered \in Revisions /\ remembered <= head /\ expired \in BOOLEAN
  /\ Good(call, head) /\ Halfway(call)
--------------------------------------------------------------------------------
(* The batches.                                                             *)
LEMMA DivisionFloor ==
  ASSUME NEW a \in Int, NEW n \in Nat \ {0}
  PROVE  a \div n \in Int /\ n * (a \div n) <= a /\ a < n * (a \div n) + n
OBVIOUS

LEMMA DivisionGrows ==
  ASSUME NEW a \in Int, NEW b \in Int, a <= b, NEW n \in Nat \ {0}
  PROVE  a \div n <= b \div n
<1> DEFINE p == a \div n
           q == b \div n
<1>1. p \in Int /\ q \in Int /\ n * p <= a /\ b < n * q + n
  BY DivisionFloor
<1>2. n * p < n * (q + 1)
  BY <1>1
<1>3. p < q + 1
  BY <1>1, <1>2
<1> QED BY <1>1, <1>3

LEMMA FromZero ==
  ASSUME NEW a \in Int, a >= -1, NEW n \in Nat \ {0}
  PROVE  a \div n >= -1
<1> DEFINE p == a \div n
<1>1. p \in Int /\ a < n * p + n
  BY DivisionFloor
<1>2. n * (p + 1) >= 0
  BY <1>1
<1>3. p + 1 >= 0
  BY <1>1, <1>2
<1> QED BY <1>1, <1>3

LEMMA PlacesAreOrdered ==
  ASSUME NEW i \in Asked
  PROVE  Place(i) \in Int
<1>1. DOMAIN Anchors = 1..Len(Anchors) /\ Len(Anchors) \in Nat
  BY ResolveAnchorsAssumption
<1>2. CASE i = Scope
  BY <1>1, <1>2 DEF Place
<1>3. CASE i # Scope
  <2>1. \E k \in DOMAIN Anchors : Anchors[k] = i
    BY <1>3 DEF Asked, Ids, ToSet
  <2> QED BY <2>1, <1>1, <1>3 DEF Place
<1> QED BY <1>2, <1>3

LEMMA AskedFinite == IsFiniteSet(Asked)
<1> DEFINE D == 1..Len(Anchors)
           f == [k \in D |-> Anchors[k]]
<1>1. Len(Anchors) \in Nat /\ DOMAIN Anchors = D
  BY ResolveAnchorsAssumption
<1>2. IsFiniteSet(D)
  BY <1>1, FS_Interval
<1>3. f \in Surjection(D, Ids)
  BY <1>1 DEF Surjection, Ids, ToSet
<1>4. IsFiniteSet(Ids)
  BY <1>2, <1>3, FS_Surjection
<1> QED BY <1>4, FS_AddElement DEF Asked

(* What is asked for is in exactly the batches: no node is left out.         *)
LEMMA BatchesCover ==
  ASSUME NEW S \in SUBSET Asked
  PROVE  /\ \E n \in Nat : DOMAIN Batches(S) = 1..n
         /\ Batches(S) = [k \in DOMAIN Batches(S) |-> Batches(S)[k]]
         /\ \A k \in DOMAIN Batches(S) : Batches(S)[k] \subseteq S
         /\ \A i \in S : \E k \in DOMAIN Batches(S) : i \in Batches(S)[k]
<1> DEFINE m == Cardinality(S)
           n == (m - 1) \div BatchSize + 1
<1>1. IsFiniteSet(S) /\ m \in Nat /\ BatchSize \in Nat \ {0}
  BY AskedFinite, FS_Subset, FS_CardinalityType, ResolveAnchorsAssumption
<1>2. n \in Nat
  BY <1>1, DivisionFloor, FromZero
<1>3. Batches(S) = [k \in 1..n |-> {i \in S : Rank(S, i) \div BatchSize = k - 1}]
  BY DEF Batches
<1>4. ASSUME NEW i \in S PROVE \E k \in 1..n : i \in Batches(S)[k]
  <2> DEFINE E == {j \in S : Place(j) < Place(i)}
             b == Cardinality(E)
  <2>1. Rank(S, i) = b
    BY DEF Rank
  <2>2. i \notin E
    BY PlacesAreOrdered
  <2>3. b \in Nat /\ b <= m /\ b # m
    BY <1>1, <2>2, FS_Subset, FS_CardinalityType
  <2> HIDE DEF b, m
  <2>4. b \div BatchSize <= (m - 1) \div BatchSize /\ b \div BatchSize \in Int /\ b \div BatchSize >= 0
    <3>1. b <= m - 1 /\ b \in Int /\ m - 1 \in Int
      BY <1>1, <2>3
    <3>2. b \div BatchSize <= (m - 1) \div BatchSize
      BY <1>1, <3>1, DivisionGrows
    <3>3. 0 \div BatchSize <= b \div BatchSize /\ 0 \div BatchSize = 0
      <4>1. 0 \div BatchSize = 0
        BY <1>1
      <4> QED BY <4>1, <1>1, <2>3, DivisionGrows
    <3> QED BY <1>1, <3>1, <3>2, <3>3, DivisionFloor
  <2> DEFINE p == (m - 1) \div BatchSize
             q == b \div BatchSize
  <2>5. p \in Int /\ q \in Int /\ 0 <= q /\ q <= p
    <3>1. p \in Int
      BY <1>1, DivisionFloor
    <3> QED BY <3>1, <2>4
  <2>6. q + 1 \in 1..p + 1 /\ q = (q + 1) - 1
    <3> HIDE DEF p, q
    <3> QED BY <2>5
  <2>7. q + 1 \in 1..n /\ i \in Batches(S)[q + 1]
    BY <1>3, <2>1, <2>6
  <2> QED BY <2>7
<1> HIDE DEF n
<1> QED BY <1>2, <1>3, <1>4

LEMMA ProjectionsFit ==
  ASSUME NEW S \in SUBSET Ids, NEW depth \in Int
  PROVE  /\ Projections(S, depth) \in Seq(ProjectionTask)
<1>1. S \in SUBSET Asked
  BY DEF Asked
<1>2. PICK n \in Nat : DOMAIN Batches(S) = 1..n
  BY <1>1, BatchesCover
<1>3. \A k \in 1..n : Batches(S)[k] \in SUBSET Ids
  BY <1>1, <1>2, BatchesCover
<1> QED BY <1>2, <1>3 DEF Projections, ProjectionTask

LEMMA FetchesFit ==
  ASSUME NEW S \in SUBSET Asked
  PROVE  /\ Fetches(S) \in Seq(FetchTask)
         /\ Fetches(S) # <<>> => Fetches(S)[Len(Fetches(S))].last
         /\ UNION {Fetches(S)[k].ids : k \in DOMAIN Fetches(S)} = S
<1>1. PICK n \in Nat : DOMAIN Batches(S) = 1..n
  BY BatchesCover
<1>2. /\ \A k \in 1..n : Batches(S)[k] \in SUBSET S
      /\ \A i \in S : \E k \in 1..n : i \in Batches(S)[k]
  BY <1>1, BatchesCover
<1> DEFINE w == Fetches(S)
<1>3. w = [k \in 1..n |-> [ids |-> Batches(S)[k], last |-> TRUE]]
  BY <1>1 DEF Fetches
<1>4. w \in Seq(FetchTask) /\ DOMAIN w = 1..n
  BY <1>2, <1>3 DEF FetchTask
<1>5. Len(w) = n /\ (w # <<>> => n \in 1..n)
  <2> HIDE DEF w
  <2>1. Len(w) = n
    BY <1>4
  <2> QED BY <2>1, <1>4
<1>6. \A k \in 1..n : w[k].ids = Batches(S)[k] /\ w[k].last
  BY <1>3
<1> HIDE DEF w
<1>7. UNION {w[k].ids : k \in DOMAIN w} = S
  BY <1>2, <1>4, <1>6
<1> QED BY <1>4, <1>5, <1>6, <1>7 DEF w

LEMMA HalvesMake == \A B : Half(B) \subseteq B /\ Other(B) \subseteq B /\ Half(B) \cup Other(B) = B
BY DEF Half, Other
--------------------------------------------------------------------------------
(* Sequences of requests.                                                   *)
LEMMA TailIs ==
  ASSUME NEW T, NEW w \in Seq(T), w # <<>>
  PROVE  /\ Head(w) = w[1] /\ Head(w) \in T /\ Tail(w) \in Seq(T)
         /\ 1 \in DOMAIN w /\ Len(w) \in Nat \ {0} /\ Len(Tail(w)) = Len(w) - 1
         /\ \A k \in DOMAIN Tail(w) : k + 1 \in DOMAIN w /\ Tail(w)[k] = w[k + 1]
         /\ \A k \in DOMAIN w : k = 1 \/ (k - 1 \in DOMAIN Tail(w) /\ Tail(w)[k - 1] = w[k])
OBVIOUS

LEMMA TailAsks ==
  ASSUME NEW w \in Seq(FetchTask), w # <<>>
  PROVE  /\ IdsOf(w) = Head(w).ids \cup IdsOf(Tail(w))
         /\ Rounded(w) => Rounded(Tail(w)) /\ (~Head(w).last => Tail(w) # <<>>)
<1> DEFINE v == Tail(w)
<1>1. /\ Head(w) = w[1] /\ v \in Seq(FetchTask)
      /\ 1 \in DOMAIN w /\ Len(w) \in Nat \ {0} /\ Len(v) = Len(w) - 1
      /\ \A k \in DOMAIN v : k + 1 \in DOMAIN w /\ v[k] = w[k + 1]
      /\ \A k \in DOMAIN w : k = 1 \/ (k - 1 \in DOMAIN v /\ v[k - 1] = w[k])
  BY TailIs
<1> HIDE DEF v
<1>2. DOMAIN v = 1..Len(v) /\ (v = <<>> <=> Len(v) = 0)
  <2>1. v \in Seq(FetchTask)
    BY <1>1
  <2>2. DOMAIN v = 1..Len(v)
    BY <2>1
  <2>3. v = <<>> <=> Len(v) = 0
    BY <2>1
  <2> QED BY <2>2, <2>3
<1>3. IdsOf(w) = w[1].ids \cup IdsOf(v)
  BY <1>1 DEF IdsOf
<1>4. v # <<>> => v[Len(v)] = w[Len(w)]
  <2> SUFFICES ASSUME v # <<>> PROVE v[Len(v)] = w[Len(w)]
    OBVIOUS
  <2>1. Len(v) \in Nat \ {0}
    BY <1>1, <1>2
  <2>2. Len(v) \in DOMAIN v /\ Len(v) + 1 = Len(w)
    BY <1>1, <1>2, <2>1
  <2> QED BY <1>1, <2>2
<1>5. v = <<>> => Len(w) = 1
  BY <1>1, <1>2
<1> QED BY <1>1, <1>3, <1>4, <1>5 DEF Rounded, v

LEMMA SplitIs ==
  ASSUME NEW T, NEW w \in Seq(T), w # <<>>, NEW a \in T, NEW b \in T
  PROVE  LET u == <<a, b>> \o Tail(w)
         IN  /\ u \in Seq(T) /\ u # <<>> /\ Len(u) = Len(w) + 1
             /\ u[1] = a /\ u[2] = b /\ DOMAIN u = 1..(Len(w) + 1)
             /\ \A k \in 3..(Len(w) + 1) : u[k] = w[k - 1]
<1>1. Tail(w) \in Seq(T) /\ Len(w) \in Nat \ {0} /\ Len(Tail(w)) = Len(w) - 1
      /\ \A k \in 1..(Len(w) - 1) : Tail(w)[k] = w[k + 1]
  BY TailIs
<1> DEFINE v == Tail(w)
           u == <<a, b>> \o v
<1>2. v \in Seq(T) /\ Len(v) = Len(w) - 1
  BY <1>1
<1> HIDE DEF v
<1>3. u \in Seq(T) /\ Len(u) = Len(v) + 2 /\ u[1] = a /\ u[2] = b
      /\ \A k \in 3..(Len(v) + 2) : u[k] = v[k - 2]
  BY <1>2
<1> HIDE DEF u
<1>4. Len(u) = Len(w) + 1 /\ DOMAIN u = 1..(Len(w) + 1) /\ u # <<>>
  BY <1>1, <1>2, <1>3
<1>5. ASSUME NEW k \in 3..(Len(w) + 1) PROVE u[k] = w[k - 1]
  <2>1. k - 2 \in 1..(Len(w) - 1) /\ (k - 2) + 1 = k - 1 /\ k \in 3..(Len(v) + 2)
    BY <1>1, <1>2
  <2>2. v[k - 2] = w[(k - 2) + 1]
    BY <1>1, <2>1 DEF v
  <2> QED BY <1>3, <2>1, <2>2
<1> QED BY <1>3, <1>4, <1>5 DEF u, v

LEMMA SplitAsks ==
  ASSUME NEW w \in Seq(FetchTask), w # <<>>, NEW a \in FetchTask, NEW b \in FetchTask,
         a.ids \cup b.ids = Head(w).ids, b.last = Head(w).last
  PROVE  LET u == <<a, b>> \o Tail(w)
         IN  u \in Seq(FetchTask) /\ u # <<>> /\ IdsOf(u) = IdsOf(w) /\ (Rounded(w) => Rounded(u))
<1> DEFINE u == <<a, b>> \o Tail(w)
<1>1. /\ u \in Seq(FetchTask) /\ u # <<>> /\ Len(u) = Len(w) + 1
      /\ u[1] = a /\ u[2] = b /\ DOMAIN u = 1..(Len(w) + 1)
      /\ \A k \in 3..(Len(w) + 1) : u[k] = w[k - 1]
  BY SplitIs
<1>2. Head(w) = w[1] /\ Len(w) \in Nat \ {0} /\ DOMAIN w = 1..Len(w)
  BY TailIs
<1> HIDE DEF u
<1>3. ASSUME NEW i \in IdsOf(u) PROVE i \in IdsOf(w)
  <2>1. PICK k \in 1..(Len(w) + 1) : i \in u[k].ids
    BY <1>1, <1>3 DEF IdsOf
  <2>2. CASE k \in {1, 2}
    BY <1>1, <1>2, <2>1, <2>2 DEF IdsOf
  <2>3. CASE k \notin {1, 2}
    <3>1. k \in 3..(Len(w) + 1) /\ k - 1 \in DOMAIN w
      BY <1>2, <2>3
    <3> QED BY <1>1, <2>1, <3>1 DEF IdsOf
  <2> QED BY <2>2, <2>3
<1>4. ASSUME NEW i \in IdsOf(w) PROVE i \in IdsOf(u)
  <2>1. PICK k \in 1..Len(w) : i \in w[k].ids
    BY <1>2, <1>4 DEF IdsOf
  <2>2. CASE k = 1
    <3>1. 1 \in DOMAIN u /\ 2 \in DOMAIN u
      BY <1>1, <1>2
    <3>2. i \in u[1].ids \/ i \in u[2].ids
      BY <1>1, <1>2, <2>1, <2>2
    <3> QED BY <3>1, <3>2 DEF IdsOf
  <2>3. CASE k # 1
    <3>1. k + 1 \in 3..(Len(w) + 1) /\ k + 1 \in DOMAIN u /\ (k + 1) - 1 = k
      BY <1>1, <1>2, <2>3
    <3>2. u[k + 1] = w[k]
      BY <1>1, <3>1
    <3> QED BY <2>1, <3>1, <3>2 DEF IdsOf
  <2> QED BY <2>2, <2>3
<1>5. ASSUME Rounded(w) PROVE u[Len(u)].last
  <2>1. w[Len(w)].last
    BY <1>5 DEF Rounded
  <2>2. CASE Len(w) = 1
    BY <1>1, <1>2, <2>1, <2>2
  <2>3. CASE Len(w) # 1
    <3>1. Len(w) + 1 \in 3..(Len(w) + 1) /\ (Len(w) + 1) - 1 = Len(w)
      BY <1>2, <2>3
    <3> QED BY <1>1, <2>1, <3>1
  <2> QED BY <2>2, <2>3
<1> QED BY <1>1, <1>3, <1>4, <1>5 DEF Rounded, u

LEMMA NothingAsked == IdsOf(<<>>) = {} /\ Rounded(<<>>)
BY DEF IdsOf, Rounded
--------------------------------------------------------------------------------
(* Small steps keep what is known.                                          *)

(* What the invariant says of a request depends on these fields alone.       *)
AlikeNotes(d, e) ==
  /\ e.scoped = d.scoped /\ e.typed = d.typed /\ e.oldest = d.oldest /\ e.version = d.version
  /\ e.proven = d.proven /\ e.member = d.member /\ e.meta = d.meta
  /\ e.found = d.found /\ e.present = d.present /\ e.absent = d.absent /\ e.skipped = d.skipped
AlikeWork(d, e) == e.phase = d.phase /\ e.work = d.work /\ e.answers = d.answers

LEMMA AlikeIsGood ==
  ASSUME NEW d, NEW e \in Request, NEW h, Good(d, h), AlikeNotes(d, e), AlikeWork(d, e),
         e.stop = NotYet => d.stop = NotYet
  PROVE  Good(e, h)
<1>1. WorkFits(e)
  BY DEF Good, WorkFits, AlikeNotes, AlikeWork
<1>2. Truthful(e, h)
  BY DEF Good, Truthful, Timely, MemberTrue, MetaTrue, Times, AlikeNotes, AlikeWork
<1>3. Covered(e, h)
  BY DEF Good, Covered, Unforgotten, Told, Heard, Times, AlikeNotes, AlikeWork
<1> QED BY <1>1, <1>2, <1>3 DEF Good

LEMMA HaltIs ==
  ASSUME NEW d \in Request, NEW why \in Reasons
  PROVE  LET e == Halt(d, why)
         IN  /\ e \in Request /\ e.stop # NotYet /\ AlikeNotes(d, e) /\ AlikeWork(d, e)
             /\ e.deferred = d.deferred /\ e.depth = d.depth /\ e.calls = d.calls /\ e.attempted = d.attempted
<1>1. CASE d.stop = NotYet
  <2> DEFINE e == [d EXCEPT !.stop = why]
  <2>1. Halt(d, why) = e
    BY <1>1 DEF Halt
  <2>2. e \in Request /\ e.stop = why
    BY DEF Request
  <2>3. AlikeNotes(d, e) /\ AlikeWork(d, e) /\ e.deferred = d.deferred /\ e.depth = d.depth
        /\ e.calls = d.calls /\ e.attempted = d.attempted
    BY DEF Request, AlikeNotes, AlikeWork
  <2>4. why # NotYet
    BY ResolveAnchorsAssumption
  <2> QED BY <2>1, <2>2, <2>3, <2>4
<1>2. CASE d.stop # NotYet
  BY <1>2 DEF Halt, AlikeNotes, AlikeWork
<1> QED BY <1>1, <1>2

LEMMA HaltKeeps ==
  ASSUME NEW d, NEW h, Good(d, h), NEW why \in Reasons
  PROVE  Good(Halt(d, why), h) /\ Halfway(Halt(d, why))
<1>1. d \in Request
  BY DEF Good
<1>2. Good(Halt(d, why), h)
  BY <1>1, HaltIs, AlikeIsGood
<1> QED BY <1>1, <1>2, HaltIs DEF Halfway

(* The number of requests, and which projections were tried.                *)
LEMMA SentIs ==
  ASSUME NEW d, NEW h, Good(d, h), d.calls < CallCap,
         NEW keys \in SUBSET ((Revisions \cup {NotYet}) \X Int \X SUBSET Ids)
  PROVE  LET e == [d EXCEPT !.calls = @ + 1, !.attempted = @ \cup keys]
         IN  Good(e, h) /\ AlikeNotes(d, e) /\ AlikeWork(d, e) /\ e.stop = d.stop /\ e.deferred = d.deferred
<1> DEFINE e == [d EXCEPT !.calls = @ + 1, !.attempted = @ \cup keys]
<1>1. d \in Request
  BY DEF Good
<1>2. d.calls + 1 \in 0..CallCap
  BY <1>1, ResolveAnchorsAssumption DEF Request
<1>3. e \in Request
  BY <1>1, <1>2 DEF Request
<1>4. AlikeNotes(d, e) /\ AlikeWork(d, e) /\ e.stop = d.stop /\ e.deferred = d.deferred
  BY <1>1 DEF Request, AlikeNotes, AlikeWork
<1>5. Good(e, h)
  BY <1>3, <1>4, AlikeIsGood
<1> QED BY <1>4, <1>5

(* An edit makes no revision of the past untrue.                            *)
LEMMA LaterIsGood ==
  ASSUME NEW d, NEW h \in Revisions, NEW g \in Revisions, h <= g, Good(d, h)
  PROVE  Good(d, g)
<1>1. Revisions \subseteq Nat /\ d \in Request /\ d.oldest \in Nat /\ d.oldest <= remembered
  BY ResolveAnchorsAssumption DEF Good, Truthful, Timely, Request
<1>2. Times(d, h) \subseteq Times(d, g)
  <2>1. ASSUME NEW r \in Revisions, r <= h PROVE r <= g
    <3>1. r \in Nat /\ h \in Nat /\ g \in Nat
      BY <1>1
    <3> QED BY <2>1, <3>1
  <2> QED BY <2>1 DEF Times
<1>3. Truthful(d, g)
  BY <1>1, <1>2 DEF Good, Truthful, Timely, MetaTrue
<1>4. Covered(d, g)
  BY <1>2 DEF Good, Covered, Unforgotten
<1> QED BY <1>3, <1>4 DEF Good
--------------------------------------------------------------------------------
(* Projections.                                                             *)

(* What was seen of a node is an occurrence of it, and a path to the scope   *)
(* that was seen is one of the file.                                        *)
LEMMA ReachedIsReal ==
  ASSUME NEW B \in SUBSET Ids, NEW depth \in Int, NEW r \in Revisions, NEW s \in Reached(B, depth, r)
  PROVE  s[1] \in B /\ s[2] \in File[r][s[1]]
BY DEF Reached

LEMMA TypesAreKnown ==
  \A r \in Revisions : \A i \in Ids : TypeOf[r][i] \in Types /\ TypeOf[r][i] # NotYet
<1> SUFFICES ASSUME NEW r \in Revisions, NEW i \in Ids
             PROVE  TypeOf[r][i] \in Types /\ TypeOf[r][i] # NotYet
  OBVIOUS
<1>1. TypeOf[r][i] # NotYet
  BY ResolveAnchorsAssumption
<1> QED BY <1>1 DEF Types

LEMMA PathProvesScope ==
  ASSUME NEW B \in SUBSET Ids, NEW depth \in Int, NEW r \in Revisions, ScopePaths(B, depth, r) # {}
  PROVE  File[r][Scope] # {}
<1>1. PICK i \in B : \E o \in File[r][i] : \E k \in 1..Len(o) : o[k] = Scope
  BY DEF ScopePaths
<1>2. PICK o \in File[r][i] : \E k \in 1..Len(o) : o[k] = Scope
  BY <1>1
<1>3. i \in Ids /\ o \in Seq(ToSet(o))
  BY ResolveAnchorsAssumption
<1>4. DOMAIN o = 1..Len(o)
  BY <1>3
<1>5. Scope \in ToSet(o)
  BY <1>2, <1>4 DEF ToSet
<1> QED BY <1>3, <1>5, ResolveAnchorsAssumption

LEMMA RelationIsReal ==
  ASSUME NEW r \in Revisions, NEW i \in Ids, NEW S \in SUBSET File[r][i], S # {}
  PROVE  /\ Relation(S) \in Verdicts
         /\ Relation(S) = "yes" => \E o \in File[r][i] : Scope \in ToSet(o)
         /\ Relation(S) = "no" => \E o \in File[r][i] : Scope \notin ToSet(o)
         /\ Relation(S) = "unknown" => Cardinality(File[r][i]) > 1
<1>1. Relation(S) \in Verdicts
  BY DEF Relation, Verdicts
<1>2. Relation(S) = "unknown" => Cardinality(S) > 1
  BY DEF Relation
<1>3. IsFiniteSet(File[r][i])
  BY ResolveAnchorsAssumption
<1>4. /\ Cardinality(S) <= Cardinality(File[r][i]) /\ Cardinality(S) \in Nat
      /\ Cardinality(File[r][i]) \in Nat
  BY <1>3, FS_Subset, FS_CardinalityType
<1> QED BY <1>1, <1>2, <1>4 DEF Relation

(* The version is known from the first projection on.                       *)
LEMMA PinnedIsGood ==
  ASSUME NEW d, NEW h, NEW r \in Revisions, Good(d, h), d.phase \in {"project", "deepen"},
         r = d.version \/ d.version = NotYet
  PROVE  LET e == [d EXCEPT !.version = r]
         IN  /\ Good(e, h) /\ e.version = r /\ AlikeWork(d, e) /\ e.stop = d.stop
             /\ e.deferred = d.deferred
<1> DEFINE e == [d EXCEPT !.version = r]
<1>1. d \in Request /\ d.scoped
  BY DEF Good, WorkFits
<1>2. e \in Request /\ e.version = r /\ r # NotYet
  BY <1>1, ResolveAnchorsAssumption DEF Request
<1>3. /\ e.scoped = d.scoped /\ e.typed = d.typed /\ e.oldest = d.oldest /\ e.proven = d.proven
      /\ e.member = d.member /\ e.meta = d.meta /\ e.found = d.found /\ e.present = d.present
      /\ e.absent = d.absent /\ e.skipped = d.skipped /\ AlikeWork(d, e) /\ e.stop = d.stop
      /\ e.deferred = d.deferred
  BY <1>1 DEF Request, AlikeWork
<1>4. CASE d.version = r
  <2>1. AlikeNotes(d, e)
    BY <1>2, <1>3, <1>4 DEF AlikeNotes
  <2> QED BY <1>2, <1>3, <2>1, AlikeIsGood
<1>5. CASE d.version = NotYet
  <2> HIDE DEF e
  <2>1. Times(d, h) = {}
    BY <1>1, <1>5, ResolveAnchorsAssumption DEF Times
  <2>2. \A i \in Ids : d.member[i] = "unknown" /\ i \notin d.found /\ i \notin d.absent /\ d.meta[i] = NotYet
    BY <1>5, <2>1 DEF Good, Truthful, Timely, MemberTrue, MetaTrue
  <2>3. ~d.proven /\ Timely(d.answers, e, h)
    BY <1>5, <2>1 DEF Good, Truthful, Timely
  <2>4. WorkFits(e)
    BY <1>1, <1>2, <1>3 DEF Good, WorkFits, AlikeWork
  <2>5. Truthful(e, h)
    BY <1>2, <1>3, <2>2, <2>3 DEF Good, Truthful, Timely, MemberTrue, MetaTrue, AlikeWork
  <2>6. Covered(e, h)
    BY <1>3, <2>2 DEF Good, Covered, Unforgotten, Told, AlikeWork
  <2> QED BY <1>2, <1>3, <2>4, <2>5, <2>6 DEF Good, e
<1> QED BY <1>4, <1>5

(* A scan, of all that was shown or of a part.                              *)
GoodScan(d, e, h) == Good(e, h) /\ AlikeWork(d, e)
LEMMA ScannedIsGood ==
  ASSUME NEW d, NEW h, Good(d, h), d.phase \in {"project", "deepen"}, d.version \in Revisions,
         NEW B \in SUBSET Ids, NEW depth \in Int,
         NEW part \in SUBSET Reached(B, depth, d.version),
         NEW paths \in SUBSET ScopePaths(B, depth, d.version)
  PROVE  GoodScan(d, Scanned(d, part, paths, d.version), h)
<1>1. d \in Request /\ d.scoped
  BY DEF Good, WorkFits
<1>2. CASE Cardinality(paths) > 1
  <2>1. Scanned(d, part, paths, d.version) = Halt(d, "unknown_scope") /\ "unknown_scope" \in Reasons
    BY <1>2 DEF Scanned, Reasons
  <2> QED BY <1>1, <2>1, HaltIs, HaltKeeps DEF GoodScan
<1>3. CASE ~(Cardinality(paths) > 1)
  <2> DEFINE r == d.version
             hit == {s[1] : s \in part}
             of(i) == {o \in UNION {File[r][j] : j \in Ids} : <<i, o>> \in part}
             e == [d EXCEPT !.proven = @ \/ paths # {},
                            !.found = @ \cup hit,
                            !.meta = [i \in Ids |-> IF i \in hit THEN TypeOf[r][i] ELSE @[i]],
                            !.member = [i \in Ids |-> IF i \in hit THEN Relation(of(i)) ELSE @[i]]]
  <2>1. Scanned(d, part, paths, d.version) = e
    BY <1>3 DEF Scanned
  <2>2. hit \subseteq Ids
    BY ReachedIsReal
  <2>3. ASSUME NEW i \in hit PROVE of(i) \in SUBSET File[r][i] /\ of(i) # {}
    <3>1. \A s \in part : s[2] \in File[r][s[1]] /\ s = <<s[1], s[2]>>
      BY ReachedIsReal DEF Reached
    <3>2. PICK s \in part : s[1] = i
      OBVIOUS
    <3>3. s[2] \in of(i)
      BY <2>2, <3>1, <3>2
    <3> QED BY <3>1, <3>3
  <2>4. ASSUME NEW i \in hit
        PROVE  /\ Relation(of(i)) \in Verdicts
               /\ Relation(of(i)) = "yes" => \E o \in File[r][i] : Scope \in ToSet(o)
               /\ Relation(of(i)) = "no" => \E o \in File[r][i] : Scope \notin ToSet(o)
               /\ Relation(of(i)) = "unknown" => Cardinality(File[r][i]) > 1
    BY <2>2, <2>3, RelationIsReal
  <2>5. \A i \in Ids : TypeOf[r][i] \in Types /\ TypeOf[r][i] # NotYet
    BY TypesAreKnown
  <2> HIDE DEF hit, of
  <2>6. /\ e.proven = (d.proven \/ paths # {}) /\ e.found = d.found \cup hit
        /\ e.meta = [i \in Ids |-> IF i \in hit THEN TypeOf[r][i] ELSE d.meta[i]]
        /\ e.member = [i \in Ids |-> IF i \in hit THEN Relation(of(i)) ELSE d.member[i]]
        /\ e.scoped = d.scoped /\ e.typed = d.typed /\ e.oldest = d.oldest /\ e.version = d.version
        /\ e.present = d.present /\ e.absent = d.absent /\ e.skipped = d.skipped /\ AlikeWork(d, e)
        /\ e.stop = d.stop /\ e.deferred = d.deferred /\ e.depth = d.depth
    BY <1>1 DEF Request, AlikeWork
  <2>7. e \in Request
    <3>1. /\ (d.proven \/ paths # {}) \in BOOLEAN /\ d.found \cup hit \in SUBSET Ids
          /\ [i \in Ids |-> IF i \in hit THEN TypeOf[r][i] ELSE d.meta[i]] \in [Ids -> Types \cup {NotYet}]
          /\ [i \in Ids |-> IF i \in hit THEN Relation(of(i)) ELSE d.member[i]] \in [Ids -> Verdicts]
      BY <1>1, <2>2, <2>4, <2>5 DEF Request
    <3> QED BY <1>1, <3>1 DEF Request
  <2> HIDE DEF e
  <2>8. WorkFits(e)
    BY <2>6 DEF Good, WorkFits, AlikeWork
  <2>9. paths # {} => File[r][Scope] # {}
    BY PathProvesScope
  <2>10. ASSUME NEW i \in Ids PROVE MemberTrue(e, i)
    <3>1. MemberTrue(d, i) /\ r # NotYet /\ d.phase \notin {"type", "enrich", "done"}
      BY ResolveAnchorsAssumption DEF Good, Truthful, Timely
    <3>2. CASE i \in hit
      BY <2>4, <2>5, <2>6, <3>1, <3>2 DEF MemberTrue, AlikeWork
    <3>3. CASE i \notin hit
      BY <2>6, <3>1, <3>3 DEF MemberTrue, AlikeWork
    <3> QED BY <3>2, <3>3
  <2>11. ASSUME NEW i \in Ids PROVE MetaTrue(e, h, i)
    <3>1. MetaTrue(d, h, i) /\ Times(e, h) = Times(d, h) /\ r \in Times(d, h)
      BY <1>1, <2>6 DEF Good, Truthful, Timely, Times
    <3> QED BY <2>6, <3>1 DEF MetaTrue
  <2>12. Truthful(e, h)
    <3>1. Times(e, h) = Times(d, h) /\ r # NotYet
      BY <2>6, ResolveAnchorsAssumption DEF Times
    <3> QED BY <2>6, <2>9, <2>10, <2>11, <3>1 DEF Good, Truthful, Timely, AlikeWork
  <2>13. Covered(e, h)
    <3> SUFFICES ASSUME e.stop = NotYet, NEW i \in Ids PROVE Unforgotten(e, h, i)
      BY DEF Covered
    <3>1. Unforgotten(d, h, i) /\ (Told(d, i) => Told(e, i))
      <4>1. Unforgotten(d, h, i)
        BY <2>6 DEF Good, Covered
      <4> QED BY <4>1, <2>4, <2>6 DEF Told
    <3>2. i \in hit => Told(e, i)
      BY <2>4, <2>6 DEF Told
    <3> QED BY <2>6, <3>1, <3>2 DEF Unforgotten, AlikeWork
  <2> QED BY <2>1, <2>6, <2>7, <2>8, <2>12, <2>13 DEF Good, GoodScan
<1> QED BY <1>2, <1>3
(* Tasks that were dealt with, tried again or split.                        *)
Reworked(d, w, S) == [d EXCEPT !.work = w, !.deferred = S]
GoodStill(d, e, h) == Good(e, h) /\ e.phase = d.phase /\ e.answers = d.answers /\ e.stop = d.stop

LEMMA WorkChanges ==
  ASSUME NEW d, NEW h, Good(d, h), d.phase \in {"project", "deepen"},
         NEW w \in Seq(ProjectionTask), NEW S \in SUBSET Ids
  PROVE  GoodStill(d, Reworked(d, w, S), h)
<1> DEFINE e == Reworked(d, w, S)
<1>1. d \in Request /\ d.scoped
  BY DEF Good, WorkFits
<1>2. w \in Seq(ProjectionTask \cup FetchTask)
  OBVIOUS
<1>3. e \in Request
  BY <1>1, <1>2 DEF Request, Reworked
<1>4. e.phase = d.phase /\ e.work = w /\ e.answers = d.answers /\ e.stop = d.stop /\ AlikeNotes(d, e)
  BY <1>1 DEF Request, Reworked, AlikeNotes
<1> HIDE DEF e
<1>5. WorkFits(e)
  BY <1>4 DEF Good, WorkFits, AlikeNotes
<1>6. Truthful(e, h)
  BY <1>4 DEF Good, Truthful, Timely, MemberTrue, MetaTrue, Times, AlikeNotes
<1>7. Covered(e, h)
  BY <1>4 DEF Good, Covered, Unforgotten, Told, Times, AlikeNotes
<1> QED BY <1>3, <1>4, <1>5, <1>6, <1>7 DEF Good, GoodStill, e

LEMMA AfterProjectionIsGood ==
  ASSUME NEW d, NEW h, Good(d, h), d.phase \in {"project", "deepen"}, d.work # <<>>, NEW newly
  PROVE  LET e == AfterProjection(d, Head(d.work), newly)
         IN  Good(e, h) /\ e.phase = d.phase /\ e.answers = d.answers /\ e.stop = d.stop
<1> DEFINE t == Head(d.work)
           w == d.work
<1>1. d \in Request /\ w \in Seq(ProjectionTask)
  BY DEF Good, WorkFits
<1>2. t \in ProjectionTask /\ Tail(w) \in Seq(ProjectionTask) /\ w[1] = t /\ 1 \in DOMAIN w
  BY <1>1, TailIs
<1>3. d.deferred \in SUBSET Ids /\ t.ids \in SUBSET Ids /\ t.depth \in Int
  BY <1>1, <1>2 DEF Request, ProjectionTask
<1>4. [d EXCEPT !.work = Tail(@)] = Reworked(d, Tail(w), d.deferred)
  BY <1>1 DEF Request, Reworked
<1>5. [d EXCEPT !.work = Tail(@), !.deferred = @ \cup t.ids]
        = Reworked(d, Tail(w), d.deferred \cup t.ids)
  BY <1>1 DEF Request, Reworked
<1> DEFINE u == [w EXCEPT ![1] = [t EXCEPT !.depth = t.depth + 1]]
           v == Tail(w)
<1>6. [d EXCEPT !.work[1].depth = @ + 1] = Reworked(d, u, d.deferred)
  <2>1. [d EXCEPT !.work[1].depth = @ + 1] = [d EXCEPT !.work = u]
    BY <1>2
  <2> QED BY <1>1, <2>1 DEF Request, Reworked
<1>7. u \in Seq(ProjectionTask)
  <2>1. [t EXCEPT !.depth = t.depth + 1] \in ProjectionTask
    BY <1>2 DEF ProjectionTask
  <2> QED BY <1>1, <2>1
<1> HIDE DEF t, w, u, v
<1>8. v \in Seq(ProjectionTask)
  BY <1>2 DEF v
<1>9. GoodStill(d, Reworked(d, v, d.deferred), h)
  BY <1>3, <1>8, WorkChanges
<1>10. GoodStill(d, Reworked(d, v, d.deferred \cup t.ids), h)
  <2>1. d.deferred \cup t.ids \in SUBSET Ids
    BY <1>3
  <2> QED BY <1>8, <2>1, WorkChanges
<1>11. GoodStill(d, Reworked(d, u, d.deferred), h)
  BY <1>3, <1>7, WorkChanges
<1> QED BY <1>4, <1>5, <1>6, <1>9, <1>10, <1>11 DEF AfterProjection, GoodStill, t, v

LEMMA TooLargeIsGood ==
  ASSUME NEW d, NEW h, Good(d, h), d.phase \in {"project", "deepen"}, d.work # <<>>
  PROVE  LET e == TooLarge(d, Head(d.work))
         IN  Good(e, h) /\ e.phase = d.phase /\ e.answers = d.answers /\ (e.stop = NotYet => d.stop = NotYet)
<1> DEFINE t == Head(d.work)
           w == d.work
           a == [t EXCEPT !.ids = Half(t.ids)]
           b == [t EXCEPT !.ids = Other(t.ids)]
           v == <<a, b>> \o Tail(w)
           u == [w EXCEPT ![1] = [t EXCEPT !.depth = 1, !.limit = t.depth]]
<1>1. d \in Request /\ w \in Seq(ProjectionTask)
  BY DEF Good, WorkFits
<1>2. t \in ProjectionTask /\ w[1] = t /\ 1 \in DOMAIN w
  BY <1>1, TailIs
<1>3. d.deferred \in SUBSET Ids /\ t.ids \in SUBSET Ids /\ t.depth \in Int
  BY <1>1, <1>2 DEF Request, ProjectionTask
<1>4. v \in Seq(ProjectionTask)
  <2>1. Half(t.ids) \in SUBSET Ids /\ Other(t.ids) \in SUBSET Ids
    BY <1>3, HalvesMake
  <2>2. a \in ProjectionTask /\ b \in ProjectionTask
    BY <1>2, <2>1 DEF ProjectionTask
  <2> HIDE DEF a, b
  <2> QED BY <1>1, <2>2, SplitIs
<1>5. u \in Seq(ProjectionTask)
  <2>1. [t EXCEPT !.depth = 1, !.limit = t.depth] \in ProjectionTask
    <3> HIDE DEF t
    <3>1. [t EXCEPT !.depth = 1] \in ProjectionTask /\ t.depth \in Int
      BY <1>2, <1>3 DEF ProjectionTask
    <3> QED BY <3>1 DEF ProjectionTask
  <2> QED BY <1>1, <2>1
<1>6. [d EXCEPT !.work = <<[t EXCEPT !.ids = Half(@)], [t EXCEPT !.ids = Other(@)]>> \o Tail(@)]
        = Reworked(d, v, d.deferred)
  BY <1>1 DEF Request, Reworked
<1>7. [d EXCEPT !.work[1].depth = 1, !.work[1].limit = t.depth] = Reworked(d, u, d.deferred)
  <2>1. [d EXCEPT !.work[1].depth = 1, !.work[1].limit = t.depth] = [d EXCEPT !.work = u]
    BY <1>1, <1>2 DEF Request
  <2> QED BY <1>1, <2>1 DEF Request, Reworked
<1>8. LET e == Halt(d, "metadata_error")
      IN  Good(e, h) /\ e.phase = d.phase /\ e.answers = d.answers /\ e.stop # NotYet
  BY <1>1, HaltIs, HaltKeeps DEF Reasons, AlikeWork
<1> HIDE DEF t, w, u, v
<1>9. GoodStill(d, Reworked(d, v, d.deferred), h)
  BY <1>3, <1>4, WorkChanges
<1>10. GoodStill(d, Reworked(d, u, d.deferred), h)
  BY <1>3, <1>5, WorkChanges
<1> QED BY <1>6, <1>7, <1>8, <1>9, <1>10 DEF TooLarge, GoodStill, t

(* A request is sent only while none was refused.                           *)
LEMMA RefusalIs ==
  ASSUME call \in Request
  PROVE  (Refusal = NotYet => call.calls < CallCap /\ ~expired) /\ (Refusal # NotYet => Refusal \in Reasons)
<1>1. call.calls \in Nat /\ CallCap \in Nat /\ NotYet \notin Reasons
  BY ResolveAnchorsAssumption DEF Request
<1> QED BY <1>1 DEF Refusal, Reasons

LEMMA ProjectStep ==
  ASSUME AnchorsIInv, Project
  PROVE  Good(call', head) /\ Halfway(call')
<1> DEFINE t == Head(call.work)
           r == IF call.version = NotYet THEN head ELSE call.version
           sent == [call EXCEPT !.calls = @ + 1, !.attempted = @ \cup {ProjectionKey(t)}]
           pinned == [sent EXCEPT !.version = r]
           shows == Reached(t.ids, t.depth, r)
           paths == ScopePaths(t.ids, t.depth, r)
<1>1. /\ Good(call, head) /\ call \in Request /\ call.phase \in {"project", "deepen"}
      /\ call.stop = NotYet /\ call.work # <<>> /\ call.work \in Seq(ProjectionTask) /\ call.answers = {}
      /\ head \in Revisions
  BY DEF AnchorsIInv, Good, WorkFits, Halfway, Project, Working
<1>2. t \in ProjectionTask /\ t.ids \in SUBSET Ids /\ t.depth \in Int
  <2>1. t \in ProjectionTask
    BY <1>1, TailIs
  <2> QED BY <2>1 DEF ProjectionTask
<1>3. r \in Revisions /\ (call.version = r \/ call.version = NotYet)
  BY <1>1 DEF Request
<1>4. CASE Refusal # NotYet /\ call' = Halt(call, Refusal)
  BY <1>1, <1>4, RefusalIs, HaltKeeps
<1>5. CASE Refusal = NotYet /\ call' = AfterProjection(call, t, {})
  BY <1>1, <1>5, AfterProjectionIsGood DEF Halfway
<1>6. ASSUME Refusal = NotYet
      PROVE  /\ Good(sent, head) /\ AlikeNotes(call, sent) /\ AlikeWork(call, sent)
             /\ sent.stop = NotYet
  <2>1. ProjectionKey(t) \in (Revisions \cup {NotYet}) \X Int \X SUBSET Ids
    BY <1>1, <1>2 DEF ProjectionKey, Request
  <2> QED BY <1>1, <1>6, <2>1, RefusalIs, SentIs
<1>7. ASSUME Refusal = NotYet
      PROVE  /\ Good(pinned, head) /\ pinned.version = r /\ AlikeWork(call, pinned)
             /\ pinned.stop = NotYet
  <2> HIDE DEF sent, r
  <2>1. r = sent.version \/ sent.version = NotYet
    BY <1>3, <1>6, <1>7 DEF AlikeNotes
  <2>2. sent.phase \in {"project", "deepen"}
    BY <1>1, <1>6, <1>7 DEF AlikeWork
  <2> QED BY <1>3, <1>6, <1>7, <2>1, <2>2, PinnedIsGood DEF AlikeWork
<1> HIDE DEF t, r, sent, pinned, shows, paths
<1>8. ASSUME Refusal = NotYet, NEW part \in SUBSET shows, NEW some \in SUBSET paths
      PROVE  Good(Scanned(pinned, part, some, r), head) /\ AlikeWork(call, Scanned(pinned, part, some, r))
  <2>1. /\ Good(pinned, head) /\ pinned.version = r /\ pinned.phase \in {"project", "deepen"}
        /\ AlikeWork(call, pinned)
    BY <1>1, <1>7, <1>8 DEF AlikeWork
  <2>2. part \in SUBSET Reached(t.ids, t.depth, pinned.version) /\ some \in SUBSET ScopePaths(t.ids, t.depth, pinned.version)
    BY <1>8, <2>1 DEF shows, paths
  <2>3. GoodScan(pinned, Scanned(pinned, part, some, pinned.version), head)
    BY <1>2, <1>3, <2>1, <2>2, ScannedIsGood
  <2> QED BY <2>1, <2>3 DEF GoodScan, AlikeWork
<1>9. CASE Refusal = NotYet /\ call' = TooLarge(sent, t)
  <2>1. sent.phase \in {"project", "deepen"} /\ sent.work = call.work /\ sent.answers = {}
    BY <1>1, <1>6, <1>9 DEF AlikeWork
  <2>2. Good(call', head) /\ call'.answers = {}
    BY <1>1, <1>6, <1>9, <2>1, TooLargeIsGood DEF t
  <2> QED BY <2>2 DEF Halfway
<1>10. CASE Refusal = NotYet /\ call' \in {Halt(sent, "metadata_error"), Halt(sent, "unknown_scope")}
  BY <1>6, <1>10, HaltKeeps DEF Reasons
<1>11. CASE Refusal = NotYet /\ call' = AfterProjection(Scanned(pinned, shows, paths, r), t, {s[1] : s \in shows})
  <2> DEFINE e == Scanned(pinned, shows, paths, r)
  <2>1. Good(e, head) /\ AlikeWork(call, e)
    BY <1>8, <1>11
  <2> HIDE DEF e
  <2>2. e.phase \in {"project", "deepen"} /\ e.work = call.work /\ e.answers = {} /\ t = Head(e.work)
    BY <1>1, <2>1 DEF AlikeWork, t
  <2>3. call' = AfterProjection(e, Head(e.work), {s[1] : s \in shows})
    BY <1>11, <2>2 DEF e
  <2>4. Good(call', head) /\ call'.answers = {}
    BY <1>1, <2>1, <2>2, <2>3, AfterProjectionIsGood
  <2> QED BY <2>4 DEF Halfway
<1>12. CASE /\ Refusal = NotYet
            /\ \E part \in SUBSET shows, some \in SUBSET paths, why \in {"deadline", "node_visit_cap"} :
                 call' = Halt(Scanned(pinned, part, some, r), why)
  <2>1. PICK part \in SUBSET shows, some \in SUBSET paths, why \in {"deadline", "node_visit_cap"} :
          call' = Halt(Scanned(pinned, part, some, r), why)
    BY <1>12
  <2>2. Good(Scanned(pinned, part, some, r), head) /\ why \in Reasons
    BY <1>8, <1>12 DEF Reasons
  <2> QED BY <2>1, <2>2, HaltKeeps
<1>13. \/ Refusal # NotYet /\ call' = Halt(call, Refusal)
       \/ /\ Refusal = NotYet
          /\ \/ call' = AfterProjection(call, t, {})
             \/ call' = TooLarge(sent, t)
             \/ call' \in {Halt(sent, "metadata_error"), Halt(sent, "unknown_scope")}
             \/ call' = AfterProjection(Scanned(pinned, shows, paths, r), t, {s[1] : s \in shows})
             \/ \E part \in SUBSET shows, some \in SUBSET paths, why \in {"deadline", "node_visit_cap"} :
                  call' = Halt(Scanned(pinned, part, some, r), why)
  BY Zenon DEF Project, t, r, sent, pinned, shows, paths
<1> QED BY <1>4, <1>5, <1>9, <1>10, <1>11, <1>12, <1>13
--------------------------------------------------------------------------------
(* Node answers.                                                            *)

(* What the answers of a batch tell is true of a revision of the request's   *)
(* time, and whoever was asked for is told of.                              *)
LEMMA AbsorbedIsGood ==
  ASSUME NEW d, NEW h, Good(d, h), d.phase \in {"check", "type", "enrich"}
  PROVE  Good(Absorb(d, d.answers), h) /\ Halfway(Absorb(d, d.answers))
<1> DEFINE A == d.answers
           heard == {a \in A : a[2] # NotYet}
           here == {a \in heard : File[a[2]][a[1]] # {}}
           seenIds == {a[1] : a \in here} \ {Scope}
           gone == {a[1] : a \in heard \ here} \ {Scope}
           mute == {a[1] : a \in A \ heard} \ {Scope}
           typeOf(i) == LET a == CHOOSE a \in here : a[1] = i IN TypeOf[a[2]][i]
           metas == [i \in Ids |-> IF i \in seenIds THEN typeOf(i) ELSE d.meta[i]]
           told == [d EXCEPT !.answers = {}, !.skipped = @ \cup mute, !.meta = metas]
           more == [told EXCEPT !.proven = @ \/ \E a \in here : a[1] = Scope,
                                !.present = @ \cup seenIds, !.absent = @ \cup gone, !.deferred = @ \ gone]
           e == Absorb(d, A)
<1>1. d \in Request /\ A \in SUBSET Answers
  BY DEF Good, Request
<1>2. /\ \A a \in A : a[1] \in Asked
      /\ \A a \in heard : a[1] \in Asked /\ a[2] \in Revisions /\ a[2] \in Times(d, h)
  BY <1>1 DEF Good, Truthful, Timely, Answers
<1>3. ASSUME NEW i \in seenIds
      PROVE  i \in Ids /\ \E r \in Times(d, h) : r \in Revisions /\ typeOf(i) = TypeOf[r][i]
  <2>1. \E a \in here : a[1] = i
    OBVIOUS
  <2>2. PICK a \in here : a = (CHOOSE b \in here : b[1] = i) /\ a[1] = i
    BY <2>1
  <2>3. typeOf(i) = TypeOf[a[2]][i]
    BY <2>2
  <2>4. a \in heard /\ a[1] = i /\ i # Scope
    BY <2>2
  <2> HIDE DEF typeOf, here, seenIds, heard
  <2>5. i \in Ids /\ a[2] \in Times(d, h) /\ a[2] \in Revisions
    BY <1>2, <2>4 DEF Asked
  <2> DEFINE time == a[2]
  <2>6. time \in Times(d, h) /\ time \in Revisions /\ typeOf(i) = TypeOf[time][i]
    BY <2>3, <2>5
  <2> HIDE DEF time
  <2> QED BY <2>5, <2>6
<1>4. ASSUME NEW i \in seenIds
      PROVE  typeOf(i) \in Types /\ typeOf(i) # NotYet
  <2> HIDE DEF typeOf, seenIds, here
  <2>1. PICK r \in Times(d, h) : r \in Revisions /\ typeOf(i) = TypeOf[r][i]
    BY <1>3, <1>4
  <2>2. i \in Ids
    BY <1>3, <1>4
  <2> QED BY <2>1, <2>2, TypesAreKnown
<1>5. ASSUME NEW i \in gone
      PROVE  i \in Ids /\ \E r \in Times(d, h) : File[r][i] = {}
  <2>1. PICK a \in heard : a[1] = i /\ a \notin here
    OBVIOUS
  <2> QED BY <1>2, <2>1 DEF Asked
<1>6. \A i \in Ids : i \in Heard(d) => i \in seenIds \cup gone \cup mute
  BY ResolveAnchorsAssumption DEF Heard, IdsIn
<1>7. seenIds \in SUBSET Ids /\ gone \in SUBSET Ids /\ mute \in SUBSET Ids
  <2>1. mute \in SUBSET Ids
    BY <1>2 DEF Asked
  <2> QED BY <1>3, <1>5, <2>1
<1> HIDE DEF seenIds, gone, mute, typeOf
<1>8. metas \in [Ids -> Types \cup {NotYet}]
  BY <1>1, <1>4 DEF Request
<1>9. e = IF d.phase # "check" THEN told ELSE more
  BY Zenon DEF Absorb, seenIds, gone, mute, typeOf
<1> DEFINE rooted == \E a \in here : a[1] = Scope
<1>10. rooted /\ d.phase = "check" => d.version # NotYet /\ File[d.version][Scope] # {}
  <2> SUFFICES ASSUME NEW a \in here, a[1] = Scope, d.phase = "check"
               PROVE  d.version # NotYet /\ File[d.version][Scope] # {}
    OBVIOUS
  <2>1. d.scoped /\ a[2] \in Times(d, h) /\ a[2] \in Revisions
    BY <1>2 DEF Good, WorkFits
  <2>2. a[2] = d.version
    BY <2>1 DEF Times
  <2> QED BY <2>1, <2>2, ResolveAnchorsAssumption
<1> HIDE DEF rooted, here, heard
<1>11. told \in Request /\ more \in Request
  <2>1. told \in Request
    <3> DEFINE half == [d EXCEPT !.answers = {}]
               mutes == d.skipped \cup mute
    <3>1. half \in Request /\ half.skipped = d.skipped /\ mutes \in SUBSET Ids
      BY <1>1, <1>7 DEF Request
    <3>2. told = [half EXCEPT !.skipped = mutes, !.meta = metas]
      BY <1>1 DEF Request
    <3> HIDE DEF half, mutes, metas, told
    <3> QED BY <1>8, <3>1, <3>2 DEF Request
  <2>2. /\ (told.proven \/ rooted) \in BOOLEAN /\ told.present \cup seenIds \in SUBSET Ids
        /\ told.absent \cup gone \in SUBSET Ids /\ told.deferred \ gone \in SUBSET Ids
    <3> HIDE DEF told
    <3> QED BY <1>7, <2>1 DEF Request
  <2>3. more = [told EXCEPT !.proven = @ \/ rooted, !.present = @ \cup seenIds, !.absent = @ \cup gone,
                            !.deferred = @ \ gone]
    BY DEF rooted
  <2>4. more \in Request
    <3> DEFINE half == [told EXCEPT !.proven = @ \/ rooted, !.present = @ \cup seenIds]
    <3> HIDE DEF told
    <3>1. half \in Request
      BY <2>1, <2>2 DEF Request
    <3>2. half.absent = told.absent /\ half.deferred = told.deferred
      BY <2>1 DEF Request
    <3> DEFINE p == half.absent \cup gone
               q == half.deferred \ gone
    <3>3. more = [half EXCEPT !.absent = p, !.deferred = q]
      BY <2>1, <2>3 DEF Request
    <3>4. p \in SUBSET Ids /\ q \in SUBSET Ids
      BY <2>2, <3>2
    <3> HIDE DEF half, more, p, q
    <3> QED BY <3>1, <3>3, <3>4 DEF Request
  <2> QED BY <2>1, <2>4
<1>12. /\ e \in Request /\ e.answers = {} /\ e.meta = metas /\ e.phase = d.phase /\ e.work = d.work
       /\ e.scoped = d.scoped /\ e.typed = d.typed /\ e.oldest = d.oldest /\ e.version = d.version
       /\ e.member = d.member /\ e.found = d.found /\ e.stop = d.stop
       /\ e.skipped = d.skipped \cup mute
       /\ d.phase # "check" => e.proven = d.proven /\ e.present = d.present /\ e.absent = d.absent
       /\ d.phase = "check" => /\ e.proven = (d.proven \/ rooted) /\ e.present = d.present \cup seenIds
                               /\ e.absent = d.absent \cup gone
  <2>1. /\ told.answers = {} /\ told.meta = metas /\ told.phase = d.phase /\ told.work = d.work
        /\ told.scoped = d.scoped /\ told.typed = d.typed /\ told.oldest = d.oldest /\ told.version = d.version
        /\ told.member = d.member /\ told.found = d.found /\ told.stop = d.stop
        /\ told.proven = d.proven /\ told.present = d.present /\ told.absent = d.absent
        /\ told.skipped = d.skipped \cup mute
    BY <1>1 DEF Request
  <2>2. /\ more.answers = {} /\ more.meta = metas /\ more.phase = d.phase /\ more.work = d.work
        /\ more.scoped = d.scoped /\ more.typed = d.typed /\ more.oldest = d.oldest /\ more.version = d.version
        /\ more.member = d.member /\ more.found = d.found /\ more.stop = d.stop
        /\ more.proven = (d.proven \/ rooted) /\ more.present = d.present \cup seenIds
        /\ more.absent = d.absent \cup gone /\ more.skipped = d.skipped \cup mute
    <3>1. more = [told EXCEPT !.proven = @ \/ rooted, !.present = @ \cup seenIds, !.absent = @ \cup gone,
                              !.deferred = @ \ gone]
      BY DEF rooted
    <3>2. told \in Request
      BY <1>11
    <3> HIDE DEF told, more
    <3>3. /\ more.answers = told.answers /\ more.meta = told.meta /\ more.phase = told.phase
          /\ more.work = told.work /\ more.scoped = told.scoped /\ more.typed = told.typed
          /\ more.oldest = told.oldest /\ more.version = told.version
      BY <3>1, <3>2 DEF Request
    <3>4. /\ more.member = told.member /\ more.found = told.found /\ more.stop = told.stop
          /\ more.proven = (told.proven \/ rooted) /\ more.present = told.present \cup seenIds
          /\ more.absent = told.absent \cup gone /\ more.skipped = told.skipped
      BY <3>1, <3>2 DEF Request
    <3> QED BY <2>1, <3>3, <3>4
  <2> HIDE DEF told, more, e
  <2>3. CASE d.phase # "check"
    BY <1>9, <1>11, <2>1, <2>3
  <2>4. CASE d.phase = "check"
    BY <1>9, <1>11, <2>2, <2>4
  <2> QED BY <2>3, <2>4
<1> HIDE DEF told, more, e
<1>13. Times(e, h) = Times(d, h)
  BY <1>12 DEF Times
<1>14. WorkFits(e)
  BY <1>12 DEF Good, WorkFits
<1>15. ASSUME NEW i \in Ids PROVE MemberTrue(e, i) /\ MetaTrue(e, h, i)
  <2>1. MemberTrue(d, i) /\ MetaTrue(d, h, i)
    BY DEF Good, Truthful, Timely
  <2>2. /\ i \in seenIds => e.meta[i] = typeOf(i) /\ e.meta[i] # NotYet
        /\ i \notin seenIds => e.meta[i] = d.meta[i]
    BY <1>4, <1>12
  <2>3. MetaTrue(e, h, i)
    BY <1>3, <1>13, <2>1, <2>2 DEF MetaTrue
  <2>4. i \in gone /\ d.phase = "check" => d.version # NotYet /\ File[d.version][i] = {}
    <3> SUFFICES ASSUME i \in gone, d.phase = "check" PROVE d.version # NotYet /\ File[d.version][i] = {}
      OBVIOUS
    <3>1. PICK r \in Times(d, h) : File[r][i] = {}
      BY <1>5
    <3>2. r = d.version /\ r \in Revisions
      BY <3>1 DEF Good, WorkFits, Times
    <3> QED BY <3>1, <3>2, ResolveAnchorsAssumption
  <2>5. MemberTrue(e, i)
    BY <1>12, <2>1, <2>2, <2>4 DEF MemberTrue
  <2> QED BY <2>3, <2>5
<1>16. Truthful(e, h)
  BY <1>10, <1>12, <1>15 DEF Good, Truthful, Timely
<1>17. Covered(e, h)
  <2> SUFFICES ASSUME e.stop = NotYet, NEW i \in Ids PROVE Unforgotten(e, h, i)
    BY DEF Covered
  <2>1. Unforgotten(d, h, i) /\ (Told(d, i) <=> Told(e, i))
    BY <1>12 DEF Good, Covered, Told
  <2>2. /\ i \in seenIds => e.meta[i] # NotYet
        /\ i \notin seenIds => e.meta[i] = d.meta[i]
    BY <1>4, <1>12
  <2>3. i \in Heard(d) => i \in seenIds \/ i \in mute \/ (i \in gone /\ \E r \in Times(e, h) : File[r][i] = {})
    BY <1>5, <1>6, <1>13
  <2>4. CASE d.phase = "check"
    BY <1>12, <2>1, <2>3, <2>4 DEF Unforgotten
  <2>5. CASE d.phase # "check"
    BY <1>12, <1>13, <2>1, <2>2, <2>3, <2>5 DEF Unforgotten
  <2> QED BY <2>4, <2>5
<1>18. Halfway(e)
  BY <1>12 DEF Halfway
<1> QED BY <1>12, <1>14, <1>16, <1>17, <1>18 DEF Good, e
(* Answers taken in exchange for the request they answer.                   *)
Taken(d, A) == [d EXCEPT !.work = Tail(@), !.answers = A]
LEMMA TakenIsGood ==
  ASSUME NEW d, NEW h, Good(d, h), d.phase \in {"check", "type", "enrich"}, d.work # <<>>,
         NEW A \in SUBSET Answers, Timely(A, d, h),
         d.stop = NotYet => Heard(d) \cup Head(d.work).ids \subseteq IdsIn(A),
         NEW e, e = Taken(d, A)
  PROVE  Good(e, h) /\ e.phase = d.phase /\ e.answers = A /\ (~Head(d.work).last => e.work # <<>>)
<1> DEFINE w == d.work
           v == Tail(w)
<1>1. d \in Request /\ w \in Seq(FetchTask) /\ Rounded(w)
  BY DEF Good, WorkFits
<1>2. /\ v \in Seq(FetchTask) /\ IdsOf(w) = Head(w).ids \cup IdsOf(v) /\ Rounded(v)
      /\ ~Head(w).last => v # <<>>
  BY <1>1, TailIs, TailAsks
<1> HIDE DEF v
<1>3. e = [d EXCEPT !.work = v, !.answers = A]
  BY <1>1 DEF Request, Taken, v
<1>4. v \in Seq(ProjectionTask \cup FetchTask)
  BY <1>2
<1>5. e \in Request
  <2> DEFINE x == [d EXCEPT !.work = v]
  <2>1. x \in Request
    BY <1>1, <1>4 DEF Request
  <2>2. e = [x EXCEPT !.answers = A]
    BY <1>1, <1>3 DEF Request
  <2> HIDE DEF x, w
  <2>3. \A tells : \A B \in tells : x \in Request /\ tells = SUBSET Answers =>
                                     [x EXCEPT !.answers = B] \in Request
    BY DEF Request
  <2> QED BY <2>1, <2>2, <2>3
<1>6. e.phase = d.phase /\ e.work = v /\ e.answers = A /\ e.stop = d.stop /\ AlikeNotes(d, e)
  <2>1. e.phase = d.phase /\ e.work = v /\ e.answers = A /\ e.stop = d.stop
    BY <1>1, <1>3 DEF Request
  <2>2. AlikeNotes(d, e)
    BY <1>1, <1>3 DEF Request, AlikeNotes
  <2> QED BY <2>1, <2>2
<1>7. WorkFits(e)
  BY <1>2, <1>6 DEF Good, WorkFits, AlikeNotes
<1>8. Times(e, h) = Times(d, h)
  BY <1>6 DEF Times, AlikeNotes
<1>9. Truthful(e, h)
  BY <1>6, <1>8 DEF Good, Truthful, Timely, MemberTrue, MetaTrue, AlikeNotes
<1>10. Covered(e, h)
  <2> SUFFICES ASSUME e.stop = NotYet, NEW i \in Ids PROVE Unforgotten(e, h, i)
    BY DEF Covered
  <2>1. i \in IdsOf(d.work) \cup Heard(d) => i \in IdsOf(e.work) \cup Heard(e)
    BY <1>2, <1>6 DEF Heard
  <2>2. Unforgotten(d, h, i) /\ (Told(d, i) <=> Told(e, i))
    BY <1>6 DEF Good, Covered, Told, AlikeNotes
  <2> QED BY <1>6, <1>8, <2>1, <2>2 DEF Unforgotten, AlikeNotes
<1> QED BY <1>1, <1>2, <1>5, <1>6, <1>7, <1>9, <1>10 DEF Good

LEMMA EndsIsGood ==
  ASSUME NEW d, NEW h, Good(d, h), d.phase \in {"check", "type", "enrich"}, d.work # <<>>,
         NEW A \in SUBSET Answers, Timely(A, d, h),
         d.stop = NotYet => Heard(d) \cup Head(d.work).ids \subseteq IdsIn(A)
  PROVE  LET e == Absorb([d EXCEPT !.work = Tail(@)], A) IN Good(e, h) /\ Halfway(e)
<1> DEFINE x == [d EXCEPT !.work = Tail(@)]
           y == [d EXCEPT !.work = Tail(@), !.answers = A]
<1>1. d \in Request
  BY DEF Good
<1>2. Good(y, h) /\ y.phase = d.phase /\ y.answers = A
  <2>1. y = Taken(d, A)
    BY DEF Taken
  <2> HIDE DEF y
  <2> QED BY <2>1, TakenIsGood
<1>3. Absorb(x, A) = Absorb(y, A)
  <2> DEFINE heard == {a \in A : a[2] # NotYet}
             here == {a \in heard : File[a[2]][a[1]] # {}}
             some == {a[1] : a \in here} \ {Scope}
             mute == {a[1] : a \in A \ heard} \ {Scope}
             typeOf(i) == LET a == CHOOSE a \in here : a[1] = i IN TypeOf[a[2]][i]
             told(z) == [z EXCEPT !.answers = {}, !.skipped = @ \cup mute,
                                  !.meta = [i \in Ids |-> IF i \in some THEN typeOf(i) ELSE @[i]]]
             more(z) == [z EXCEPT !.proven = @ \/ \E a \in here : a[1] = Scope, !.present = @ \cup some,
                                  !.absent = @ \cup ({a[1] : a \in heard \ here} \ {Scope}),
                                  !.deferred = @ \ ({a[1] : a \in heard \ here} \ {Scope})]
  <2>1. \A z : Absorb(z, A) = IF z.phase # "check" THEN told(z) ELSE more(told(z))
    BY Zenon DEF Absorb
  <2> HIDE DEF some, mute, typeOf, more
  <2>2. told(x) = told(y) /\ x.phase = y.phase
    <3> DEFINE f == [i \in Ids |-> IF i \in some THEN typeOf(i) ELSE d.meta[i]]
               g == d.skipped \cup mute
    <3>1. /\ told(x) = [x EXCEPT !.answers = {}, !.skipped = g, !.meta = f]
          /\ told(y) = [y EXCEPT !.answers = {}, !.skipped = g, !.meta = f]
      BY <1>1 DEF Request
    <3> HIDE DEF f, g
    <3>2. /\ [x EXCEPT !.answers = {}, !.skipped = g, !.meta = f] = [y EXCEPT !.answers = {}, !.skipped = g, !.meta = f]
          /\ x.phase = y.phase
      BY <1>1 DEF Request
    <3> HIDE DEF told, x, y
    <3> QED BY <3>1, <3>2
  <2> HIDE DEF told, x, y
  <2> QED BY <2>1, <2>2
<1> HIDE DEF x, y
<1>4. Good(Absorb(y, y.answers), h) /\ Halfway(Absorb(y, y.answers))
  BY <1>2, AbsorbedIsGood
<1> QED BY <1>2, <1>3, <1>4 DEF x

(* A batch too large is asked for in halves.                                *)
LEMMA HalvedIsGood ==
  ASSUME NEW d, NEW h, Good(d, h), d.phase \in {"check", "type", "enrich"}, d.work # <<>>,
         NEW a \in FetchTask, NEW b \in FetchTask,
         a.ids \cup b.ids = Head(d.work).ids, b.last = Head(d.work).last
  PROVE  LET e == [d EXCEPT !.work = <<a, b>> \o Tail(@)] IN Good(e, h) /\ Halfway(e)
<1> DEFINE w == d.work
           v == <<a, b>> \o Tail(w)
           e == [d EXCEPT !.work = <<a, b>> \o Tail(@)]
<1>1. d \in Request /\ w \in Seq(FetchTask) /\ Rounded(w)
  BY DEF Good, WorkFits
<1>2. v \in Seq(FetchTask) /\ v # <<>> /\ IdsOf(v) = IdsOf(w) /\ Rounded(v)
  BY <1>1, SplitAsks
<1> HIDE DEF v
<1>3. e = [d EXCEPT !.work = v]
  BY <1>1 DEF Request, v
<1>4. v \in Seq(ProjectionTask \cup FetchTask)
  BY <1>2
<1>5. e \in Request
  BY <1>1, <1>3, <1>4 DEF Request
<1>6. e.phase = d.phase /\ e.work = v /\ e.answers = d.answers /\ e.stop = d.stop /\ AlikeNotes(d, e)
  BY <1>1, <1>3 DEF Request, AlikeNotes
<1> HIDE DEF e
<1>7. WorkFits(e)
  BY <1>2, <1>6 DEF Good, WorkFits, AlikeNotes
<1>8. Truthful(e, h)
  BY <1>6 DEF Good, Truthful, Timely, MemberTrue, MetaTrue, Times, AlikeNotes
<1>9. Covered(e, h)
  BY <1>2, <1>6 DEF Good, Covered, Unforgotten, Told, Heard, Times, AlikeNotes
<1>10. Halfway(e)
  BY <1>2, <1>6 DEF Halfway
<1> QED BY <1>5, <1>7, <1>8, <1>9, <1>10 DEF Good, e

LEMMA FetchStep ==
  ASSUME AnchorsIInv, FetchNodes
  PROVE  Good(call', head) /\ Halfway(call')
<1> DEFINE t == Head(call.work)
           sent == [call EXCEPT !.calls = @ + 1]
           With(r, told) == call.answers \cup {<<i, IF i \in told THEN r ELSE NotYet>> : i \in t.ids}
           Ending(d, A) == Absorb([d EXCEPT !.work = Tail(@)], A)
<1>1. /\ Good(call, head) /\ call \in Request /\ call.phase \in {"check", "type", "enrich"}
      /\ call.stop = NotYet /\ call.work # <<>> /\ call.work \in Seq(FetchTask)
      /\ head \in Revisions /\ remembered \in Revisions /\ expired \in BOOLEAN
  BY DEF AnchorsIInv, Good, WorkFits, FetchNodes, Working
<1>2. t \in FetchTask /\ t.ids \in SUBSET Asked /\ t.last \in BOOLEAN /\ t.ids \subseteq IdsOf(call.work)
  <2>1. t \in FetchTask
    BY <1>1, TailIs
  <2> QED BY <1>1, <2>1, TailAsks DEF FetchTask
<1>3. ASSUME NEW r \in Served, NEW i \in t.ids PROVE r \in Revisions /\ r \in Times(call, head)
  <2>1. CASE call.scoped
    <3>1. call.version # NotYet
      BY <1>1, <1>2, <1>3, <2>1 DEF Good, WorkFits
    <3> QED BY <1>1, <1>3, <2>1, <3>1 DEF Served, Times, Request
  <2>2. CASE ~call.scoped
    <3>1. call.version = NotYet /\ call.oldest <= remembered
      BY <1>1, <2>2 DEF Good, WorkFits, Truthful
    <3>2. r \in Revisions /\ remembered <= r /\ r <= head
      BY <1>3, <3>1 DEF Served
    <3>3. call.oldest \in Nat /\ remembered \in Nat /\ r \in Nat
      BY <1>1, <3>2, ResolveAnchorsAssumption DEF Request
    <3>4. call.oldest <= r
      BY <3>1, <3>2, <3>3
    <3> QED BY <2>2, <3>2, <3>4 DEF Times
  <2> QED BY <2>1, <2>2
<1>4. call.answers \in SUBSET Answers /\ Timely(call.answers, call, head)
  BY <1>1 DEF Request, Good, Truthful
<1>5. ASSUME NEW r \in Served, NEW told \in SUBSET t.ids
      PROVE  /\ With(r, told) \in SUBSET Answers /\ Timely(With(r, told), call, head)
             /\ Heard(call) \cup t.ids \subseteq IdsIn(With(r, told))
  <2> DEFINE of(i) == IF i \in told THEN r ELSE NotYet
  <2>1. ASSUME NEW i \in t.ids
        PROVE  /\ i \in Asked /\ of(i) \in Revisions \cup {NotYet}
               /\ of(i) # NotYet => of(i) \in Times(call, head)
    BY <1>2, <1>3, <1>5
  <2>2. With(r, told) = call.answers \cup {<<i, of(i)>> : i \in t.ids}
    OBVIOUS
  <2> DEFINE all == With(r, told)
  <2> HIDE DEF of, t, With
  <2>3. ASSUME NEW a \in all PROVE a \in Answers /\ (a[2] # NotYet => a[2] \in Times(call, head))
    <3>1. CASE a \in call.answers
      BY <1>4, <3>1 DEF Timely
    <3>2. CASE a \notin call.answers
      <4>1. PICK i \in t.ids : a = <<i, of(i)>>
        BY <2>2, <3>2
      <4> QED BY <2>1, <4>1 DEF Answers
    <3> QED BY <3>1, <3>2
  <2>4. ASSUME NEW i \in t.ids PROVE i \in IdsIn(all)
    <3>1. <<i, of(i)>> \in all /\ <<i, of(i)>>[1] = i
      BY <2>2
    <3> QED BY <3>1 DEF IdsIn
  <2>5. Heard(call) \subseteq IdsIn(all)
    BY <2>2 DEF Heard, IdsIn
  <2> QED BY <2>3, <2>4, <2>5 DEF Timely
<1>6. ASSUME Refusal = NotYet
      PROVE  Good(sent, head) /\ AlikeNotes(call, sent) /\ AlikeWork(call, sent) /\ sent.stop = NotYet
  <2>1. [call EXCEPT !.calls = @ + 1, !.attempted = @ \cup {}] = sent
    BY <1>1 DEF Request
  <2> HIDE DEF sent
  <2>2. call.calls < CallCap
    BY <1>1, <1>6, RefusalIs
  <2> QED BY <1>1, <2>1, <2>2, SentIs
<1> DEFINE Fine(A) == /\ A \in SUBSET Answers /\ Timely(A, call, head)
                      /\ Heard(call) \cup t.ids \subseteq IdsIn(A)
<1> HIDE DEF t, sent, With, Ending
<1>7. ASSUME NEW d, Good(d, head), AlikeNotes(call, d), AlikeWork(call, d), d.stop # NotYet,
             NEW A \in SUBSET Answers, Timely(A, call, head)
      PROVE  Good(Ending(d, A), head) /\ Halfway(Ending(d, A))
  <2>1. d.phase \in {"check", "type", "enrich"} /\ d.work # <<>> /\ Times(d, head) = Times(call, head)
    BY <1>1, <1>7 DEF AlikeNotes, AlikeWork, Times
  <2>2. Timely(A, d, head)
    BY <1>7, <2>1 DEF Timely
  <2> QED BY <1>7, <2>1, <2>2, EndsIsGood DEF Ending
<1>8. ASSUME NEW d, d = call \/ (Refusal = NotYet /\ d = sent), NEW why \in Reasons
      PROVE  LET e == Halt(d, why)
             IN  Good(e, head) /\ AlikeNotes(call, e) /\ AlikeWork(call, e) /\ e.stop # NotYet
  <2>1. Good(d, head) /\ AlikeNotes(call, d) /\ AlikeWork(call, d) /\ d \in Request
    BY <1>1, <1>6, <1>8 DEF AlikeNotes, AlikeWork, Good
  <2> QED BY <2>1, HaltIs, HaltKeeps DEF AlikeNotes, AlikeWork
<1>9. ASSUME NEW A \in SUBSET Answers, Timely(A, call, head), NEW B \in SUBSET A
      PROVE  B \in SUBSET Answers /\ Timely(B, call, head)
  BY <1>9 DEF Timely
<1>10. CASE \E why \in Reasons, A \in SUBSET call.answers : call' = Ending(Halt(call, why), A)
  <2>1. PICK why \in Reasons, A \in SUBSET call.answers : call' = Ending(Halt(call, why), A)
    BY <1>10
  <2>2. A \in SUBSET Answers /\ Timely(A, call, head)
    BY <1>4, <1>9
  <2> QED BY <1>7, <1>8, <2>1, <2>2
<1>11. ASSUME Refusal = NotYet, NEW why \in Reasons, NEW A \in SUBSET Answers, Timely(A, call, head),
              call' = Ending(Halt(sent, why), A)
       PROVE  Good(call', head) /\ Halfway(call')
  BY <1>7, <1>8, <1>11
<1>12. ASSUME Refusal = NotYet
       PROVE  /\ sent.phase \in {"check", "type", "enrich"} /\ sent.work = call.work /\ sent.work # <<>>
              /\ Head(sent.work) = t /\ Times(sent, head) = Times(call, head) /\ Heard(sent) = Heard(call)
  BY <1>1, <1>6, <1>12 DEF AlikeNotes, AlikeWork, Times, Heard, t
<1>13. ASSUME Refusal = NotYet, NEW A, Fine(A), call' = Ending(sent, A)
       PROVE  Good(call', head) /\ Halfway(call')
  <2>1. Timely(A, sent, head)
    BY <1>12, <1>13 DEF Timely
  <2>2. Heard(sent) \cup Head(sent.work).ids \subseteq IdsIn(A)
    BY <1>12, <1>13
  <2> QED BY <1>6, <1>12, <1>13, <2>1, <2>2, EndsIsGood DEF Ending
<1>14. ASSUME Refusal = NotYet, ~t.last, NEW A, Fine(A), call' = [sent EXCEPT !.work = Tail(@), !.answers = A]
       PROVE  Good(call', head) /\ Halfway(call')
  <2> DEFINE e == [sent EXCEPT !.work = Tail(@), !.answers = A]
  <2>1. Good(e, head) /\ e.phase = sent.phase /\ (~Head(sent.work).last => e.work # <<>>)
    <3>1. A \in SUBSET Answers /\ Timely(A, sent, head)
      BY <1>12, <1>14 DEF Timely
    <3>2. /\ Good(sent, head) /\ sent.phase \in {"check", "type", "enrich"} /\ sent.work # <<>>
          /\ Heard(sent) \cup Head(sent.work).ids \subseteq IdsIn(A)
      BY <1>6, <1>12, <1>14
    <3>3. e = Taken(sent, A)
      BY DEF Taken
    <3> HIDE DEF e, Fine
    <3> QED BY <3>1, <3>2, <3>3, TakenIsGood
  <2>2. call' = e
    BY <1>14
  <2> HIDE DEF e
  <2> QED BY <1>12, <1>14, <2>1, <2>2 DEF Halfway
<1>15. CASE /\ Refusal = NotYet
            /\ call' = [sent EXCEPT !.work = <<[ids |-> Half(t.ids), last |-> FALSE],
                                               [t EXCEPT !.ids = Other(@)]>> \o Tail(@)]
  <2> DEFINE a == [ids |-> Half(t.ids), last |-> FALSE]
             b == [t EXCEPT !.ids = Other(t.ids)]
  <2>1. a \in FetchTask /\ b \in FetchTask /\ a.ids \cup b.ids = t.ids /\ b.last = t.last
    BY <1>2, HalvesMake DEF FetchTask
  <2>2. call' = [sent EXCEPT !.work = <<a, b>> \o Tail(@)]
    BY <1>15
  <2> HIDE DEF a, b
  <2>3. LET e == [sent EXCEPT !.work = <<a, b>> \o Tail(@)] IN Good(e, head) /\ Halfway(e)
    BY <1>6, <1>12, <1>15, <2>1, HalvedIsGood
  <2> QED BY <2>2, <2>3
<1>16. {"deadline", "metadata_error", "unknown_scope"} \subseteq Reasons
       /\ (Refusal # NotYet => Refusal \in Reasons) /\ (Refusal = NotYet => ~expired)
  BY <1>1, RefusalIs DEF Reasons
<1> DEFINE Late(d) == IF expired' THEN Halt(d, "deadline") ELSE d
<1>17. ASSUME NEW d, NEW why \in Reasons, d = Halt(call, why) \/ (Refusal = NotYet /\ d = Halt(sent, why))
       PROVE  Late(d) = d
  <2>1. d.stop # NotYet
    BY <1>8, <1>17
  <2> QED BY <2>1 DEF Halt
<1>18. \/ /\ Refusal # NotYet
          /\ \E A \in SUBSET call.answers : call' = Ending(Late(Halt(call, Refusal)), A)
       \/ /\ Refusal = NotYet
          /\ \/ \E r \in Served, told \in SUBSET t.ids :
                  \/ \E A \in SUBSET With(r, told) :
                        (expired' \/ A = With(r, told)) /\ call' = Ending(Late(sent), A)
                  \/ ~t.last /\ call' = [sent EXCEPT !.work = Tail(@), !.answers = With(r, told)]
             \/ call' = [sent EXCEPT !.work = <<[ids |-> Half(t.ids), last |-> FALSE],
                                                [t EXCEPT !.ids = Other(@)]>> \o Tail(@)]
             \/ \E why \in {"metadata_error", "unknown_scope"}, A \in SUBSET call.answers :
                  call' = Ending(Late(Halt(sent, why)), A)
  <2> DEFINE Ends(d, A) == \E part \in SUBSET A : (expired' \/ part = A) /\ call' = Ending(Late(d), part)
             next == [sent EXCEPT !.work = <<[ids |-> Half(t.ids), last |-> FALSE],
                                             [t EXCEPT !.ids = Other(@)]>> \o Tail(@)]
             Kept(A) == [sent EXCEPT !.work = Tail(@), !.answers = A]
  <2>1. \/ Refusal # NotYet /\ Ends(Halt(call, Refusal), IF expired THEN {} ELSE call.answers)
        \/ /\ Refusal = NotYet
           /\ \/ \E r \in Served, told \in SUBSET t.ids :
                   IF t.last \/ expired' THEN Ends(sent, With(r, told)) ELSE call' = Kept(With(r, told))
              \/ call' = next
              \/ Ends(Halt(sent, "metadata_error"), call.answers)
              \/ Ends(Halt(sent, "unknown_scope"), call.answers)
    BY DEF FetchNodes, Ending, t, sent, With
  <2> HIDE DEF Late, next, Kept
  <2>2. Refusal # NotYet /\ Ends(Halt(call, Refusal), IF expired THEN {} ELSE call.answers) =>
          \E A \in SUBSET call.answers : call' = Ending(Late(Halt(call, Refusal)), A)
    OBVIOUS
  <2>3. ASSUME NEW r \in Served, NEW told \in SUBSET t.ids,
               IF t.last \/ expired' THEN Ends(sent, With(r, told)) ELSE call' = Kept(With(r, told))
        PROVE  \/ \E A \in SUBSET With(r, told) :
                     (expired' \/ A = With(r, told)) /\ call' = Ending(Late(sent), A)
               \/ ~t.last /\ call' = Kept(With(r, told))
    BY <2>3
  <2>4. ASSUME NEW why \in {"metadata_error", "unknown_scope"}, Ends(Halt(sent, why), call.answers)
        PROVE  \E A \in SUBSET call.answers : call' = Ending(Late(Halt(sent, why)), A)
    BY <2>4
  <2> HIDE DEF Ends
  <2> QED BY <2>1, <2>2, <2>3, <2>4 DEF Late, next, Kept
<1>19. CASE /\ Refusal # NotYet
            /\ \E A \in SUBSET call.answers : call' = Ending(Late(Halt(call, Refusal)), A)
  BY <1>10, <1>16, <1>17, <1>19
<1>20. CASE /\ Refusal = NotYet
            /\ \E r \in Served, told \in SUBSET t.ids :
                  \/ \E A \in SUBSET With(r, told) :
                        (expired' \/ A = With(r, told)) /\ call' = Ending(Late(sent), A)
                  \/ ~t.last /\ call' = [sent EXCEPT !.work = Tail(@), !.answers = With(r, told)]
  <2>1. PICK r \in Served, told \in SUBSET t.ids :
               \/ \E A \in SUBSET With(r, told) :
                     (expired' \/ A = With(r, told)) /\ call' = Ending(Late(sent), A)
               \/ ~t.last /\ call' = [sent EXCEPT !.work = Tail(@), !.answers = With(r, told)]
    BY <1>20
  <2> DEFINE all == With(r, told)
  <2>2. Fine(all)
    BY <1>5
  <2> HIDE DEF Fine
  <2>3. CASE ~t.last /\ call' = [sent EXCEPT !.work = Tail(@), !.answers = all]
    <3> HIDE DEF all
    <3> QED BY <1>14, <1>20, <2>2, <2>3
  <2>4. ASSUME NEW A \in SUBSET all, expired', call' = Ending(Late(sent), A)
        PROVE  Good(call', head) /\ Halfway(call')
    <3>1. A \in SUBSET Answers /\ Timely(A, call, head)
      BY <1>9, <2>2 DEF Fine
    <3> HIDE DEF all
    <3> QED BY <1>11, <1>16, <1>20, <2>4, <3>1
  <2>5. CASE call' = Ending(sent, all)
    <3> HIDE DEF all
    <3> QED BY <1>13, <1>20, <2>2, <2>5
  <2> QED BY <2>1, <2>3, <2>4, <2>5
<1>21. CASE /\ Refusal = NotYet
            /\ \E why \in {"metadata_error", "unknown_scope"}, A \in SUBSET call.answers :
                 call' = Ending(Late(Halt(sent, why)), A)
  <2>1. PICK why \in {"metadata_error", "unknown_scope"}, A \in SUBSET call.answers :
          call' = Ending(Late(Halt(sent, why)), A)
    BY <1>21
  <2>2. why \in Reasons /\ A \in SUBSET Answers /\ Timely(A, call, head)
    BY <1>4, <1>9, <1>16
  <2>3. Late(Halt(sent, why)) = Halt(sent, why)
    BY <1>17, <1>21, <2>2
  <2> QED BY <1>11, <1>21, <2>1, <2>2, <2>3
<1> QED BY <1>15, <1>18, <1>19, <1>20, <1>21
--------------------------------------------------------------------------------
(* From phase to phase.                                                     *)
LEMMA PhasesAre ==
  /\ "project" \in Phases /\ "check" \in Phases /\ "deepen" \in Phases /\ "type" \in Phases
  /\ "enrich" \in Phases /\ "done" \in Phases /\ "idle" \in Phases
BY DEF Phases

LEMMA OntoIs ==
  ASSUME NEW d \in Request, NEW p \in Phases, NEW w, w \in Seq(ProjectionTask) \/ w \in Seq(FetchTask),
         NEW e, e = Onto(d, p, w)
  PROVE  /\ e \in Request /\ e.phase = p /\ e.work = w /\ e.answers = d.answers
         /\ e.stop = d.stop /\ AlikeNotes(d, e)
<1>1. w \in Seq(ProjectionTask \cup FetchTask)
  <2>1. CASE w \in Seq(ProjectionTask)
    BY <2>1
  <2>2. CASE w \in Seq(FetchTask)
    BY <2>2
  <2> QED BY <2>1, <2>2
<1> QED BY <1>1 DEF Onto, Request, AlikeNotes

LEMMA EmptyFits ==
  <<>> \in Seq(ProjectionTask) /\ <<>> \in Seq(FetchTask) /\ Heard([answers |-> {}]) = {} /\ IdsIn({}) = {}
BY DEF Heard, IdsIn

(* A phase that is over without a stop has nothing left to ask or to tell.   *)
LEMMA OverIsQuiet ==
  ASSUME AnchorsIInv, LoopOver, call.stop = NotYet
  PROVE  call.work = <<>> /\ call.answers = {} /\ IdsOf(call.work) = {} /\ Heard(call) = {}
BY EmptyFits, NothingAsked DEF AnchorsIInv, Halfway, LoopOver, Heard

LEMMA EndProjectStep ==
  ASSUME AnchorsIInv, EndProject
  PROVE  Good(call', head) /\ Halfway(call')
<1> DEFINE checks == (Ids \ call.found) \cup (IF call.proven THEN {} ELSE {Scope})
           w == IF call.version # NotYet /\ call.stop = NotYet THEN Fetches(checks) ELSE <<>>
<1>1. call \in Request /\ Good(call, head) /\ call.phase = "project" /\ LoopOver /\ call.scoped
  BY DEF AnchorsIInv, Good, EndProject, WorkFits
<1>2. checks \in SUBSET Asked
  BY DEF Asked
<1>3. /\ w \in Seq(FetchTask) /\ Rounded(w) /\ (call.version = NotYet => IdsOf(w) = {})
      /\ call.version # NotYet /\ call.stop = NotYet => IdsOf(w) = checks
  BY <1>2, FetchesFit, EmptyFits, NothingAsked DEF Rounded, IdsOf
<1>4. call' = Onto(call, "check", w)
  BY Zenon DEF EndProject
<1> HIDE DEF w
<1>5. /\ call' \in Request /\ call'.phase = "check" /\ call'.work = w /\ call'.answers = call.answers
      /\ call'.stop = call.stop /\ AlikeNotes(call, call')
  <2>1. call \in Request /\ w \in Seq(FetchTask) /\ "check" \in Phases
    BY <1>1, <1>3, PhasesAre
  <2> QED BY <1>4, <2>1, OntoIs
<1>6. WorkFits(call')
  BY <1>1, <1>3, <1>5 DEF AlikeNotes, WorkFits
<1>7. Truthful(call', head)
  BY <1>1, <1>5 DEF Good, Truthful, Timely, MemberTrue, MetaTrue, Times, AlikeNotes
<1>8. Covered(call', head)
  BY <1>1, <1>3, <1>5 DEF Good, Covered, Unforgotten, Told, AlikeNotes
<1>9. Halfway(call')
  BY <1>1, <1>5, OverIsQuiet DEF Halfway
<1> QED BY <1>5, <1>6, <1>7, <1>8, <1>9 DEF Good

LEMMA EndCheckStep ==
  ASSUME AnchorsIInv, EndCheck
  PROVE  Good(call', head) /\ Halfway(call')
<1> DEFINE told == IF call.deferred # {} THEN Halt(call, "metadata_error") ELSE call
           d == Rooted(told)
           m == [i \in Ids |-> IF i \in call.absent THEN IF call.proven THEN "no" ELSE "unknown" ELSE call.member[i]]
           x == [d EXCEPT !.depth = FirstDepth + 1, !.member = m]
           w == Projections(call.present, FirstDepth + 1)
<1>1. call \in Request /\ Good(call, head) /\ call.phase = "check" /\ LoopOver /\ call.scoped
  BY DEF AnchorsIInv, Good, EndCheck, WorkFits
<1>2. /\ told \in Request /\ AlikeNotes(call, told) /\ told.answers = call.answers
      /\ told.stop = NotYet => call.stop = NotYet
  BY <1>1, HaltIs DEF Reasons, AlikeWork, AlikeNotes
<1> HIDE DEF told
<1>3. /\ d \in Request /\ AlikeNotes(call, d) /\ d.answers = call.answers
      /\ d.stop = NotYet => call.stop = NotYet /\ (Ids # {} => call.proven)
  BY <1>2, HaltIs DEF Rooted, Reasons, AlikeWork, AlikeNotes
<1> HIDE DEF d
<1>4. m \in [Ids -> Verdicts] /\ FirstDepth + 1 \in Int
  BY <1>1, ResolveAnchorsAssumption DEF Request, Verdicts
<1> HIDE DEF m
<1>5. /\ x \in Request /\ x.member = m /\ x.answers = call.answers /\ x.stop = d.stop
      /\ x.scoped = call.scoped /\ x.typed = call.typed /\ x.oldest = call.oldest /\ x.version = call.version
      /\ x.proven = call.proven /\ x.meta = call.meta /\ x.found = call.found /\ x.present = call.present
      /\ x.absent = call.absent /\ x.skipped = call.skipped
  BY <1>3, <1>4 DEF Request, AlikeNotes
<1>6. call' = Onto(x, "deepen", w)
  <2>1. d.member = call.member
    BY <1>3 DEF AlikeNotes
  <2>2. x = [d EXCEPT !.depth = FirstDepth + 1,
                      !.member = [i \in Ids |-> IF i \in call.absent THEN IF call.proven THEN "no" ELSE "unknown"
                                                ELSE @[i]]]
    BY <2>1 DEF m
  <2> HIDE DEF x
  <2> QED BY <2>2, Zenon DEF EndCheck, d, told
<1>7. w \in Seq(ProjectionTask)
  BY <1>1, <1>4, ProjectionsFit DEF Request
<1> HIDE DEF x, w
<1>8. /\ call' \in Request /\ call'.phase = "deepen" /\ call'.work = w /\ call'.answers = call.answers
      /\ call'.stop = d.stop /\ AlikeNotes(x, call')
  <2>1. x \in Request /\ w \in Seq(ProjectionTask) /\ "deepen" \in Phases
    BY <1>5, <1>7, PhasesAre
  <2>2. /\ call' \in Request /\ call'.phase = "deepen" /\ call'.work = w /\ call'.answers = x.answers
        /\ call'.stop = x.stop /\ AlikeNotes(x, call')
    BY <1>6, <2>1, OntoIs
  <2> QED BY <1>5, <2>2
<1>9. /\ call'.scoped = call.scoped /\ call'.typed = call.typed /\ call'.oldest = call.oldest
      /\ call'.version = call.version /\ call'.proven = call.proven /\ call'.meta = call.meta
      /\ call'.found = call.found /\ call'.present = call.present /\ call'.absent = call.absent
      /\ call'.skipped = call.skipped
      /\ call'.member = m
  BY <1>5, <1>8 DEF AlikeNotes
<1>10. WorkFits(call')
  BY <1>1, <1>7, <1>8, <1>9 DEF WorkFits
<1>11. ASSUME NEW i \in Ids PROVE MemberTrue(call', i) /\ MetaTrue(call', head, i)
  <2>1. MemberTrue(call, i) /\ MetaTrue(call, head, i)
    BY <1>1 DEF Good, Truthful
  <2>2. MetaTrue(call', head, i)
    BY <1>9, <2>1 DEF MetaTrue, Times
  <2>3. m[i] = IF i \in call.absent THEN IF call.proven THEN "no" ELSE "unknown" ELSE call.member[i]
    BY DEF m
  <2>4. MemberTrue(call', i)
    BY <1>8, <1>9, <2>1, <2>3 DEF MemberTrue
  <2> QED BY <2>2, <2>4
<1>12. Truthful(call', head)
  BY <1>1, <1>8, <1>9, <1>11 DEF Good, Truthful, Timely, Times
<1>13. Covered(call', head)
  <2> SUFFICES ASSUME call'.stop = NotYet, NEW i \in Ids PROVE Unforgotten(call', head, i)
    BY DEF Covered
  <2>1. call.stop = NotYet /\ call.proven /\ IdsOf(call.work) = {} /\ Heard(call) = {}
    BY <1>1, <1>3, <1>8, OverIsQuiet
  <2>2. Unforgotten(call, head, i) /\ call.version # NotYet
    BY <1>1, <2>1 DEF Good, Covered, Truthful
  <2>3. m[i] = IF i \in call.absent THEN "no" ELSE call.member[i]
    BY <2>1 DEF m
  <2>4. i \in call.found \cup call.present \cup call.absent \cup call.skipped
    BY <1>1, <2>1, <2>2 DEF Unforgotten
  <2>5. i \in call.found \cup call.absent => Told(call', i)
    BY <1>9, <2>2, <2>3 DEF Unforgotten, Told
  <2> QED BY <1>8, <1>9, <2>1, <2>4, <2>5 DEF Unforgotten
<1>14. Halfway(call')
  BY <1>1, <1>3, <1>8, OverIsQuiet DEF Halfway
<1> QED BY <1>8, <1>10, <1>12, <1>13, <1>14 DEF Good

LEMMA DeepenStep ==
  ASSUME AnchorsIInv, Deepen
  PROVE  Good(call', head) /\ Halfway(call')
<1> DEFINE w == Projections(call.present \ call.found, NextDepth)
           x == [call EXCEPT !.depth = NextDepth]
<1>1. /\ call \in Request /\ Good(call, head) /\ call.phase = "deepen" /\ call.stop = NotYet
      /\ call.work = <<>> /\ call.answers = {} /\ NextDepth \in Int
  BY DEF AnchorsIInv, Good, Deepen, Halfway, NextDepth, Request
<1>2. w \in Seq(ProjectionTask)
  BY <1>1, ProjectionsFit DEF Request
<1>3. x \in Request /\ AlikeNotes(call, x) /\ AlikeWork(call, x) /\ x.stop = NotYet /\ x.deferred \in SUBSET Ids
  BY <1>1 DEF Request, AlikeNotes, AlikeWork
<1>4. Good(x, head) /\ x.phase = "deepen" /\ x.answers = {}
  BY <1>1, <1>3, AlikeIsGood DEF AlikeWork
<1>5. call' = [call EXCEPT !.depth = NextDepth, !.work = w]
  BY DEF Deepen
<1> HIDE DEF w
<1>6. call' = Reworked(x, w, x.deferred)
  BY <1>1, <1>3, <1>5 DEF Request, Reworked
<1> HIDE DEF x
<1>7. Good(call', head) /\ call'.answers = {}
  <2>1. x.phase \in {"project", "deepen"} /\ x.deferred \in SUBSET Ids /\ Good(x, head)
    BY <1>3, <1>4
  <2>2. GoodStill(x, Reworked(x, w, x.deferred), head)
    BY <1>2, <2>1, WorkChanges
  <2> QED BY <1>4, <1>6, <2>2 DEF GoodStill
<1> QED BY <1>7 DEF Halfway

(* What the type filter asks for, with and without a scope.                 *)
LEMMA ToTypeIs ==
  ASSUME NEW d \in Request, NEW e, e = ToType(d)
  PROVE  /\ e \in Request /\ e.phase = "type" /\ e.answers = d.answers /\ e.stop = d.stop /\ AlikeNotes(d, e)
         /\ e.work \in Seq(FetchTask) /\ Rounded(e.work)
         /\ d.scoped => \A i \in IdsOf(e.work) : i \in Ids /\ d.member[i] = "yes"
         /\ ~d.scoped /\ d.typed => \A i \in Ids : d.meta[i] = NotYet => i \in IdsOf(e.work)
<1> DEFINE open == {i \in Ids : (d.scoped => d.member[i] = "yes") /\ d.meta[i] = NotYet}
           w == IF d.typed THEN Fetches(open) ELSE <<>>
<1>1. open \in SUBSET Asked
  BY DEF Asked
<1>2. /\ w \in Seq(FetchTask) /\ Rounded(w) /\ IdsOf(w) \subseteq open /\ (d.typed => IdsOf(w) = open)
  <2>1. CASE d.typed
    <3>1. w = Fetches(open)
      BY <2>1
    <3> HIDE DEF w, open
    <3>2. Fetches(open) \in Seq(FetchTask) /\ Rounded(Fetches(open)) /\ IdsOf(Fetches(open)) = open
      BY <1>1, FetchesFit DEF Rounded, IdsOf
    <3> QED BY <2>1, <3>1, <3>2
  <2>2. CASE ~d.typed
    <3>1. w = <<>>
      BY <2>2
    <3> HIDE DEF w, open
    <3> QED BY <2>2, <3>1, EmptyFits, NothingAsked DEF Rounded
  <2> QED BY <2>1, <2>2
<1>3. e = Onto(d, "type", w)
  BY DEF ToType
<1> HIDE DEF w
<1>5. w \in Seq(FetchTask) /\ "type" \in Phases
  BY <1>2, PhasesAre
<1>4. /\ e \in Request /\ e.phase = "type" /\ e.work = w
      /\ e.answers = d.answers /\ e.stop = d.stop /\ AlikeNotes(d, e)
  BY <1>3, <1>5, OntoIs
<1> QED BY <1>2, <1>4

LEMMA EndDeepenStep ==
  ASSUME AnchorsIInv, EndDeepen
  PROVE  Good(call', head) /\ Halfway(call')
<1> DEFINE m == [i \in Ids |-> IF call.member[i] = "no" /\ ~call.proven THEN "unknown" ELSE call.member[i]]
           x == Settled(call)
<1>1. /\ call \in Request /\ Good(call, head) /\ call.phase = "deepen" /\ call.scoped
      /\ call.stop = NotYet => call.work = <<>> /\ call.present \subseteq call.found
  BY DEF AnchorsIInv, Good, EndDeepen, WorkFits
<1>2. m \in [Ids -> Verdicts] /\ x = [call EXCEPT !.member = m]
  BY <1>1 DEF Request, Verdicts, Settled
<1> HIDE DEF m
<1>3. /\ x \in Request /\ x.member = m /\ x.answers = call.answers /\ x.stop = call.stop
      /\ x.scoped /\ x.typed = call.typed /\ x.oldest = call.oldest /\ x.version = call.version
      /\ x.proven = call.proven /\ x.meta = call.meta /\ x.found = call.found /\ x.present = call.present
      /\ x.absent = call.absent /\ x.skipped = call.skipped
  <2> HIDE DEF x
  <2>1. x \in Request
    BY <1>1, <1>2 DEF Request
  <2>2. /\ x.member = m /\ x.answers = call.answers /\ x.stop = call.stop
        /\ x.scoped = call.scoped /\ x.typed = call.typed /\ x.oldest = call.oldest /\ x.version = call.version
    BY <1>1, <1>2 DEF Request
  <2>3. /\ x.proven = call.proven /\ x.meta = call.meta /\ x.found = call.found /\ x.present = call.present
        /\ x.absent = call.absent /\ x.skipped = call.skipped
    BY <1>1, <1>2 DEF Request
  <2> QED BY <1>1, <2>1, <2>2, <2>3
<1> HIDE DEF x
<1>4. call' = ToType(x)
  BY DEF EndDeepen, x
<1>5. /\ call' \in Request /\ call'.phase = "type" /\ call'.answers = x.answers /\ call'.stop = x.stop
      /\ AlikeNotes(x, call') /\ call'.work \in Seq(FetchTask) /\ Rounded(call'.work)
      /\ \A i \in IdsOf(call'.work) : i \in Ids /\ x.member[i] = "yes"
  BY <1>3, <1>4, ToTypeIs
<1>6. /\ call'.scoped /\ call'.typed = call.typed /\ call'.oldest = call.oldest
      /\ call'.version = call.version /\ call'.proven = call.proven /\ call'.meta = call.meta
      /\ call'.found = call.found /\ call'.present = call.present /\ call'.absent = call.absent
      /\ call'.skipped = call.skipped
      /\ call'.member = m /\ call'.stop = call.stop /\ call'.answers = call.answers
  BY <1>3, <1>5 DEF AlikeNotes
<1>7. \A i \in Ids : m[i] = IF call.member[i] = "no" /\ ~call.proven THEN "unknown" ELSE call.member[i]
  BY DEF m
<1>8. ASSUME NEW i \in Ids PROVE MemberTrue(call', i) /\ MetaTrue(call', head, i)
  <2>1. MemberTrue(call, i) /\ MetaTrue(call, head, i)
    BY <1>1 DEF Good, Truthful
  <2>2. MetaTrue(call', head, i)
    BY <1>1, <1>6, <2>1 DEF MetaTrue, Times
  <2>3. MemberTrue(call', i)
    BY <1>5, <1>6, <1>7, <2>1 DEF MemberTrue
  <2> QED BY <2>2, <2>3
<1>9. WorkFits(call')
  <2>1. ASSUME call'.version = NotYet PROVE IdsOf(call'.work) = {}
    <3>1. ASSUME NEW i \in IdsOf(call'.work) PROVE FALSE
      <4>1. i \in Ids /\ call'.member[i] = "yes"
        BY <1>3, <1>5, <1>6
      <4>2. MemberTrue(call', i)
        BY <1>8, <4>1
      <4> QED BY <2>1, <4>1, <4>2 DEF MemberTrue
    <3> QED BY <3>1
  <2> QED BY <1>5, <1>6, <2>1 DEF WorkFits
<1>10. Truthful(call', head)
  BY <1>1, <1>6, <1>8 DEF Good, Truthful, Timely, Times
<1>11. Covered(call', head)
  <2> SUFFICES ASSUME call'.stop = NotYet, NEW i \in Ids PROVE Unforgotten(call', head, i)
    BY DEF Covered
  <2>1. Unforgotten(call, head, i) /\ call.present \subseteq call.found
    BY <1>1, <1>6 DEF Good, Covered
  <2>2. call.proven /\ (Told(call, i) \/ i \in call.skipped) /\ (i \in call.found => Told(call, i))
    BY <1>1, <2>1 DEF Unforgotten
  <2>3. Told(call, i) => Told(call', i)
    BY <1>6, <1>7, <2>2 DEF Told
  <2> QED BY <1>5, <1>6, <2>2, <2>3 DEF Unforgotten
<1>12. Halfway(call')
  BY <1>1, <1>5, <1>6 DEF AnchorsIInv, Halfway
<1> QED BY <1>5, <1>9, <1>10, <1>11, <1>12 DEF Good

LEMMA EndTypeStep ==
  ASSUME AnchorsIInv, EndType
  PROVE  Good(call', head) /\ Halfway(call')
<1> DEFINE S == {i \in Matched(call) : call.meta[i] = NotYet}
           w == Fetches(S)
<1>1. call \in Request /\ Good(call, head) /\ call.phase = "type" /\ LoopOver
  BY DEF AnchorsIInv, Good, EndType
<1>2. S \in SUBSET Asked /\ (call.scoped => \A i \in S : i \in Ids /\ call.member[i] = "yes")
  BY DEF Asked, Matched, Match
<1>3. w \in Seq(FetchTask) /\ Rounded(w) /\ IdsOf(w) = S
  BY <1>2, FetchesFit DEF Rounded, IdsOf
<1>4. call' = Onto(call, "enrich", w)
  BY DEF EndType
<1> HIDE DEF S, w
<1>5. /\ call' \in Request /\ call'.phase = "enrich" /\ call'.work = w /\ call'.answers = call.answers
      /\ call'.stop = call.stop /\ AlikeNotes(call, call')
  <2>1. call \in Request /\ w \in Seq(FetchTask) /\ "enrich" \in Phases
    BY <1>1, <1>3, PhasesAre
  <2> QED BY <1>4, <2>1, OntoIs
<1>6. call.scoped /\ call.version = NotYet => IdsOf(w) = {}
  BY <1>1, <1>2, <1>3 DEF Good, Truthful, MemberTrue
<1>7. WorkFits(call')
  BY <1>1, <1>3, <1>5, <1>6 DEF Good, AlikeNotes, WorkFits
<1>8. Truthful(call', head)
  BY <1>1, <1>5 DEF Good, Truthful, Timely, MemberTrue, MetaTrue, Times, AlikeNotes
<1>9. Covered(call', head)
  <2> SUFFICES ASSUME call'.stop = NotYet, NEW i \in Ids PROVE Unforgotten(call', head, i)
    BY DEF Covered
  <2>1. Unforgotten(call, head, i) /\ IdsOf(call.work) = {} /\ Heard(call) = {}
    BY <1>1, <1>5, OverIsQuiet DEF Good, Covered
  <2> QED BY <1>1, <1>5, <2>1 DEF Unforgotten, Told, Times, AlikeNotes
<1>10. Halfway(call')
  BY <1>1, <1>5, OverIsQuiet DEF Halfway
<1> QED BY <1>5, <1>7, <1>8, <1>9, <1>10 DEF Good

LEMMA EndEnrichStep ==
  ASSUME AnchorsIInv, EndEnrich
  PROVE  Good(call', head) /\ Halfway(call')
<1>1. call \in Request /\ Good(call, head) /\ call.phase = "enrich" /\ LoopOver
  BY DEF AnchorsIInv, Good, EndEnrich
<1> DEFINE w == <<>>
<1>2. call' = Onto(call, "done", w)
  BY DEF EndEnrich
<1>3. /\ call' \in Request /\ call'.phase = "done" /\ call'.work = <<>> /\ call'.answers = call.answers
      /\ call'.stop = call.stop /\ AlikeNotes(call, call')
  <2>1. call \in Request /\ w \in Seq(FetchTask) /\ "done" \in Phases
    BY <1>1, EmptyFits, PhasesAre
  <2>2. w = <<>>
    OBVIOUS
  <2> HIDE DEF w
  <2>3. /\ call' \in Request /\ call'.phase = "done" /\ call'.work = w /\ call'.answers = call.answers
        /\ call'.stop = call.stop /\ AlikeNotes(call, call')
    BY <1>2, <2>1, OntoIs
  <2> QED BY <2>2, <2>3
<1>4. WorkFits(call')
  BY <1>1, <1>3 DEF Good, AlikeNotes, WorkFits
<1>5. Truthful(call', head)
  BY <1>1, <1>3 DEF Good, Truthful, Timely, MemberTrue, MetaTrue, Times, AlikeNotes
<1>6. Covered(call', head)
  BY <1>1, <1>3 DEF Good, Covered, Unforgotten, Told, Times, AlikeNotes
<1>7. Halfway(call')
  BY <1>1, <1>3, OverIsQuiet DEF Halfway
<1> QED BY <1>3, <1>4, <1>5, <1>6, <1>7 DEF Good

(* A request that has not begun, or has just.                               *)
Fresh(d, scoped, typed, b) == d = [Idle EXCEPT !.scoped = scoped, !.typed = typed, !.oldest = b]

LEMMA IdleIsARequest == Idle \in Request
<1>1. /\ FirstDepth \in Int /\ 0 \in 0..CallCap /\ <<>> \in Seq(ProjectionTask \cup FetchTask)
      /\ [i \in Ids |-> "unknown"] \in [Ids -> Verdicts]
      /\ [i \in Ids |-> NotYet] \in [Ids -> Types \cup {NotYet}]
  BY ResolveAnchorsAssumption DEF Verdicts
<1> QED BY <1>1 DEF Idle, Request, Phases

LEMMA FreshIsGood ==
  ASSUME NEW h \in Revisions, NEW scoped \in BOOLEAN, NEW typed \in BOOLEAN, NEW b \in Nat, b <= remembered,
         NEW d, Fresh(d, scoped, typed, b)
  PROVE  /\ Good(d, h) /\ Halfway(d) /\ d.scoped = scoped /\ d.typed = typed /\ d.stop = NotYet
         /\ d.version = NotYet /\ d.answers = {} /\ d.found = {} /\ ~d.proven /\ d.absent = {} /\ d.oldest = b
         /\ \A i \in Ids : d.member[i] = "unknown" /\ d.meta[i] = NotYet
<1>2. d \in Request
  <2> DEFINE x == [Idle EXCEPT !.scoped = scoped]
             y == [x EXCEPT !.typed = typed]
  <2>1. x \in Request
    BY IdleIsARequest DEF Request
  <2>2. d = [y EXCEPT !.oldest = b]
    BY IdleIsARequest DEF Fresh, Request
  <2> HIDE DEF x
  <2>3. y \in Request
    BY <2>1 DEF Request
  <2> HIDE DEF y
  <2> QED BY <2>2, <2>3 DEF Request
<1>3. /\ d.scoped = scoped /\ d.typed = typed /\ d.stop = NotYet
      /\ d.version = NotYet /\ d.answers = {} /\ d.found = {} /\ ~d.proven /\ d.absent = {} /\ d.oldest = b
      /\ \A i \in Ids : d.member[i] = "unknown" /\ d.meta[i] = NotYet
      /\ d.phase = "idle"
  BY DEF Fresh, Idle
<1>4. WorkFits(d)
  BY <1>3 DEF WorkFits
<1>5. Truthful(d, h)
  BY <1>3 DEF Truthful, Timely, MemberTrue, MetaTrue
<1>6. Covered(d, h) /\ Halfway(d)
  BY <1>3 DEF Covered, Unforgotten, Halfway
<1> QED BY <1>2, <1>3, <1>4, <1>5, <1>6 DEF Good

LEMMA BeginStep ==
  ASSUME AnchorsIInv, Begin
  PROVE  Good(call', head) /\ Halfway(call')
<1>1. head \in Revisions /\ remembered \in Nat
  BY ResolveAnchorsAssumption DEF AnchorsIInv
<1>2. PICK scoped \in BOOLEAN, typed \in BOOLEAN :
        LET d == [Idle EXCEPT !.scoped = scoped, !.typed = typed, !.oldest = remembered]
        IN  call' = IF scoped THEN Onto(d, "project", Projections(Ids, FirstDepth)) ELSE ToType(d)
  BY DEF Begin
<1> DEFINE d == [Idle EXCEPT !.scoped = scoped, !.typed = typed, !.oldest = remembered]
<1>4. call' = IF scoped THEN Onto(d, "project", Projections(Ids, FirstDepth)) ELSE ToType(d)
  BY <1>2
<1>8. Fresh(d, scoped, typed, remembered)
  BY DEF Fresh
<1> HIDE DEF d
<1>3. /\ Good(d, head) /\ d.scoped = scoped /\ d.typed = typed /\ d.stop = NotYet
      /\ d.version = NotYet /\ d.answers = {} /\ d.found = {} /\ ~d.proven /\ d.absent = {} /\ d.oldest = remembered
      /\ \A i \in Ids : d.member[i] = "unknown" /\ d.meta[i] = NotYet
  <2>1. remembered <= remembered /\ remembered \in Nat /\ head \in Revisions /\ scoped \in BOOLEAN /\ typed \in BOOLEAN
    BY <1>1, <1>2
  <2> QED BY <1>8, <2>1, FreshIsGood
<1>5. d \in Request
  BY <1>3 DEF Good
<1>6. CASE scoped
  <2>1. Projections(Ids, FirstDepth) \in Seq(ProjectionTask)
    BY ProjectionsFit, ResolveAnchorsAssumption
  <2> DEFINE w == Projections(Ids, FirstDepth)
  <2> HIDE DEF w
  <2>2. /\ call' \in Request /\ call'.phase = "project" /\ call'.work = w /\ call'.answers = {}
        /\ call'.stop = NotYet /\ AlikeNotes(d, call')
    <3>1. d \in Request /\ w \in Seq(ProjectionTask) /\ "project" \in Phases
      BY <1>5, <2>1, PhasesAre DEF w
    <3>2. call' = Onto(d, "project", w)
      BY <1>4, <1>6 DEF w
    <3>3. /\ call' \in Request /\ call'.phase = "project" /\ call'.work = w /\ call'.answers = d.answers
          /\ call'.stop = d.stop /\ AlikeNotes(d, call')
      BY <3>1, <3>2, OntoIs
    <3> QED BY <1>3, <3>3
  <2>3. WorkFits(call')
    BY <1>3, <1>6, <2>1, <2>2 DEF WorkFits, AlikeNotes, w
  <2>4. Truthful(call', head)
    BY <1>3, <2>2 DEF Good, Truthful, Timely, MemberTrue, MetaTrue, Times, AlikeNotes
  <2>5. Covered(call', head) /\ Halfway(call')
    BY <1>3, <2>2 DEF Covered, Unforgotten, Halfway, AlikeNotes
  <2> QED BY <2>2, <2>3, <2>4, <2>5 DEF Good
<1>7. CASE ~scoped
  <2>1. /\ call' \in Request /\ call'.phase = "type" /\ call'.answers = {} /\ call'.stop = NotYet
        /\ AlikeNotes(d, call') /\ call'.work \in Seq(FetchTask) /\ Rounded(call'.work)
        /\ d.typed => \A i \in Ids : d.meta[i] = NotYet => i \in IdsOf(call'.work)
    BY <1>3, <1>4, <1>5, <1>7, ToTypeIs
  <2>2. WorkFits(call')
    BY <1>3, <1>7, <2>1 DEF WorkFits, AlikeNotes
  <2>3. Truthful(call', head)
    BY <1>3, <1>7, <2>1 DEF Good, Truthful, Timely, MemberTrue, MetaTrue, Times, AlikeNotes
  <2>4. Covered(call', head) /\ Halfway(call')
    BY <1>3, <1>7, <2>1 DEF Covered, Unforgotten, Halfway, AlikeNotes
  <2> QED BY <2>1, <2>2, <2>3, <2>4 DEF Good
<1> QED BY <1>6, <1>7

LEMMA IdleIsGood ==
  ASSUME NEW h \in Revisions, remembered \in Revisions
  PROVE  Good(Idle, h) /\ Halfway(Idle)
<1>1. 0 \in Nat /\ 0 <= remembered
  BY ResolveAnchorsAssumption
<1>2. Idle \in Request
  BY IdleIsARequest
<1>3. Fresh(Idle, FALSE, FALSE, 0)
  <2>1. Idle.scoped = FALSE /\ Idle.typed = FALSE /\ Idle.oldest = 0
    BY DEF Idle
  <2> QED BY <1>2, <2>1 DEF Fresh, Request
<1> QED BY <1>1, <1>3, FreshIsGood

--------------------------------------------------------------------------------
LEMMA AnchorsInitially == AnchorsInit => AnchorsIInv
BY IdleIsGood DEF AnchorsInit, AnchorsIInv

(* A step of the request itself leaves what is remembered alone.             *)
LEMMA RequestStep ==
  ASSUME AnchorsIInv, Good(call', head), Halfway(call'), UNCHANGED <<head, remembered>>, expired' \in BOOLEAN
  PROVE  AnchorsIInv'
<1>1. Good(call, head)'
  BY DEF Good, Truthful
<1> QED BY <1>1 DEF AnchorsIInv

(* The version cache names another revision, perhaps an earlier one.        *)
LEMMA OlderIsGood ==
  ASSUME NEW b \in Nat, head \in Revisions, Good(call, head), Halfway(call), b <= call.oldest, b <= remembered',
         call' = [call EXCEPT !.oldest = b], head' = head
  PROVE  Good(call, head)' /\ Halfway(call)'
<1>1. call \in Request /\ call.oldest \in Nat /\ head \in Nat /\ Revisions \subseteq Nat
  BY ResolveAnchorsAssumption DEF Good, Request
<1>2. /\ call'.oldest = b
      /\ \A f \in {"phase", "scoped", "typed", "work", "answers", "depth", "calls", "version", "stop", "proven",
                   "member", "meta", "found", "present", "absent", "skipped", "deferred", "attempted"} :
           call'[f] = call[f]
  BY <1>1 DEF Request
<1>3. call' \in Request
  BY <1>1 DEF Request
<1>4. /\ call'.phase = call.phase /\ call'.scoped = call.scoped /\ call'.typed = call.typed
      /\ call'.work = call.work /\ call'.answers = call.answers /\ call'.version = call.version
      /\ call'.stop = call.stop /\ call'.proven = call.proven /\ call'.member = call.member
      /\ call'.meta = call.meta /\ call'.found = call.found /\ call'.present = call.present
      /\ call'.absent = call.absent /\ call'.skipped = call.skipped
  BY <1>2
<1>5. Times(call, head) \subseteq Times(call', head)
  <2> SUFFICES ASSUME NEW r \in Times(call, head) PROVE r \in Times(call', head)
    OBVIOUS
  <2>1. r \in Nat
    BY <1>1 DEF Times
  <2> QED BY <1>1, <1>2, <1>4, <2>1 DEF Times
<1>6. WorkFits(call')
  BY <1>1, <1>4 DEF Good, WorkFits
<1>7. /\ Timely(call'.answers, call', head) /\ \A i \in Ids : MemberTrue(call', i) /\ MetaTrue(call', head, i)
      /\ call'.proven => call'.version # NotYet /\ File[call'.version][Scope] # {}
  <2>1. Timely(call'.answers, call', head)
    BY <1>4, <1>5 DEF Good, Truthful, Timely
  <2>2. ASSUME NEW i \in Ids PROVE MemberTrue(call', i) /\ MetaTrue(call', head, i)
    BY <1>4, <1>5, <2>2 DEF Good, Truthful, MemberTrue, MetaTrue
  <2> QED BY <1>4, <2>1, <2>2 DEF Good, Truthful
<1>8. Covered(call', head)
  <2> SUFFICES ASSUME call'.stop = NotYet, NEW i \in Ids PROVE Unforgotten(call', head, i)
    BY DEF Covered
  <2>1. Unforgotten(call, head, i)
    BY <1>4 DEF Good, Covered
  <2> QED BY <1>4, <1>5, <2>1 DEF Unforgotten, Told, Heard
<1>9. Good(call, head)'
  <2>1. Truthful(call, head)'
    BY <1>2, <1>7 DEF Truthful
  <2> QED BY <1>3, <1>6, <1>8, <2>1 DEF Good
<1>10. Halfway(call)'
  BY <1>4 DEF Halfway
<1> QED BY <1>9, <1>10

LEMMA AnchorsStep == AnchorsIInv /\ [AnchorsNext]_anchoring => AnchorsIInv'
<1> SUFFICES ASSUME AnchorsIInv, [AnchorsNext]_anchoring PROVE AnchorsIInv'
  OBVIOUS
<1>1. /\ head \in Revisions /\ remembered \in Revisions /\ remembered <= head /\ expired \in BOOLEAN
      /\ Good(call, head) /\ Halfway(call)
  BY DEF AnchorsIInv
<1>2. CASE Begin
  BY <1>1, <1>2, BeginStep, RequestStep DEF Begin
<1>3. CASE ReturnAnchors
  BY <1>1, <1>3, IdleIsGood, RequestStep DEF ReturnAnchors
<1>4. CASE Edit
  <2>1. head' \in Revisions /\ head <= head' /\ remembered <= head' /\ UNCHANGED <<remembered, expired, call>>
    <3>1. head \in Nat /\ remembered \in Nat
      BY <1>1, ResolveAnchorsAssumption
    <3> QED BY <1>1, <1>4, <3>1 DEF Edit
  <2>2. Good(call, head')
    BY <1>1, <2>1, LaterIsGood
  <2>3. Good(call, head)'
    BY <2>1, <2>2 DEF Good, Truthful
  <2> QED BY <1>1, <2>1, <2>3 DEF AnchorsIInv
<1>5. CASE Refresh
  <2> DEFINE b == IF remembered' < call.oldest THEN remembered' ELSE call.oldest
  <2>1. /\ remembered' \in Revisions /\ remembered' <= head /\ UNCHANGED <<head, expired>>
        /\ call' = [call EXCEPT !.oldest = b]
    BY <1>5 DEF Refresh
  <2>2. b \in Nat /\ b <= call.oldest /\ b <= remembered'
    <3>1. call.oldest \in Nat /\ remembered' \in Nat
      BY <1>1, <2>1, ResolveAnchorsAssumption DEF Good, Request
    <3> QED BY <3>1
  <2> HIDE DEF b
  <2>3. Good(call, head)' /\ Halfway(call)'
    BY <1>1, <2>1, <2>2, OlderIsGood
  <2> QED BY <1>1, <2>1, <2>3 DEF AnchorsIInv
<1>6. CASE Project
  <2>1. UNCHANGED <<head, remembered>> /\ expired' \in BOOLEAN
    BY <1>1, <1>6 DEF Project
  <2> QED BY <1>6, <2>1, ProjectStep, RequestStep
<1>7. CASE FetchNodes
  <2>1. UNCHANGED <<head, remembered>> /\ expired' \in BOOLEAN
    BY <1>1, <1>7 DEF FetchNodes
  <2> QED BY <1>7, <2>1, FetchStep, RequestStep
<1>8. CASE EndProject
  BY <1>1, <1>8, EndProjectStep, RequestStep DEF EndProject
<1>9. CASE EndCheck
  BY <1>1, <1>9, EndCheckStep, RequestStep DEF EndCheck
<1>10. CASE Deepen
  BY <1>1, <1>10, DeepenStep, RequestStep DEF Deepen
<1>11. CASE EndDeepen
  BY <1>1, <1>11, EndDeepenStep, RequestStep DEF EndDeepen
<1>12. CASE EndType
  BY <1>1, <1>12, EndTypeStep, RequestStep DEF EndType
<1>13. CASE EndEnrich
  BY <1>1, <1>13, EndEnrichStep, RequestStep DEF EndEnrich
<1>14. CASE UNCHANGED anchoring
  <2>1. UNCHANGED <<head, remembered, expired, call>>
    BY <1>14 DEF anchoring
  <2> QED BY <1>1, <2>1, RequestStep
<1> QED BY <1>2, <1>3, <1>4, <1>5, <1>6, <1>7, <1>8, <1>9, <1>10, <1>11, <1>12, <1>13, <1>14 DEF AnchorsNext, CallStep

LEMMA AnchorsInvariant == AnchorsSpec => []AnchorsIInv
BY AnchorsInitially, AnchorsStep, PTL DEF AnchorsSpec

LEMMA AnchorsIInvGives == AnchorsIInv => AnchorsTypeOK /\ AnswerIsSound /\ SilenceIsComplete
<1> SUFFICES ASSUME AnchorsIInv PROVE AnchorsTypeOK /\ AnswerIsSound /\ SilenceIsComplete
  OBVIOUS
<1>1. /\ head \in Revisions /\ remembered \in Revisions /\ remembered <= head /\ expired \in BOOLEAN
      /\ call \in Request /\ WorkFits(call)
      /\ Truthful(call, head) /\ Covered(call, head)
  BY DEF AnchorsIInv, Good
<1>2. AnchorsTypeOK
  BY <1>1 DEF AnchorsTypeOK, Request
<1>3. \A i \in Ids : MemberTrue(call, i) /\ MetaTrue(call, head, i)
  BY <1>1 DEF Truthful
<1>4. \A r \in Times(call, head) : r \in (IF call.scoped THEN {call.version} ELSE call.oldest..head)
  <2>1. head \in Int /\ call.oldest \in Int /\ \A r \in Revisions : r \in Int
    BY <1>1, ResolveAnchorsAssumption DEF Request
  <2> QED BY <2>1 DEF Times
<1>5. AnswerIsSound
  <2> SUFFICES ASSUME call.phase = "done", NEW i \in Ids
               PROVE  /\ call.scoped /\ call.member[i] = "yes" => \E o \in File[call.version][i] : Scope \in ToSet(o)
                      /\ call.scoped /\ call.member[i] = "no" =>
                           /\ File[call.version][Scope] # {}
                           /\ File[call.version][i] = {} \/ \E o \in File[call.version][i] : Scope \notin ToSet(o)
                      /\ call.typed /\ Match(call, i) = "yes" =>
                           \E r \in (IF call.scoped THEN {call.version} ELSE call.oldest..head) : TypeOf[r][i] = Wanted
    BY DEF AnswerIsSound
  <2>1. MemberTrue(call, i) /\ MetaTrue(call, head, i)
    BY <1>3
  <2>2. call.scoped /\ call.member[i] = "no" => File[call.version][Scope] # {}
    BY <1>1, <2>1 DEF MemberTrue, Truthful
  <2>3. call.typed /\ Match(call, i) = "yes" =>
          \E r \in (IF call.scoped THEN {call.version} ELSE call.oldest..head) : TypeOf[r][i] = Wanted
    <3>1. call.typed /\ Match(call, i) = "yes" => call.meta[i] # NotYet /\ call.meta[i] = Wanted
      BY DEF Match
    <3> QED BY <1>4, <2>1, <3>1 DEF MetaTrue
  <2> QED BY <2>1, <2>2, <2>3 DEF MemberTrue
<1>6. SilenceIsComplete
  <2> SUFFICES ASSUME call.phase = "done", call.stop = NotYet, NEW i \in Unresolved(call)
               PROVE  \/ i \in call.skipped
                      \/ IF call.scoped THEN Cardinality(File[call.version][i]) > 1
                         ELSE \E r \in call.oldest..head : File[r][i] = {}
    BY DEF SilenceIsComplete
  <2>1. i \in Ids /\ Match(call, i) = "unknown"
    BY DEF Unresolved
  <2>2. MemberTrue(call, i) /\ Unforgotten(call, head, i)
    BY <1>1, <1>3, <2>1 DEF Covered
  <2>3. CASE call.scoped
    <3>1. call.member[i] = "unknown"
      BY <2>1, <2>2, <2>3 DEF Match, MemberTrue
    <3> QED BY <2>2, <2>3, <3>1 DEF Unforgotten, Told
  <2>4. CASE ~call.scoped
    <3>1. call.typed /\ call.meta[i] = NotYet
      BY <2>1, <2>4 DEF Match
    <3> QED BY <1>4, <2>2, <2>4, <3>1 DEF Unforgotten
  <2> QED BY <2>3, <2>4
<1> QED BY <1>2, <1>5, <1>6

(* The locals of resolveAnchors keep their types.                           *)
THEOREM AnchorsKeepTypes == AnchorsSpec => []AnchorsTypeOK
BY AnchorsInvariant, AnchorsIInvGives, PTL

(* resolve-anchors.ts, for any files, edits and cached answers: what is said *)
(* of a thread is true of one version of the file, whatever was cut, refused, *)
(* left out or too large, and without a scope of a version since the oldest   *)
(* the version cache named during the call.                                 *)
THEOREM AnswersAreSound == AnchorsSpec => []AnswerIsSound
BY AnchorsInvariant, AnchorsIInvGives, PTL

(* resolve-anchors.ts, for any files and edits: what is left undecided has a  *)
(* reason, in the stop that is reported, in the file, or in an answer of      *)
(* Figma that left the node out.                                            *)
THEOREM SilenceAlwaysHasAReason == AnchorsSpec => []SilenceIsComplete
BY AnchorsInvariant, AnchorsIInvGives, PTL
================================================================================
