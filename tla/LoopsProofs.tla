------------------------------ MODULE LoopsProofs ------------------------------
(***************************************************************************)
(* Two loops of MCLoops.                                                    *)
(*                                                                         *)
(* EnvGraph, for any finite set of libraries and any callers: the graph and  *)
(* its statistics are published together, a graph inside its TTL is one that *)
(* resolves something, and good data is never replaced by none.  That is      *)
(* inductive with the types: a build can only begin once the TTL is over, so  *)
(* whatever it does to the graph, it does not do it inside one.              *)
(*                                                                         *)
(* FrameReceipt, for any tree, any caps, any exclusions and any history of    *)
(* the pairs: the receipt speaks of the frame and not of its projection.      *)
(* First the tree (subtrees are intervals of the document order), then the    *)
(* views (chains, and the regions that begin and end with them), what          *)
(* Coverage counts in a view, how a view differs from the frame, that there    *)
(* is one projection for each depth and cap and that it is a view, and last   *)
(* the session, whose invariant is that each receipt is what Receipt says of   *)
(* such a view.                                                             *)
(***************************************************************************)
EXTENDS EnvGraph, FrameReceipt, FiniteSetTheorems, WellFoundedInduction, TLAPS

IInv == GraphTypeOK /\ PublishedTogether

(* How many libraries were collected is a count of libraries, never None.   *)
LEMMA Counts ==
  ASSUME NEW S \in SUBSET Libs
  PROVE  Cardinality(S) \in 0..Cardinality(Libs) /\ Cardinality(S) # None /\ S # None
<1>1. IsFiniteSet(Libs)
  BY EnvGraphAssumption
<1>2. Cardinality(S) \in Nat /\ Cardinality(Libs) \in Nat /\ Cardinality(S) <= Cardinality(Libs)
  BY <1>1, FS_Subset, FS_CardinalityType
<1>3. Cardinality(S) \in 0..Cardinality(Libs)
  BY <1>2
<1>4. QED
  BY <1>3, EnvGraphAssumption

LEMMA InitIInv == GraphInit => IInv
<1> SUFFICES ASSUME GraphInit PROVE IInv
  OBVIOUS
<1>1. ttlLeft \in 0..TTL /\ retryLeft \in 0..Retry /\ ~(ttlLeft > 0)
  BY EnvGraphAssumption DEF GraphInit
<1>2. GraphTypeOK
  BY <1>1 DEF GraphInit, GraphTypeOK
<1>3. PublishedTogether
  BY <1>1 DEF GraphInit, PublishedTogether
<1>4. QED
  BY <1>2, <1>3 DEF IInv

(* Publishing what was collected.                                           *)
LEMMA PublishKeeps ==
  ASSUME IInv, Publish
  PROVE  /\ graph' \in SUBSET Libs /\ stats' \in 0..Cardinality(Libs) /\ graph' = libs
         /\ graph' # None /\ stats' # None /\ stats' = Cardinality(graph')
<1>1. libs \in SUBSET Libs
  BY DEF IInv, GraphTypeOK
<1>2. QED
  BY <1>1, Counts DEF Publish

LEMMA BuiltKeeps == ASSUME IInv, Built PROVE IInv'
<1> USE DEF IInv, GraphTypeOK, PublishedTogether, Settle
<1>1. /\ inflight' = FALSE /\ waiting' = {} /\ todo' = {} /\ libs' = {}
      /\ retryLeft' = retryLeft /\ outage' = outage /\ ttlLeft = 0
  BY EnvGraphAssumption DEF Built
<1>2. CASE libs # {} /\ Publish /\ ttlLeft' = TTL /\ degraded' = FALSE
  <2>1. graph' \notin {None, {}} /\ ttlLeft' \in 0..TTL
    BY <1>2, PublishKeeps, EnvGraphAssumption
  <2>2. GraphTypeOK'
    BY <1>1, <1>2, <2>1, PublishKeeps
  <2>3. PublishedTogether'
    BY <1>1, <1>2, <2>1, PublishKeeps
  <2>4. QED
    BY <2>2, <2>3
<1>3. CASE UNCHANGED <<graph, stats, ttlLeft, degraded>>
  BY <1>1, <1>3
<1>4. CASE Publish /\ UNCHANGED <<ttlLeft, degraded>>
  <2>1. ttlLeft' = 0 /\ degraded' = degraded
    BY <1>1, <1>4
  <2>2. GraphTypeOK'
    BY <1>1, <1>4, <2>1, PublishKeeps
  <2>3. PublishedTogether'
    BY <1>1, <1>4, <2>1, PublishKeeps
  <2>4. QED
    BY <2>2, <2>3
<1>5. QED
  BY <1>2, <1>3, <1>4 DEF Built

LEMMA NextKeeps == ASSUME IInv, [GraphNext]_refreshing PROVE IInv'
<1> USE DEF IInv, GraphTypeOK, PublishedTogether
<1>1. ASSUME NEW c \in Callers, Join(c) PROVE IInv'
  BY <1>1 DEF Join
<1>2. ASSUME NEW c \in Callers, Start(c) PROVE IInv'
  BY <1>2, EnvGraphAssumption DEF Start, Due
<1>3. ASSUME NEW l \in Libs, Collect(l) \/ Lose(l) PROVE IInv'
  BY <1>3 DEF Collect, Lose
<1>4. ASSUME BuildThrows PROVE IInv'
  BY <1>4 DEF BuildThrows, Settle
<1>5. ASSUME GraphTick PROVE IInv'
  <2>1. Down(ttlLeft) \in 0..TTL /\ Down(retryLeft) \in 0..Retry /\ (Down(ttlLeft) > 0 => ttlLeft > 0)
    BY EnvGraphAssumption DEF Down
  <2>2. QED
    BY <1>5, <2>1 DEF GraphTick, build
<1>6. ASSUME Weather PROVE IInv'
  BY <1>6 DEF Weather, build
<1>7. ASSUME UNCHANGED refreshing PROVE IInv'
  BY <1>7 DEF refreshing
<1>8. QED
  BY <1>1, <1>2, <1>3, <1>4, <1>5, <1>6, <1>7, BuiltKeeps DEF GraphNext, BuildStep

LEMMA SpecIInv == GraphSpec => []IInv
  BY InitIInv, NextKeeps, PTL DEF GraphSpec

(* The fields of the provider keep their types.                             *)
THEOREM EnvGraphTypeOK == GraphSpec => []GraphTypeOK
<1>1. IInv => GraphTypeOK
  BY DEF IInv
<1>2. QED
  BY <1>1, SpecIInv, PTL

(* stats() and resolve() never disagree, and a graph inside its TTL is a       *)
(* confirmed one that no build is replacing.                                *)
THEOREM AlwaysPublishedTogether == GraphSpec => []PublishedTogether
<1>1. IInv => PublishedTogether
  BY DEF IInv
<1>2. QED
  BY <1>1, SpecIInv, PTL

(* No attempt, however it ends, replaces a graph that resolves something by     *)
(* one that resolves nothing.                                               *)
THEOREM GoodGraphRetained == GraphSpec => StaleGoodRetained
<1>1. ASSUME IInv, [GraphNext]_refreshing
      PROVE  [graph \notin {None, {}} => graph' \notin {None, {}}]_refreshing
  <2> SUFFICES ASSUME GraphNext, graph \notin {None, {}} PROVE graph' \notin {None, {}}
    BY <1>1
  <2>1. CASE UNCHANGED graph
    BY <2>1
  <2>2. CASE Built
    <3>1. CASE libs # {} /\ Publish
      BY <1>1, <3>1, PublishKeeps
    <3>2. CASE UNCHANGED graph
      BY <3>2
    <3>3. QED
      BY <2>2, <3>1, <3>2 DEF Built
  <2>3. QED
    BY <2>1, <2>2 DEF GraphNext, BuildStep, Join, Start, Collect, Lose, BuildThrows, GraphTick, Weather
<1>2. QED
  BY <1>1, SpecIInv, PTL DEF GraphSpec, StaleGoodRetained

--------------------------------------------------------------------------------
(* Every inhabited set of naturals has a least one; of nodes, also a greatest. *)
LEMMA LeastNatural ==
  ASSUME NEW T \in SUBSET Nat, T # {}
  PROVE  \E n \in T : \A m \in T : n <= m
<1>1. PICK n \in T : \A m \in T : ~ (<<m, n>> \in OpToRel(<, Nat))
  BY NatLessThanWellFounded, WFMin
<1>2. ASSUME NEW m \in T PROVE n <= m
  <2>1. m \in Nat /\ n \in Nat /\ ~ (m < n)
    BY <1>1 DEF OpToRel
  <2>2. QED
    BY <2>1
<1>3. QED
  BY <1>2

LEMMA LeastNode ==
  ASSUME NEW T \in SUBSET (0..N), T # {}
  PROVE  \E n \in T : \A m \in T : n <= m
<1>1. T \in SUBSET Nat
  BY FrameReceiptAssumption
<1> QED  BY <1>1, LeastNatural

LEMMA GreatestNode ==
  ASSUME NEW T \in SUBSET (0..N), T # {}
  PROVE  \E n \in T : \A m \in T : m <= n
<1>0. N \in Nat
  BY FrameReceiptAssumption
<1> DEFINE U == {N - n : n \in T}
<1>1. U \in SUBSET (0..N) /\ U # {}
  <2>1. \A n \in T : n \in 0..N /\ N - n \in 0..N
    BY <1>0
  <2> QED  BY <2>1
<1>2. PICK u \in U : \A x \in U : u <= x
  BY <1>1, LeastNode
<1>3. PICK n \in T : u = N - n
  BY <1>2
<1>4. \A m \in T : N - m \in U
  OBVIOUS
<1>5. \A m \in T : N - n <= N - m /\ m \in 0..N /\ n \in 0..N
  BY <1>2, <1>3, <1>4
<1> QED  BY <1>0, <1>5

--------------------------------------------------------------------------------
(* The subtrees are intervals.  What is below a node is found from the        *)
(* parents of the nodes between.                                            *)
LEMMA BelowIs ==
  ASSUME NEW n \in 0..N, NEW m
  PROVE  m \in Below[n] <=> m \in 0..N /\ n <= m /\ \A k \in (n + 1)..m : Parent[k] >= n
  BY FrameReceiptAssumption DEF Below

LEMMA ParentIs ==
  ASSUME NEW n \in Nodes
  PROVE  /\ n \in 0..N /\ Parent[n] \in 0..N /\ Parent[n] < n
         /\ \A m \in (Parent[n] + 1)..(n - 1) : Parent[m] >= Parent[n]
  BY FrameReceiptAssumption DEF Nodes

LEMMA BelowSelf == ASSUME NEW n \in 0..N PROVE n \in Below[n]
  BY FrameReceiptAssumption, BelowIs

LEMMA BelowRoot == ASSUME NEW n \in 0..N PROVE 0 \in 0..N /\ n \in Below[0]
<1>1. 0 \in 0..N /\ \A k \in 1..n : k \in Nodes
  BY FrameReceiptAssumption DEF Nodes
<1> QED  BY <1>1, BelowIs, ParentIs

LEMMA BelowTrans ==
  ASSUME NEW n \in 0..N, NEW m \in Below[n], NEW k \in Below[m]
  PROVE  k \in Below[n]
<1>1. m \in 0..N /\ n <= m /\ \A j \in (n + 1)..m : Parent[j] >= n
  BY BelowIs
<1>2. k \in 0..N /\ m <= k /\ \A j \in (m + 1)..k : Parent[j] >= m
  BY <1>1, BelowIs
<1>3. ASSUME NEW j \in (n + 1)..k PROVE Parent[j] >= n
  <2>1. j \in Nodes
    BY <1>2, FrameReceiptAssumption DEF Nodes
  <2>2. Parent[j] \in 0..N
    BY <2>1, ParentIs
  <2> QED  BY <1>1, <1>2, <2>1, <2>2 DEF Nodes
<1> QED  BY <1>1, <1>2, <1>3, BelowIs

(* A node under another hangs from it, or from a node under it.               *)
LEMMA BelowParent ==
  ASSUME NEW n \in 0..N, NEW m \in Below[n], m # n
  PROVE  m \in Nodes /\ Parent[m] \in Below[n] /\ Parent[m] \in 0..N /\ Parent[m] < m
<1>1. m \in 0..N /\ n <= m /\ \A j \in (n + 1)..m : Parent[j] >= n
  BY BelowIs
<1>2. m \in Nodes /\ m \in (n + 1)..m
  BY <1>1, FrameReceiptAssumption DEF Nodes
<1>3. Parent[m] >= n /\ Parent[m] \in 0..N /\ Parent[m] < m
  BY <1>1, <1>2, ParentIs
<1>4. \A j \in (n + 1)..Parent[m] : j \in (n + 1)..m
  BY <1>1, <1>3
<1> QED  BY <1>1, <1>2, <1>3, <1>4, BelowIs

LEMMA BelowOwnParent == ASSUME NEW n \in Nodes PROVE n \in Below[Parent[n]]
<1>1. n \in 0..N /\ Parent[n] \in 0..N /\ Parent[n] < n
  BY ParentIs
<1>2. ASSUME NEW k \in (Parent[n] + 1)..n PROVE Parent[k] >= Parent[n]
  <2>1. CASE k = n
    BY <2>1, <1>1
  <2>2. CASE k \in (Parent[n] + 1)..(n - 1)
    BY <2>2, ParentIs
  <2> QED  BY <2>1, <2>2, <1>1
<1> QED  BY <1>1, <1>2, BelowIs

(* Of two nodes above a third, one is above the other.                       *)
LEMMA BelowLinear ==
  ASSUME NEW a \in 0..N, NEW b \in 0..N, NEW m \in Below[a], m \in Below[b], a <= b
  PROVE  b \in Below[a]
<1>1. m \in 0..N /\ b <= m /\ \A j \in (a + 1)..m : Parent[j] >= a
  BY BelowIs
<1>2. \A j \in (a + 1)..b : j \in (a + 1)..m
  BY <1>1
<1>3. a <= b /\ \A j \in (a + 1)..b : Parent[j] >= a
  BY <1>1, <1>2
<1> QED  BY <1>3, BelowIs

LEMMA BelowBounds ==
  ASSUME NEW n \in 0..N, NEW m \in Below[n]
  PROVE  m \in 0..N /\ n <= m
  BY BelowIs

(* Between a node and one further down there is a child.                     *)
LEMMA BelowChild ==
  ASSUME NEW n \in 0..N, NEW m \in Below[n], m # n
  PROVE  \E k \in Kids(n) : m \in Below[k]
<1> DEFINE T == {k \in Below[n] : k # n /\ m \in Below[k]}
<1>1. m \in 0..N /\ T \in SUBSET (0..N) /\ m \in T
  BY BelowBounds, BelowSelf
<1>2. PICK k \in T : \A j \in T : k <= j
  BY <1>1, LeastNode
<1>3. k \in Nodes /\ Parent[k] \in Below[n] /\ Parent[k] \in 0..N /\ Parent[k] < k
  BY <1>2, BelowParent
<1>4. m \in Below[Parent[k]]
  BY <1>2, <1>3, BelowOwnParent, BelowTrans
<1>5. Parent[k] = n
  <2>1. k \in 0..N /\ (Parent[k] # n => Parent[k] \in T)
    BY <1>1, <1>2, <1>3, <1>4
  <2>2. Parent[k] # n => k <= Parent[k]
    BY <1>2, <2>1
  <2> QED  BY <1>3, <2>1, <2>2
<1> QED  BY <1>2, <1>3, <1>5 DEF Kids

LEMMA KidIs ==
  ASSUME NEW n, NEW k \in Kids(n)
  PROVE  k \in Nodes /\ k \in 0..N /\ Parent[k] = n /\ n \in 0..N /\ n < k /\ k \in Below[n]
  BY ParentIs, BelowOwnParent DEF Kids

--------------------------------------------------------------------------------
(* What a projection is to a tree: it holds the root, each node's parent, and   *)
(* of a node that is not cut every child.  And what Regions makes of it.      *)
CutsDown(u) ==
  /\ u.shown \subseteq 0..N /\ 0 \in u.shown
  /\ \A n \in u.shown \ {0} : Parent[n] \in u.shown
  /\ \A n \in u.shown : IsCut(u, n) \/ Kids(n) \subseteq u.shown
Top(v, n) == n \in v.shown \ {0} /\ (Parent[n] = 0 \/ ~Passed(v, Parent[n]))
IsView(v) ==
  /\ CutsDown(v)
  /\ v.chain = [n \in v.shown |-> Chain(v, n)]
  /\ v.end = [n \in v.shown |-> Max(Chain(v, n))]
  /\ v.begins = {n \in v.shown : Top(v, n) /\ v.end[n] \notin Mute(v)}
  /\ v.inside = [n \in v.shown |-> {k \in v.begins : Parent[k] = v.end[n]}]

LEMMA SameCut ==
  ASSUME NEW u, NEW v, v.shown = u.shown, v.cut = u.cut
  PROVE  /\ CutsDown(u) => CutsDown(v)
         /\ \A n : Passed(v, n) <=> Passed(u, n)
         /\ \A n : Chain(v, n) = Chain(u, n)
         /\ Mute(v) = Mute(u)
<1>1. \A n : IsCut(v, n) <=> IsCut(u, n)
  BY DEF IsCut
<1>2. \A n : Under(v, n) = Under(u, n)
  BY DEF Under
<1>3. \A n : Passed(v, n) <=> Passed(u, n)
  BY <1>1, <1>2, Zenon DEF Passed
<1>4. CutsDown(u) => CutsDown(v)
  BY <1>1 DEF CutsDown
<1>5. \A n : Chain(v, n) = Chain(u, n)
  BY <1>3 DEF Chain
<1>6. Mute(v) = Mute(u)
  BY <1>2 DEF Mute
<1> QED  BY <1>3, <1>4, <1>5, <1>6

LEMMA RegionsView == ASSUME NEW u, CutsDown(u) PROVE IsView(Regions(u)) /\ Regions(u).shown = u.shown /\ Regions(u).cut = u.cut
<1> DEFINE v == Regions(u)
           chain == [n \in u.shown |-> Chain(u, n)]
           end == [n \in u.shown |-> Max(chain[n])]
           begins == {n \in u.shown \ {0} : (Parent[n] = 0 \/ ~Passed(u, Parent[n])) /\ end[n] \notin Mute(u)}
           inside == [n \in u.shown |-> {k \in begins : Parent[k] = end[n]}]
<1>1. v = [shown |-> u.shown, cut |-> u.cut, chain |-> chain, end |-> end, begins |-> begins, inside |-> inside]
  BY Zenon DEF Regions
<1> HIDE DEF chain, end, begins, inside, v
<1>2. /\ v.shown = u.shown /\ v.cut = u.cut /\ v.chain = chain /\ v.end = end
      /\ v.begins = begins /\ v.inside = inside
  BY <1>1
<1>3. /\ CutsDown(v) /\ \A n : Passed(v, n) <=> Passed(u, n)
      /\ \A n : Chain(v, n) = Chain(u, n)
      /\ Mute(v) = Mute(u)
  BY <1>2, SameCut, Zenon
<1>4. v.chain = [n \in v.shown |-> Chain(v, n)]
  BY <1>2, <1>3 DEF chain
<1>5. v.end = [n \in v.shown |-> Max(Chain(v, n))]
  BY <1>2, <1>3 DEF chain, end
<1>6. v.begins = {n \in v.shown : Top(v, n) /\ v.end[n] \notin Mute(v)}
  BY <1>2, <1>3 DEF begins, Top
<1>7. v.inside = [n \in v.shown |-> {k \in v.begins : Parent[k] = v.end[n]}]
  BY <1>2 DEF inside
<1> QED  BY <1>2, <1>3, <1>4, <1>5, <1>6, <1>7 DEF IsView, v

LEMMA FrameView == IsView(Frame) /\ Frame.shown = 0..N /\ Frame.cut = {}
<1> DEFINE u == [shown |-> 0..N, cut |-> {}]
<1>1. u.shown = 0..N /\ u.cut = {}
  OBVIOUS
<1>2. CutsDown(u)
  <2>1. \A n \in (0..N) \ {0} : Parent[n] \in 0..N
    BY FrameReceiptAssumption, ParentIs DEF Nodes
  <2>2. \A n : Kids(n) \subseteq 0..N
    BY KidIs
  <2> QED  BY <2>1, <2>2, FrameReceiptAssumption DEF CutsDown
<1> QED  BY <1>1, <1>2, RegionsView DEF Frame

LEMMA ViewFields ==
  ASSUME NEW v, IsView(v)
  PROVE  /\ v.shown \subseteq 0..N /\ 0 \in v.shown
         /\ \A n \in v.shown : v.chain[n] = Chain(v, n) /\ v.end[n] = Max(Chain(v, n))
                               /\ v.inside[n] = {k \in v.begins : Parent[k] = v.end[n]}
         /\ \A n : n \in v.begins <=> n \in v.shown /\ Top(v, n) /\ v.end[n] \notin Mute(v)
  BY DEF IsView, CutsDown

(* All above a shown node is shown.                                         *)
LEMMA AboveShown ==
  ASSUME NEW v, IsView(v), NEW n \in 0..N, NEW m \in v.shown, m \in Below[n]
  PROVE  n \in v.shown
<1> DEFINE T == {k \in v.shown : k \in Below[n] /\ m \in Below[k]}
<1>1. m \in 0..N /\ T \in SUBSET (0..N) /\ m \in T
  BY BelowSelf, BelowBounds DEF IsView, CutsDown
<1>2. PICK k \in T : \A j \in T : k <= j
  BY <1>1, LeastNode
<1>3. ASSUME k # n PROVE FALSE
  <2>1. k \in Nodes /\ Parent[k] \in Below[n] /\ Parent[k] \in 0..N /\ Parent[k] < k
    BY <1>2, <1>3, BelowParent
  <2>2. Parent[k] \in v.shown
    BY <1>2, <2>1 DEF IsView, CutsDown, Nodes
  <2>3. m \in Below[Parent[k]]
    BY <1>2, <2>1, BelowOwnParent, BelowTrans
  <2>4. Parent[k] \in T /\ k \in 0..N
    BY <1>1, <2>1, <2>2, <2>3
  <2>5. k <= Parent[k]
    BY <1>2, <2>4
  <2> QED  BY <2>1, <2>4, <2>5
<1> QED  BY <1>2, <1>3

(* A set of one member has no two.                                          *)
LEMMA OneMember ==
  ASSUME NEW S, IsFiniteSet(S), Cardinality(S) = 1, NEW a \in S, NEW b \in S
  PROVE  a = b
  BY FS_Singleton

LEMMA UnderFinite == ASSUME NEW v, NEW n PROVE IsFiniteSet(Under(v, n))
<1>1. IsFiniteSet(1..N)
  BY FS_Interval, FrameReceiptAssumption
<1>2. Under(v, n) \subseteq 1..N
  BY DEF Under, Kids, Nodes
<1> QED  BY <1>1, <1>2, FS_Subset

(* The chain of a node.                                                    *)
LEMMA ChainIs ==
  ASSUME NEW v, NEW n \in 0..N, NEW m
  PROVE  m \in Chain(v, n) <=>
           /\ m \in Below[n] /\ m \in v.shown
           /\ \A p \in Below[n] : p # m /\ m \in Below[p] => p # 0 /\ Passed(v, p)
  BY DEF Chain

(* A child of the last node, while that is passed, goes on with the chain.    *)
LEMMA ChainGoesOn ==
  ASSUME NEW v, IsView(v), NEW n \in 0..N, NEW p \in Chain(v, n), p # 0, Passed(v, p),
         NEW k \in Under(v, p)
  PROVE  k \in Chain(v, n) /\ p < k
<1>1. /\ p \in Below[n] /\ p \in 0..N /\ k \in Below[p] /\ k \in v.shown /\ k \in Below[n] /\ p < k
      /\ k \in Nodes /\ Parent[k] = p
  BY ChainIs, BelowBounds, KidIs, BelowTrans DEF Under
<1>2. ASSUME NEW q \in Below[n], q # k, k \in Below[q] PROVE q # 0 /\ Passed(v, q)
  <2>1. q \in 0..N /\ p \in Below[q]
    BY <1>1, <1>2, BelowBounds, BelowParent
  <2>2. CASE q = p
    BY <2>2
  <2>3. CASE q # p
    BY <2>1, <2>3, ChainIs
  <2> QED  BY <2>2, <2>3
<1> QED  BY <1>1, <1>2, ChainIs

LEMMA ChainSelf ==
  ASSUME NEW v, IsView(v), NEW n \in v.shown
  PROVE  n \in 0..N /\ n \in Chain(v, n) /\ Chain(v, n) \in SUBSET v.shown /\ Chain(v, n) \in SUBSET Below[n]
                    /\ Chain(v, n) \in SUBSET (0..N)
<1>1. n \in 0..N /\ n \in Below[n]
  BY BelowSelf, ViewFields
<1>2. ASSUME NEW p \in Below[n], p # n, n \in Below[p] PROVE FALSE
  BY <1>1, <1>2, BelowBounds
<1> QED  BY <1>1, <1>2, ChainIs, BelowBounds

(* A chain has no branches.                                                 *)
LEMMA ChainLinear ==
  ASSUME NEW v, IsView(v), NEW n \in v.shown, NEW a \in Chain(v, n), NEW b \in Chain(v, n), a <= b
  PROVE  b \in Below[a]
<1>1. /\ n \in 0..N /\ a \in Below[n] /\ b \in Below[n] /\ a \in 0..N /\ b \in 0..N
      /\ a \in v.shown /\ b \in v.shown
  BY ChainSelf
<1> SUFFICES ASSUME b \notin Below[a] PROVE FALSE
  OBVIOUS
<1> DEFINE T == {p \in Below[n] : a \in Below[p] /\ b \in Below[p]}
<1>2. T \in SUBSET (0..N) /\ n \in T
  BY <1>1, BelowSelf, BelowBounds
<1>3. PICK p \in T : \A q \in T : q <= p
  BY <1>2, GreatestNode
<1>4. p \in 0..N /\ p # a /\ p # b
  BY <1>1, <1>2, <1>3, BelowBounds
<1>5. p # 0 /\ Passed(v, p)
  BY <1>1, <1>3, <1>4, ChainIs
<1>6. PICK k \in Kids(p) : a \in Below[k]
  BY <1>3, <1>4, BelowChild
<1>7. PICK j \in Kids(p) : b \in Below[j]
  BY <1>3, <1>4, BelowChild
<1>8. k \in 0..N /\ j \in 0..N /\ p < k /\ k \in Below[n]
  BY <1>1, <1>3, <1>6, <1>7, KidIs, BelowTrans
<1>9. k \in Under(v, p) /\ j \in Under(v, p)
  BY <1>1, <1>6, <1>7, <1>8, AboveShown DEF Under
<1>10. k = j
  BY <1>5, <1>9, UnderFinite, OneMember DEF Passed
<1>11. k \in T
  BY <1>6, <1>7, <1>8, <1>10
<1> QED  BY <1>3, <1>4, <1>8, <1>11

(* Its end is the last of it: a node that is not passed.                    *)
LEMMA MaxOf ==
  ASSUME NEW S \in SUBSET (0..N), S # {}
  PROVE  Max(S) \in S /\ \A x \in S : x <= Max(S)
<1>1. PICK m \in S : \A x \in S : x <= m
  BY GreatestNode
<1>2. \A x \in S : x \in Int
  BY FrameReceiptAssumption
<1> DEFINE P(x) == x \in S /\ \A y \in S : x >= y
<1>3. P(m)
  BY <1>1, <1>2
<1>4. \A x : P(x) => x = m
  BY <1>1, <1>2
<1> QED  BY <1>1, <1>3, <1>4 DEF Max

LEMMA EndIs ==
  ASSUME NEW v, IsView(v), NEW n \in v.shown
  PROVE  /\ v.end[n] \in Chain(v, n) /\ v.end[n] \in v.shown /\ v.end[n] \in 0..N
         /\ n \in 0..N /\ v.end[n] \in Below[n]
         /\ v.end[n] = 0 \/ ~Passed(v, v.end[n])
         /\ \A m \in Chain(v, n) : v.end[n] \in Below[m] /\ (m # v.end[n] => m # 0 /\ Passed(v, m))
<1> DEFINE e == v.end[n]
<1>0. e = Max(Chain(v, n))
  BY ViewFields
<1> HIDE DEF e
<1>1. n \in Chain(v, n) /\ Chain(v, n) \in SUBSET (0..N)
  BY ChainSelf
<1>2. e \in Chain(v, n) /\ \A m \in Chain(v, n) : m <= e
  BY <1>0, <1>1, MaxOf
<1>3. n \in 0..N /\ e \in v.shown /\ e \in 0..N /\ e \in Below[n]
  BY <1>2, ChainSelf
<1>4. ASSUME e # 0, Passed(v, e) PROVE FALSE
  <2>1. PICK k : k \in Under(v, e)
    BY <1>4, FS_EmptySet DEF Passed
  <2>2. k \in Chain(v, n) /\ e < k
    BY <1>2, <1>3, <1>4, <2>1, ChainGoesOn
  <2>3. k \in 0..N /\ k <= e
    BY <1>1, <1>2, <2>2
  <2> QED  BY <1>3, <2>2, <2>3
<1>5. ASSUME NEW m \in Chain(v, n) PROVE e \in Below[m] /\ (m # e => m # 0 /\ Passed(v, m))
  <2>1. e \in Below[m]
    BY <1>2, ChainLinear
  <2> QED  BY <1>2, <1>3, <2>1, ChainIs, ChainSelf
<1> QED  BY <1>2, <1>3, <1>4, <1>5 DEF e

(* Every node shown is in the chain of one at which a chain begins.          *)
LEMMA ChainTop ==
  ASSUME NEW v, IsView(v), NEW m \in v.shown, m # 0
  PROVE  \E n \in v.shown : Top(v, n) /\ m \in Chain(v, n)
<1> DEFINE T == {n \in v.shown \ {0} : m \in Chain(v, n)}
<1>1. T \in SUBSET (0..N) /\ m \in T
  BY ChainSelf, ViewFields
<1>2. PICK n \in T : \A k \in T : n <= k
  BY <1>1, LeastNode
<1>3. n \in 0..N /\ n # 0 /\ n \in v.shown /\ m \in Chain(v, n) /\ m \in Below[n]
  BY <1>2, ChainSelf
<1>4. ASSUME Parent[n] # 0, Passed(v, Parent[n]) PROVE FALSE
  <2> DEFINE r == Parent[n]
  <2>1. n \in Nodes /\ r \in 0..N /\ r < n /\ n \in Below[r] /\ r \in v.shown
    BY <1>3, ParentIs, BelowOwnParent DEF Nodes, IsView, CutsDown
  <2>2. m \in Below[r] /\ m \in v.shown
    BY <1>3, <2>1, BelowTrans, ChainSelf
  <2>3. ASSUME NEW p \in Below[r], p # m, m \in Below[p] PROVE p # 0 /\ Passed(v, p)
    <3>1. p \in 0..N /\ r <= p
      BY <2>1, BelowBounds
    <3>2. CASE n <= p
      <4>1. p \in Below[n]
        BY <1>3, <2>3, <3>1, <3>2, BelowLinear
      <4> QED  BY <1>3, <2>3, <4>1, ChainIs
    <3>3. CASE ~(n <= p)
      <4>1. n \in Below[p] /\ n # p
        BY <1>3, <2>3, <3>1, <3>3, BelowLinear
      <4>2. r \in Below[p]
        BY <3>1, <4>1, BelowParent
      <4>3. p = r
        BY <3>1, <4>2, <2>1, BelowBounds
      <4> QED  BY <4>3, <1>4
    <3> QED  BY <3>2, <3>3
  <2>4. m \in Chain(v, r)
    BY <2>1, <2>2, <2>3, ChainIs
  <2>5. r \in T
    BY <2>1, <2>4, <1>4
  <2> QED  BY <1>2, <1>3, <2>1, <2>5
<1> QED  BY <1>3, <1>4 DEF Top

(* No chain begins inside another.                                          *)
LEMMA TopAlone ==
  ASSUME NEW v, IsView(v), NEW c \in v.shown, NEW m \in Chain(v, c),
         NEW e \in Below[c], m \in Below[e], Top(v, e)
  PROVE  e = c
<1> SUFFICES ASSUME e # c PROVE FALSE
  OBVIOUS
<1>1. c \in 0..N /\ e \in 0..N
  BY ChainSelf, BelowBounds
<1>2. e \in Nodes /\ Parent[e] \in Below[c] /\ Parent[e] \in 0..N /\ Parent[e] < e
  BY <1>1, BelowParent
<1>3. m \in 0..N /\ e <= m /\ m \in Below[Parent[e]]
  BY <1>1, <1>2, BelowOwnParent, BelowTrans, BelowBounds
<1>4. Parent[e] # 0 /\ Passed(v, Parent[e])
  BY <1>1, <1>2, <1>3, ChainIs
<1> QED  BY <1>4 DEF Top

(* What is shown below a node of a chain is in the chain, or below its end.   *)
LEMMA BelowChain ==
  ASSUME NEW v, IsView(v), NEW e \in v.shown, NEW x \in Chain(v, e), NEW m \in v.shown, m \in Below[x]
  PROVE  m \in Chain(v, e) \/ m \in Below[v.end[e]]
<1> SUFFICES ASSUME m \notin Below[v.end[e]] PROVE m \in Chain(v, e)
  OBVIOUS
<1> DEFINE T == {p \in Chain(v, e) : m \in Below[p]}
<1>1. T \in SUBSET (0..N) /\ x \in T
  BY ChainSelf
<1>2. PICK p \in T : \A q \in T : q <= p
  BY <1>1, GreatestNode
<1>3. p \in 0..N /\ p # v.end[e] /\ p # 0 /\ Passed(v, p) /\ e \in 0..N
  BY <1>2, EndIs, ChainSelf
<1>4. CASE p = m
  BY <1>2, <1>4
<1>5. CASE p # m
  <2>1. PICK k \in Kids(p) : m \in Below[k]
    BY <1>2, <1>3, <1>5, BelowChild
  <2>2. k \in Under(v, p)
    BY <2>1, KidIs, AboveShown DEF Under
  <2>3. k \in Chain(v, e) /\ p < k
    BY <1>2, <1>3, <2>2, ChainGoesOn
  <2>4. k \in T /\ k \in 0..N
    BY <2>1, <2>3, KidIs
  <2> QED  BY <1>2, <1>3, <2>3, <2>4
<1> QED  BY <1>4, <1>5

(* A region strictly above another is below whose end that lies.             *)
LEMMA RegionAbove ==
  ASSUME NEW v, IsView(v), NEW c \in v.shown, Top(v, c), NEW e \in v.shown, Top(v, e),
         c \in Below[e], c # e
  PROVE  e \in v.begins /\ c \in Below[v.end[e]] /\ c # v.end[e]
<1>1. c \in 0..N /\ e \in 0..N /\ c \in Below[c] /\ e \in Chain(v, e)
  BY ChainSelf, BelowSelf
<1>2. c \notin Chain(v, e)
  BY <1>1, TopAlone
<1>3. c \in Below[v.end[e]] /\ c # v.end[e] /\ v.end[e] \in 0..N
  BY <1>1, <1>2, BelowChain, EndIs
<1>4. PICK k \in Kids(v.end[e]) : c \in Below[k]
  BY <1>3, BelowChild
<1>5. k \in Under(v, v.end[e])
  BY <1>4, KidIs, AboveShown DEF Under
<1>6. v.end[e] \notin Mute(v)
  BY <1>5 DEF Mute
<1> QED  BY <1>3, <1>6, ViewFields

--------------------------------------------------------------------------------
(* The parts of Coverage, by name.                                          *)
TouchedIn(v, S, X) == {c \in v.begins : Touched(v, c, S, X)}
OpenIn(v, S, X)    == {c \in v.begins : \A e \in OnTheWay(v, 0, c) : ~Has(v, e, X) /\ ~Has(v, e, S)}
HalfIn(v, S, X)    == OpenIn(v, S, X) \cap TouchedIn(v, S, X)
MissedIn(v, S, X, c) ==
  {k \in v.inside[c] \ TouchedIn(v, S, X) : ~Has(v, k, X) /\ ~Beyond(v, k, S, X)}
PartialAt(v, S, X, b) == v.end[b] \in Stack /\ Cardinality(v.inside[b] \cap TouchedIn(v, S, X)) > 1

MissedEnds(v, S, X) == [c \in HalfIn(v, S, X) \cup {0} |-> {v.end[k] : k \in MissedIn(v, S, X, c)}]
PartialEnds(v, S, X) == {v.end[c] : c \in {b \in HalfIn(v, S, X) \cup ({0} \ S) : PartialAt(v, S, X, b)}}
HalfEnds(v, S, X)    == {v.end[c] : c \in HalfIn(v, S, X)}
CutCauses(v, S, X)   ==
  {x[2] : x \in {y \in v.cut : y[1] = 0 \/ \E c \in OpenIn(v, S, X) : CutAt(v, c) /\ y[1] = v.end[c]}}

LEMMA CoverageIs ==
  ASSUME NEW v, NEW S, NEW X
  PROVE  /\ Coverage(v, S, X).uncovered = MissedEnds(v, S, X)
         /\ Coverage(v, S, X).partial = PartialEnds(v, S, X)
         /\ Coverage(v, S, X).unverified = HalfEnds(v, S, X)
         /\ Coverage(v, S, X).causes = CutCauses(v, S, X)
  BY DEF Coverage, TouchedIn, OpenIn, HalfIn, MissedIn, PartialAt, MissedEnds, PartialEnds, HalfEnds, CutCauses

LEMMA UncoveredIs ==
  ASSUME NEW v, NEW S, NEW X, NEW n
  PROVE  n \in Uncovered(Coverage(v, S, X)) <=>
           \E c \in HalfIn(v, S, X) \cup {0} : \E k \in MissedIn(v, S, X, c) : n = v.end[k]
<1> DEFINE u == Coverage(v, S, X).uncovered
<1>1. u = MissedEnds(v, S, X)
  BY CoverageIs
<1>2. Uncovered(Coverage(v, S, X)) = UNION {u[c] : c \in DOMAIN u}
  BY DEF Uncovered
<1> HIDE DEF u
<1>3. /\ DOMAIN u = HalfIn(v, S, X) \cup {0}
      /\ \A c \in DOMAIN u : u[c] = {v.end[k] : k \in MissedIn(v, S, X, c)}
  BY <1>1 DEF MissedEnds
<1> QED  BY <1>2, <1>3

(* What is paired below a region that is not touched.                       *)
LEMMA PairTouches ==
  ASSUME NEW v, NEW S, NEW X, NEW k \in v.begins, NEW d \in v.begins, d \in Below[k], Has(v, d, S)
  PROVE  k \in TouchedIn(v, S, X)
  BY DEF TouchedIn, Touched, Within, Measured

LEMMA TouchedAnyway == ASSUME NEW v, NEW S, NEW X, NEW Y PROVE TouchedIn(v, S, X) = TouchedIn(v, S, Y)
  BY DEF TouchedIn, Touched, Measured

LEMMA BeginIs ==
  ASSUME NEW v, IsView(v), NEW c \in v.begins
  PROVE  /\ c \in v.shown /\ Top(v, c) /\ v.end[c] \notin Mute(v) /\ c \in Nodes /\ c \in 0..N /\ c # 0
         /\ v.chain[c] = Chain(v, c)
<1>1. c \in v.shown /\ Top(v, c) /\ v.end[c] \notin Mute(v) /\ v.chain[c] = Chain(v, c) /\ c \in 0..N
  BY ViewFields
<1> QED  BY <1>1 DEF Top, Nodes

Away(X) == UNION {Below[x] : x \in X}

(* Who is excluded, with everything below: a region that is, or that is       *)
(* inside one that is.                                                      *)
LEMMA ExcludedBelow ==
  ASSUME NEW v, IsView(v), NEW X \in SUBSET Nodes, NEW c \in v.begins, NEW e \in v.begins,
         c \in Below[e], Has(v, e, X)
  PROVE  /\ v.end[c] \in Away(X)
         /\ \A m \in Below[v.end[c]] : m \in Away(X)
<1>1. /\ c \in v.shown /\ e \in v.shown /\ Top(v, c) /\ Top(v, e) /\ v.chain[e] = Chain(v, e)
      /\ c \in 0..N /\ e \in 0..N
  BY BeginIs
<1>2. PICK x \in X : x \in Chain(v, e)
  BY <1>1 DEF Has
<1>3. x \in 0..N /\ v.end[e] \in Below[x] /\ v.end[e] \in 0..N /\ v.end[c] \in Below[c] /\ v.end[c] \in 0..N
  BY <1>1, <1>2, EndIs, ChainSelf
<1>4. v.end[c] \in Below[v.end[e]]
  <2>1. CASE c = e
    BY <1>3, <2>1, BelowSelf
  <2>2. CASE c # e
    BY <1>1, <1>3, <2>2, RegionAbove, BelowTrans
  <2> QED  BY <2>1, <2>2
<1>5. v.end[c] \in Below[x]
  BY <1>3, <1>4, BelowTrans
<1>6. \A m \in Below[v.end[c]] : m \in Below[x]
  BY <1>3, <1>5, BelowTrans
<1> QED  BY <1>2, <1>5, <1>6 DEF Away

LEMMA ExcludedAbove ==
  ASSUME NEW v, IsView(v), NEW X \in SUBSET Nodes, NEW c \in v.begins, v.end[c] \in Away(X)
  PROVE  \E e \in v.begins : c \in Below[e] /\ Has(v, e, X)
<1>1. c \in v.shown /\ Top(v, c) /\ c \in 0..N /\ v.end[c] \in Chain(v, c) /\ v.end[c] \in v.shown /\ v.end[c] \in 0..N
  BY BeginIs, EndIs
<1>2. PICK x \in X : v.end[c] \in Below[x]
  BY DEF Away
<1>3. x \in 0..N /\ x # 0 /\ x \in v.shown
  BY <1>1, <1>2, AboveShown, FrameReceiptAssumption DEF Nodes
<1>4. PICK e \in v.shown : Top(v, e) /\ x \in Chain(v, e)
  BY <1>3, ChainTop
<1>5. e \in 0..N /\ x \in Below[e] /\ v.end[c] \in Below[e] /\ v.end[c] \in Below[c]
  BY <1>1, <1>2, <1>4, ChainSelf, BelowTrans, EndIs
<1>6. c \in Below[e]
  <2>1. CASE e <= c
    BY <1>1, <1>5, <2>1, BelowLinear
  <2>2. CASE ~(e <= c)
    <3>1. e \in Below[c]
      BY <1>1, <1>5, <2>2, BelowLinear
    <3>2. e = c
      BY <1>1, <1>4, <1>5, <3>1, TopAlone
    <3> QED  BY <3>2, <1>1, BelowSelf
  <2> QED  BY <2>1, <2>2
<1>7. e \in v.begins
  <2>1. CASE c = e
    BY <2>1
  <2>2. CASE c # e
    BY <1>1, <1>4, <1>6, <2>2, RegionAbove
  <2> QED  BY <2>1, <2>2
<1>8. Has(v, e, X)
  BY <1>4, ViewFields DEF Has
<1> QED  BY <1>6, <1>7, <1>8

LEMMA WayFromRoot ==
  ASSUME NEW v, IsView(v), NEW c \in v.begins, NEW e
  PROVE  e \in OnTheWay(v, 0, c) <=> e \in v.begins /\ c \in Below[e]
  BY BeginIs, BelowRoot DEF OnTheWay, Within

(* The demands go with the exclusion, the measurements do not.               *)
LEMMA OpenWithout ==
  ASSUME NEW v, IsView(v), NEW S, NEW X \in SUBSET Nodes, NEW c
  PROVE  c \in OpenIn(v, S, X) <=> c \in OpenIn(v, S, {}) /\ v.end[c] \notin Away(X)
<1>1. ASSUME c \in OpenIn(v, S, X) PROVE c \in OpenIn(v, S, {}) /\ v.end[c] \notin Away(X)
  <2>1. c \in v.begins /\ \A e \in v.begins : c \in Below[e] => ~Has(v, e, X) /\ ~Has(v, e, S)
    BY <1>1, WayFromRoot DEF OpenIn
  <2>2. \A e : ~Has(v, e, {})
    BY DEF Has
  <2> QED  BY <2>1, <2>2, WayFromRoot, ExcludedAbove DEF OpenIn
<1>2. ASSUME c \in OpenIn(v, S, {}), v.end[c] \notin Away(X) PROVE c \in OpenIn(v, S, X)
  <2>1. c \in v.begins /\ \A e \in v.begins : c \in Below[e] => ~Has(v, e, S)
    BY <1>2, WayFromRoot DEF OpenIn
  <2>2. \A e \in v.begins : c \in Below[e] => ~Has(v, e, X)
    BY <2>1, <1>2, ExcludedBelow
  <2> QED  BY <2>1, <2>2, WayFromRoot DEF OpenIn
<1> QED  BY <1>1, <1>2

LEMMA EndOfRoot == ASSUME NEW v, IsView(v) PROVE v.end[0] = 0 /\ v.inside[0] = {k \in v.begins : Parent[k] = 0}
<1>1. 0 \in v.shown /\ v.end[0] \in Chain(v, 0) /\ 0 \in Chain(v, 0)
  BY ViewFields, EndIs, ChainSelf
<1>2. v.end[0] = 0
  BY <1>1, EndIs
<1> QED  BY <1>1, <1>2, ViewFields

LEMMA PartialWithout ==
  ASSUME NEW v, IsView(v), NEW S, NEW X \in SUBSET Nodes
  PROVE  Coverage(v, S, X).partial = Coverage(v, S, {}).partial \ Away(X)
<1> DEFINE A == {b \in HalfIn(v, S, X) \cup ({0} \ S) : PartialAt(v, S, X, b)}
           B == {b \in HalfIn(v, S, {}) \cup ({0} \ S) : PartialAt(v, S, {}, b)}
<1>1. \A b : PartialAt(v, S, X, b) <=> PartialAt(v, S, {}, b)
  BY TouchedAnyway DEF PartialAt
<1>2. \A c : c \in HalfIn(v, S, X) <=> c \in HalfIn(v, S, {}) /\ v.end[c] \notin Away(X)
  BY TouchedAnyway, OpenWithout DEF HalfIn
<1>3. v.end[0] \notin Away(X)
  <2>1. v.end[0] = 0
    BY EndOfRoot
  <2>2. ASSUME NEW x \in X PROVE 0 \notin Below[x]
    <3>1. x \in 0..N /\ x > 0
      BY FrameReceiptAssumption DEF Nodes
    <3> QED  BY <3>1, BelowBounds
  <2> QED  BY <2>1, <2>2 DEF Away
<1>4. \A b : b \in A <=> b \in B /\ v.end[b] \notin Away(X)
  <2>1. \A b : b \in HalfIn(v, S, X) \cup ({0} \ S) <=> b \in HalfIn(v, S, {}) \cup ({0} \ S) /\ v.end[b] \notin Away(X)
    BY <1>2, <1>3
  <2> QED  BY <1>1, <2>1
<1>5. Coverage(v, S, X).partial = {v.end[c] : c \in A} /\ Coverage(v, S, {}).partial = {v.end[c] : c \in B}
  BY CoverageIs DEF PartialEnds
<1> HIDE DEF A, B
<1> QED  BY <1>4, <1>5

--------------------------------------------------------------------------------
(* A projection against the frame: what is passed in the one is passed in the   *)
(* other, so that chains can only get longer.                                *)
LEMMA PassedInFrame ==
  ASSUME NEW v, IsView(v), NEW p \in v.shown, Passed(v, p)
  PROVE  Passed(Frame, p)
<1>1. ~IsCut(v, p) /\ Kids(p) \subseteq v.shown
  BY DEF Passed, IsView, CutsDown
<1>2. Under(v, p) = Kids(p) /\ Under(Frame, p) = Kids(p)
  BY <1>1, FrameView, KidIs DEF Under
<1>3. ~IsCut(Frame, p)
  BY FrameView DEF IsCut
<1> QED  BY <1>2, <1>3, Zenon DEF Passed

(* What is in the chain from a node on is in the frame's chain from any node of *)
(* it on.                                                                   *)
LEMMA ChainInFrame ==
  ASSUME NEW v, IsView(v), NEW n \in v.shown, NEW m \in Chain(v, n), NEW k \in Chain(v, n), k \in Below[m]
  PROVE  k \in Frame.chain[m]
<1>1. n \in 0..N /\ m \in 0..N /\ m \in Below[n] /\ k \in 0..N /\ k \in v.shown
  BY ChainSelf, BelowBounds
<1>2. ASSUME NEW p \in Below[m], p # k, k \in Below[p] PROVE p # 0 /\ Passed(Frame, p)
  <2>1. p \in Below[n] /\ p \in 0..N
    BY <1>1, <1>2, BelowTrans, BelowBounds
  <2>2. p # 0 /\ Passed(v, p)
    BY <1>1, <1>2, <2>1, ChainIs
  <2>3. p \in v.shown
    BY <1>1, <1>2, <2>1, AboveShown
  <2> QED  BY <2>2, <2>3, PassedInFrame
<1>3. k \in Chain(Frame, m)
  BY <1>1, <1>2, FrameView, ChainIs
<1> QED  BY <1>1, <1>3, FrameView, ViewFields

(* Nothing is above a region of the root but itself.                         *)
LEMMA AloneAtRoot ==
  ASSUME NEW c \in Nodes, Parent[c] = 0, NEW e \in Nodes, c \in Below[e]
  PROVE  e = c
<1>1. e \in 0..N /\ c \in 0..N /\ e > 0
  BY FrameReceiptAssumption DEF Nodes
<1>2. ASSUME e # c PROVE FALSE
  <2>1. 0 \in Below[e]
    BY <1>1, <1>2, BelowParent
  <2> QED  BY <1>1, <2>1, BelowBounds
<1> QED  BY <1>2

(* A receipt that is complete means that every region of the frame is paired.   *)
LEMMA CompleteIsPaired ==
  ASSUME NEW v, IsView(v), NEW S, NEW X \in SUBSET Nodes,
         Uncovered(Coverage(v, S, X)) = {}, Coverage(v, S, X).unverified = {}, Coverage(v, S, X).causes = {},
         NEW c \in Frame.inside[0], Frame.chain[c] \cap Away(X) = {}
  PROVE  Frame.chain[c] \cap (S \cup Mute(v)) # {}
<1>1. c \in Frame.begins /\ Parent[c] = 0 /\ c \in Nodes /\ c \in 0..N /\ c # 0
  BY FrameView, EndOfRoot, BeginIs
<1>2. c \in v.shown
  <2>1. ASSUME IsCut(v, 0) PROVE FALSE
    <3>1. PICK x \in v.cut : x[1] = 0
      BY <2>1 DEF IsCut
    <3>2. x[2] \in CutCauses(v, S, X)
      BY <3>1 DEF CutCauses
    <3> QED  BY <3>2, CoverageIs
  <2>2. Kids(0) \subseteq v.shown
    BY <2>1 DEF IsView, CutsDown
  <2> QED  BY <1>1, <2>2 DEF Kids
<1>3. Top(v, c) /\ c \in Chain(v, c) /\ v.end[c] \in Chain(v, c) /\ v.chain[c] = Chain(v, c)
  BY <1>1, <1>2, ChainSelf, EndIs, ViewFields DEF Top
<1>4. Chain(v, c) \subseteq Frame.chain[c]
  BY <1>2, <1>3, ChainInFrame, ChainSelf
<1>5. CASE v.end[c] \in Mute(v)
  BY <1>3, <1>4, <1>5
<1>6. CASE Has(v, c, S)
  BY <1>3, <1>4, <1>6 DEF Has
<1>7. CASE v.end[c] \notin Mute(v) /\ ~Has(v, c, S)
  <2>1. c \in v.begins /\ c \in v.inside[0]
    BY <1>1, <1>2, <1>3, <1>7, ViewFields, EndOfRoot
  <2>2. ~Has(v, c, X)
    <3>1. \A x \in X : x \in Away(X)
      BY BelowSelf DEF Away, Nodes
    <3> QED  BY <1>3, <1>4, <3>1 DEF Has
  <2>3. \A e \in v.begins : c \in Below[e] => e = c
    BY <1>1, BeginIs, AloneAtRoot
  <2>4. c \in OpenIn(v, S, X)
    BY <2>1, <2>2, <2>3, <1>7, WayFromRoot DEF OpenIn
  <2>5. c \notin TouchedIn(v, S, X)
    <3>1. HalfEnds(v, S, X) = {}
      BY CoverageIs
    <3>2. c \notin HalfIn(v, S, X)
      BY <3>1 DEF HalfEnds
    <3> QED  BY <2>4, <3>2 DEF HalfIn
  <2>6. Beyond(v, c, S, X)
    <3>1. c \notin MissedIn(v, S, X, 0)
      BY UncoveredIs
    <3> QED  BY <2>1, <2>2, <2>5, <3>1 DEF MissedIn
  <2>7. PICK d \in Within(v, c) : CutAt(v, d) /\ \A e \in OnTheWay(v, c, d) : ~Has(v, e, S) /\ (e = c \/ ~Has(v, e, X))
    BY <2>6 DEF Beyond
  <2>8. d \in v.begins /\ d \in Below[c]
    BY <2>7 DEF Within
  <2>9. ASSUME NEW e \in v.begins, d \in Below[e] PROVE ~Has(v, e, X) /\ ~Has(v, e, S)
    <3>1. e \in 0..N
      BY BeginIs
    <3>2. e \in Below[c]
      <4>1. CASE c <= e
        BY <1>1, <2>8, <2>9, <3>1, <4>1, BelowLinear
      <4>2. CASE ~(c <= e)
        BY <1>1, <2>3, <2>8, <2>9, <3>1, <4>2, BelowLinear
      <4> QED  BY <4>1, <4>2
    <3>3. e \in OnTheWay(v, c, d)
      BY <2>9, <3>2 DEF OnTheWay, Within
    <3> QED  BY <2>2, <2>7, <3>3
  <2>10. d \in OpenIn(v, S, X)
    BY <2>8, <2>9, WayFromRoot DEF OpenIn
  <2>11. PICK x \in v.cut : x[1] = v.end[d]
    BY <2>7 DEF CutAt, IsCut
  <2>12. x[2] \in CutCauses(v, S, X)
    BY <2>7, <2>10, <2>11 DEF CutCauses
  <2> QED  BY <2>12, CoverageIs
<1> QED  BY <1>5, <1>6, <1>7

(* A region that is called uncovered has nothing in it that is paired, but what  *)
(* the projection takes for decoration.                                      *)
LEMMA UncoveredIsUnpaired ==
  ASSUME NEW v, IsView(v), NEW S, NEW X \in SUBSET Nodes, NEW n \in Uncovered(Coverage(v, S, X)),
         NEW m \in Below[n], m \in S, m \notin Away(X)
  PROVE  Frame.chain[m] \cap Mute(v) # {} \/ \E e \in Mute(v) : m \in Below[e]
<1>0. PICK c \in HalfIn(v, S, X) \cup {0} : \E k \in MissedIn(v, S, X, c) : n = v.end[k]
  BY UncoveredIs
<1>1. PICK k \in MissedIn(v, S, X, c) : n = v.end[k]
  BY <1>0
<1>2. k \in v.begins /\ k \notin TouchedIn(v, S, X) /\ ~Beyond(v, k, S, X)
  <2>1. c \in v.shown
    BY BeginIs, ViewFields DEF HalfIn, OpenIn
  <2>2. v.inside[c] \subseteq v.begins
    BY <2>1, ViewFields
  <2> QED  BY <1>1, <2>2 DEF MissedIn
<1>3. k \in v.shown /\ Top(v, k) /\ k \in 0..N /\ k # 0 /\ n \in Below[k] /\ n \in v.shown /\ n \in 0..N
  BY <1>1, <1>2, BeginIs, EndIs
<1>4. m \in 0..N /\ n <= m /\ m \in Below[k] /\ k <= n
  BY <1>3, BelowBounds, BelowTrans
(* The chain that holds a node below n begins at k or below it.               *)
<1>5. ASSUME NEW a \in v.shown, a \in Below[n], NEW t \in v.shown, Top(v, t), a \in Chain(v, t)
      PROVE  t \in Below[k] /\ t \in 0..N
  <2>1. t \in 0..N /\ a \in Below[t] /\ a \in Below[k] /\ a \in 0..N
    BY <1>3, <1>5, ChainSelf, BelowTrans, BelowBounds
  <2>2. CASE k <= t
    BY <1>3, <2>1, <2>2, BelowLinear
  <2>3. CASE ~(k <= t)
    <3>1. k \in Below[t]
      BY <1>3, <2>1, <2>3, BelowLinear
    <3>2. k = t
      BY <1>3, <1>5, <2>1, <3>1, TopAlone
    <3> QED  BY <3>2, <1>3, BelowSelf
  <2> QED  BY <2>1, <2>2, <2>3
<1>6. CASE m \in v.shown
  <2>1. PICK t \in v.shown : Top(v, t) /\ m \in Chain(v, t)
    BY <1>3, <1>4, <1>6, ChainTop
  <2>2. t \in Below[k] /\ v.chain[t] = Chain(v, t)
    BY <1>5, <1>6, <2>1, ViewFields
  <2>3. t \notin v.begins
    BY <1>2, <2>1, <2>2, PairTouches DEF Has
  <2>4. v.end[t] \in Mute(v)
    BY <2>1, <2>3, ViewFields
  <2>5. v.end[t] \in Frame.chain[m]
    BY <2>1, EndIs, ChainInFrame
  <2> QED  BY <2>4, <2>5
<1>7. CASE m \notin v.shown
  <2> DEFINE T == {a \in v.shown : m \in Below[a]}
  <2>1. T \in SUBSET (0..N) /\ n \in T
    BY <1>3, ViewFields
  <2>2. PICK a \in T : \A b \in T : b <= a
    BY <2>1, GreatestNode
  <2>3. a \in v.shown /\ a \in 0..N /\ m \in Below[a] /\ a # m /\ n <= a /\ a \in Below[n] /\ a # 0
    <3>1. a \in v.shown /\ a \in 0..N /\ m \in Below[a] /\ a # m /\ n <= a
      BY <1>7, <2>1, <2>2
    <3>2. a \in Below[n]
      BY <1>3, <3>1, BelowLinear
    <3> QED  BY <1>3, <1>4, <3>1, <3>2
  <2>4. PICK q \in Kids(a) : m \in Below[q]
    BY <2>3, BelowChild
  <2>5. q \notin v.shown
    <3>1. a < q /\ q \in 0..N
      BY <2>4, KidIs
    <3>2. ASSUME q \in v.shown PROVE q <= a
      BY <2>2, <2>4, <3>2
    <3> QED  BY <2>3, <3>1, <3>2
  <2>6. IsCut(v, a)
    BY <2>3, <2>4, <2>5 DEF IsView, CutsDown
  <2>7. PICK t \in v.shown : Top(v, t) /\ a \in Chain(v, t)
    BY <2>3, ChainTop
  <2>8. v.end[t] = a /\ t \in Below[k] /\ t \in 0..N
    BY <1>5, <2>3, <2>6, <2>7, EndIs DEF Passed
  <2>9. CASE a \in Mute(v)
    BY <2>3, <2>9
  <2>10. CASE a \notin Mute(v)
    <3>1. t \in v.begins /\ t \in Within(v, k) /\ CutAt(v, t)
      BY <2>6, <2>7, <2>8, <2>10, ViewFields DEF Within, CutAt
    <3>2. PICK e \in OnTheWay(v, k, t) : Has(v, e, S) \/ Has(v, e, X)
      BY <1>2, <3>1 DEF Beyond
    <3>3. e \in v.begins /\ e \in Below[k] /\ t \in Below[e]
      BY <3>2 DEF OnTheWay, Within
    <3>4. ~Has(v, e, S)
      BY <1>2, <3>3, PairTouches
    <3>5. m \in Away(X)
      BY <2>3, <2>8, <3>1, <3>2, <3>3, <3>4, ExcludedBelow
    <3> QED  BY <3>5
  <2> QED  BY <2>9, <2>10
<1> QED  BY <1>6, <1>7

(* The three of them.                                                       *)
LEMMA HonestView ==
  ASSUME NEW v, IsView(v), NEW S, NEW X \in SUBSET Nodes
  PROVE  LET cov == Coverage(v, S, X)
         IN  /\ Uncovered(cov) \cup cov.partial \cup cov.unverified = {} /\ cov.causes = {}
                => \A c \in Frame.inside[0] : Frame.chain[c] \cap Away(X) = {} => Frame.chain[c] \cap (S \cup Mute(v)) # {}
             /\ \A n \in Uncovered(cov) : \A m \in (Below[n] \ Away(X)) \cap S :
                  Frame.chain[m] \cap Mute(v) # {} \/ \E e \in Mute(v) : m \in Below[e]
             /\ cov.partial = Coverage(v, S, {}).partial \ Away(X)
<1>1. ASSUME Uncovered(Coverage(v, S, X)) \cup Coverage(v, S, X).partial \cup Coverage(v, S, X).unverified = {},
             Coverage(v, S, X).causes = {}
      PROVE  \A c \in Frame.inside[0] : Frame.chain[c] \cap Away(X) = {} => Frame.chain[c] \cap (S \cup Mute(v)) # {}
  <2>1. Uncovered(Coverage(v, S, X)) = {} /\ Coverage(v, S, X).unverified = {}
    BY <1>1
  <2> QED  BY <1>1, <2>1, CompleteIsPaired
<1>2. \A n \in Uncovered(Coverage(v, S, X)) : \A m \in (Below[n] \ Away(X)) \cap S :
        Frame.chain[m] \cap Mute(v) # {} \/ \E e \in Mute(v) : m \in Below[e]
  BY UncoveredIsUnpaired
<1>3. Coverage(v, S, X).partial = Coverage(v, S, {}).partial \ Away(X)
  BY PartialWithout
<1> QED  BY <1>1, <1>2, <1>3

--------------------------------------------------------------------------------
(* The projection.  A child is one level further down than its parent.        *)
LEMMA LevelIs ==
  ASSUME NEW n \in 0..N
  PROVE  Level[n] = Cardinality({a \in 0..(n - 1) : n \in Below[a]}) /\ Level[n] \in Nat
<1>1. n \in Nat
  BY FrameReceiptAssumption
<1>2. IsFiniteSet(0..(n - 1))
  BY <1>1, FS_Interval
<1>3. IsFiniteSet({a \in 0..(n - 1) : n \in Below[a]})
  BY <1>2, FS_Subset
<1> QED  BY <1>3, FS_CardinalityType DEF Level

LEMMA LevelOfKid ==
  ASSUME NEW n, NEW k \in Kids(n)
  PROVE  Level[k] = Level[n] + 1
<1> DEFINE A == {a \in 0..(n - 1) : n \in Below[a]}
           B == {a \in 0..(k - 1) : k \in Below[a]}
<1>1. k \in 0..N /\ n \in 0..N /\ n < k /\ k \in Below[n] /\ Parent[k] = n /\ N \in Nat
  BY KidIs, FrameReceiptAssumption
<1>2. IsFiniteSet(0..(n - 1))
  BY <1>1, FS_Interval
<1>3. IsFiniteSet(A) /\ n \notin A
  BY <1>1, <1>2, FS_Subset
<1>4. ASSUME NEW a \in B PROVE a \in A \cup {n}
  <2>1. a \in 0..N /\ a # k
    BY <1>1
  <2>2. n \in Below[a]
    BY <1>1, <2>1, BelowParent
  <2>3. a <= n
    BY <2>1, <2>2, BelowBounds
  <2> QED  BY <1>1, <2>1, <2>2, <2>3
<1>5. ASSUME NEW a \in A PROVE a \in B
  <2>1. a \in 0..N
    BY <1>1
  <2>2. k \in Below[a]
    BY <1>1, <2>1, BelowTrans
  <2> QED  BY <1>1, <2>2
<1>6. n \in B
  BY <1>1
<1>7. B = A \cup {n}
  BY <1>4, <1>5, <1>6
<1>8. Cardinality(A \cup {n}) = Cardinality(A) + 1
  BY <1>3, FS_AddElement
<1>9. Level[n] = Cardinality(A) /\ Level[k] = Cardinality(B)
  BY <1>1, LevelIs
<1> HIDE DEF A, B
<1> QED  BY <1>7, <1>8, <1>9

LEMMA LevelOfRoot == Level[0] = 0
<1>1. {a \in 0..(0 - 1) : 0 \in Below[a]} = {}
  OBVIOUS
<1> QED  BY <1>1, LevelIs, BelowRoot, FrameReceiptAssumption, FS_EmptySet

(* The pruning, done for the nodes before j.                                *)
ListedFrom(J, w) == UNION {Listed(n, w) : n \in J}
Before(T, j, d, w) == {x \in Opened(T, d, w) : x < j}
Upto(T, j, d, w) == T = {0} \cup ListedFrom(Before(T, j, d, w), w)
ShownAt(d) == {n \in 0..N : Level[n] <= d}

LEMMA ListedFromMore ==
  ASSUME NEW J, NEW j, NEW w
  PROVE  ListedFrom(J \cup {j}, w) = ListedFrom(J, w) \cup Listed(j, w)
<1>1. ASSUME NEW m PROVE m \in ListedFrom(J \cup {j}, w) <=> m \in ListedFrom(J, w) \/ m \in Listed(j, w)
  BY DEF ListedFrom
<1> QED  BY <1>1

LEMMA PruneNext ==
  ASSUME NEW d \in Nat, NEW w, NEW j \in 0..N, NEW T \in SUBSET ShownAt(d), Upto(T, j, d, w)
  PROVE  \E U \in SUBSET ShownAt(d) : Upto(U, j + 1, d, w)
<1> DEFINE U == IF j \in Opened(T, d, w) THEN T \cup Listed(j, w) ELSE T
<1>0. T \subseteq 0..N
  BY DEF ShownAt
<1>1. \A m \in Listed(j, w) : m \in 0..N /\ Parent[m] = j /\ j < m /\ Level[m] = Level[j] + 1
  BY KidIs, LevelOfKid DEF Listed
<1>2. U \in SUBSET ShownAt(d)
  <2>1. CASE j \in Opened(T, d, w)
    <3>1. Level[j] < d /\ Level[j] \in Nat
      BY <2>1, LevelIs DEF Opened
    <3>2. \A m \in Listed(j, w) : m \in ShownAt(d)
      BY <1>1, <3>1 DEF ShownAt
    <3> QED  BY <2>1, <3>2
  <2>2. CASE j \notin Opened(T, d, w)
    BY <2>2
  <2> QED  BY <2>1, <2>2
<1>3. T \subseteq U /\ \A m \in U \ T : m \in 0..N /\ Parent[m] = j /\ j < m
  BY <1>1
<1> HIDE DEF U
<1>4. ASSUME NEW n \in 0..N, n <= j PROVE n \in Opened(U, d, w) <=> n \in Opened(T, d, w)
  <2>1. n \in U <=> n \in T
    BY <1>3, <1>4
  <2>2. {m \in U \ {0} : Parent[m] < n} = {m \in T \ {0} : Parent[m] < n}
    BY <1>3, <1>4
  <2>3. OverBudget(U, n, w) <=> OverBudget(T, n, w)
    BY <2>2 DEF OverBudget, Spent
  <2> QED  BY <2>1, <2>3 DEF Opened
<1>5. \A x : x \in Opened(U, d, w) => x \in 0..N
  BY <1>2 DEF Opened, ShownAt
<1>6. \A x : x \in Opened(T, d, w) => x \in 0..N
  BY <1>0 DEF Opened
<1>7. ASSUME NEW x PROVE x \in Before(U, j + 1, d, w) <=> x \in Opened(T, d, w) /\ (x < j \/ x = j)
  <2>1. x \in 0..N => (x < j + 1 <=> x < j \/ x = j) /\ (x < j + 1 => x <= j)
    OBVIOUS
  <2> QED  BY <1>4, <1>5, <1>6, <2>1 DEF Before
<1>8. U = {0} \cup ListedFrom(Before(U, j + 1, d, w), w)
  <2>1. T = {0} \cup ListedFrom(Before(T, j, d, w), w)
    BY DEF Upto
  <2>2. CASE j \in Opened(T, d, w)
    <3>1. U = T \cup Listed(j, w)
      BY <2>2 DEF U
    <3>2. ListedFrom(Before(U, j + 1, d, w), w) = ListedFrom(Before(T, j, d, w), w) \cup Listed(j, w)
      <4>1. ListedFrom(Before(T, j, d, w) \cup {j}, w) = ListedFrom(Before(T, j, d, w), w) \cup Listed(j, w)
        BY ListedFromMore
      <4>2. ASSUME NEW x PROVE x \in Before(U, j + 1, d, w) <=> x \in Before(T, j, d, w) \cup {j}
        BY <1>7, <2>2 DEF Before
      <4>3. Before(U, j + 1, d, w) = Before(T, j, d, w) \cup {j}
        BY <4>2
      <4> QED  BY <4>1, <4>3
    <3> QED  BY <2>1, <3>1, <3>2
  <2>3. CASE j \notin Opened(T, d, w)
    <3>1. U = T
      BY <2>3 DEF U
    <3>2. ASSUME NEW x PROVE x \in Before(U, j + 1, d, w) <=> x \in Before(T, j, d, w)
      BY <1>7, <2>3 DEF Before
    <3>3. Before(U, j + 1, d, w) = Before(T, j, d, w)
      BY <3>2
    <3> QED  BY <2>1, <3>1, <3>3
  <2> QED  BY <2>2, <2>3
<1> QED  BY <1>2, <1>8 DEF Upto

LEMMA ProjectionExists ==
  ASSUME NEW d \in Nat, NEW w
  PROVE  \E T \in SUBSET ShownAt(d) : Projects(T, d, w)
<1> DEFINE Done(j) == \E T \in SUBSET ShownAt(d) : Upto(T, j, d, w)
           Bad == {j \in 0..(N + 1) : ~Done(j)}
<1>0. N \in Nat /\ 0 \in 0..N
  BY FrameReceiptAssumption
<1>1. Done(0)
  <2>1. {0} \in SUBSET ShownAt(d)
    BY <1>0, LevelOfRoot DEF ShownAt
  <2>2. Before({0}, 0, d, w) = {}
    BY DEF Before, Opened
  <2>3. ListedFrom({}, w) = {}
    BY DEF ListedFrom
  <2>4. Upto({0}, 0, d, w)
    BY <2>2, <2>3 DEF Upto
  <2> QED  BY <2>1, <2>4
<1>2. ASSUME NEW j \in 0..N, Done(j) PROVE Done(j + 1)
  <2>1. PICK T \in SUBSET ShownAt(d) : Upto(T, j, d, w)
    BY <1>2
  <2> QED  BY <2>1, PruneNext
<1>3. Bad = {}
  <2>1. ASSUME Bad # {} PROVE FALSE
    <3>1. PICK j \in Bad : \A i \in Bad : j <= i
      <4>1. Bad \in SUBSET Nat
        BY <1>0
      <4> QED  BY <2>1, <4>1, LeastNatural
    <3>2. j # 0 /\ j \in 0..(N + 1) /\ ~Done(j)
      BY <1>1
    <3> HIDE DEF Done
    <3>3. j - 1 \in 0..N /\ (j - 1) + 1 = j
      BY <1>0, <3>2
    <3>4. j - 1 \notin Bad
      BY <1>0, <3>1, <3>3
    <3>5. Done(j - 1)
      BY <1>0, <3>3, <3>4
    <3>6. Done((j - 1) + 1)
      BY <1>2, <3>3, <3>5
    <3> QED  BY <3>2, <3>3, <3>6
  <2> QED  BY <2>1
<1>4. Done(N + 1)
  BY <1>0, <1>3
<1>5. PICK T \in SUBSET ShownAt(d) : Upto(T, N + 1, d, w)
  BY <1>4
<1>6. Before(T, N + 1, d, w) = Opened(T, d, w)
  <2>1. \A n \in 0..N : n < N + 1
    BY <1>0
  <2>2. ASSUME NEW x \in Opened(T, d, w) PROVE x \in 0..N
    BY <1>5 DEF Opened, ShownAt
  <2> QED  BY <2>1, <2>2 DEF Before
<1>7. T = {0} \cup ListedFrom(Opened(T, d, w), w)
  BY <1>5, <1>6 DEF Upto
<1>8. Projects(T, d, w)
  BY <1>7 DEF ListedFrom, Projects
<1> QED  BY <1>5, <1>8

(* The parents of two prunings up to which the children shown are the same.    *)
AlikeUpto(T, U, j) == \A m \in Nodes : Parent[m] < j => (m \in T <=> m \in U)

LEMMA ShownInPruning ==
  ASSUME NEW d, NEW w, NEW T \in SUBSET (0..N), Projects(T, d, w), NEW m \in Nodes
  PROVE  m \in T <=> Parent[m] \in Opened(T, d, w) /\ m \in Listed(Parent[m], w)
<1>1. m # 0
  BY DEF Nodes
<1>2. \A n : m \in Listed(n, w) => Parent[m] = n
  BY DEF Listed, Kids
<1>3. \A x : x \in T <=> x = 0 \/ \E n \in Opened(T, d, w) : x \in Listed(n, w)
  BY DEF Projects
<1> QED  BY <1>1, <1>2, <1>3

LEMMA RootInPruning == ASSUME NEW T, NEW d, NEW w, Projects(T, d, w) PROVE 0 \in T
  BY DEF Projects

LEMMA AlikeNext ==
  ASSUME NEW d, NEW w, NEW T \in SUBSET (0..N), NEW U \in SUBSET (0..N),
         Projects(T, d, w), Projects(U, d, w), NEW j \in 0..N, AlikeUpto(T, U, j)
  PROVE  AlikeUpto(T, U, j + 1)
<1>1. j \in T <=> j \in U
  <2>1. CASE j = 0
    BY <2>1, RootInPruning
  <2>2. CASE j # 0
    <3>1. j \in Nodes /\ Parent[j] < j
      BY <2>2, ParentIs DEF Nodes
    <3> QED  BY <3>1 DEF AlikeUpto
  <2> QED  BY <2>1, <2>2
<1>2. {m \in T \ {0} : Parent[m] < j} = {m \in U \ {0} : Parent[m] < j}
  <2>1. \A m \in 0..N : m # 0 => m \in Nodes
    BY DEF Nodes
  <2> QED  BY <2>1 DEF AlikeUpto
<1>3. OverBudget(T, j, w) <=> OverBudget(U, j, w)
  BY <1>2 DEF OverBudget, Spent
<1>4. j \in Opened(T, d, w) <=> j \in Opened(U, d, w)
  BY <1>1, <1>3 DEF Opened
<1>5. ASSUME NEW m \in Nodes, Parent[m] < j + 1 PROVE m \in T <=> m \in U
  <2>1. CASE Parent[m] < j
    BY <2>1 DEF AlikeUpto
  <2>2. CASE Parent[m] = j
    BY <1>4, <2>2, ShownInPruning
  <2>3. Parent[m] < j \/ Parent[m] = j
    BY <1>5, ParentIs
  <2> QED  BY <2>1, <2>2, <2>3
<1> QED  BY <1>5 DEF AlikeUpto

LEMMA PruningIsOne ==
  ASSUME NEW d, NEW w, NEW T \in SUBSET (0..N), NEW U \in SUBSET (0..N), Projects(T, d, w), Projects(U, d, w)
  PROVE  T = U
<1> DEFINE Bad == {j \in 0..(N + 1) : ~AlikeUpto(T, U, j)}
<1>0. N \in Nat
  BY FrameReceiptAssumption
<1>1. AlikeUpto(T, U, 0)
  BY ParentIs DEF AlikeUpto
<1>2. Bad = {}
  <2>1. ASSUME Bad # {} PROVE FALSE
    <3>1. PICK j \in Bad : \A i \in Bad : j <= i
      <4>1. Bad \in SUBSET Nat
        BY <1>0
      <4> QED  BY <2>1, <4>1, LeastNatural
    <3>2. j # 0 /\ j \in 0..(N + 1) /\ ~AlikeUpto(T, U, j)
      BY <1>1
    <3>3. j - 1 \in 0..N /\ (j - 1) + 1 = j
      BY <1>0, <3>2
    <3>4. j - 1 \notin Bad
      BY <1>0, <3>1, <3>3
    <3>5. AlikeUpto(T, U, j - 1)
      BY <1>0, <3>3, <3>4
    <3>6. AlikeUpto(T, U, (j - 1) + 1)
      BY <3>3, <3>5, AlikeNext
    <3> QED  BY <3>2, <3>3, <3>6
  <2> QED  BY <2>1
<1>3. AlikeUpto(T, U, N + 1)
  BY <1>0, <1>2
<1>4. ASSUME NEW m \in 0..N PROVE m \in T <=> m \in U
  <2>1. CASE m = 0
    BY <2>1, RootInPruning
  <2>2. CASE m # 0
    <3>1. m \in Nodes /\ Parent[m] < N + 1
      BY <1>0, <2>2, ParentIs DEF Nodes
    <3> QED  BY <1>3, <3>1 DEF AlikeUpto
  <2> QED  BY <2>1, <2>2
<1> QED  BY <1>4

(* Exactly one set of nodes is the enumeration of a depth: Projection chooses it. *)
THEOREM ProjectionIsDetermined ==
  ASSUME NEW d \in Nat, NEW w
  PROVE  \E T \in SUBSET (0..N) : /\ Projects(T, d, w) /\ Projection(d, w).shown = T
                                 /\ \A U \in SUBSET (0..N) : Projects(U, d, w) => U = T
<1>1. \E T \in SUBSET ShownAt(d) : Projects(T, d, w)
  BY ProjectionExists
<1> DEFINE T == CHOOSE U \in SUBSET ShownAt(d) : Projects(U, d, w)
<1>2. T \in SUBSET ShownAt(d) /\ Projects(T, d, w)
  BY <1>1
<1>3. Projection(d, w).shown = T
  BY DEF Projection, ShownAt
<1>4. T \in SUBSET (0..N)
  BY <1>2 DEF ShownAt
<1> HIDE DEF T
<1> QED  BY <1>2, <1>3, <1>4, PruningIsOne

(* The choice, and why a node is cut.                                        *)
LEMMA ProjectionIs ==
  ASSUME NEW d \in Nat, NEW w, NEW v, v = Projection(d, w)
  PROVE  /\ v.shown \in SUBSET ShownAt(d) /\ Projects(v.shown, d, w)
         /\ \A n \in v.shown : Level[n] = d /\ Kids(n) # {} => IsCut(v, n)
         /\ \A n \in v.shown : Level[n] < d /\ OverBudget(v.shown, n, w) => IsCut(v, n)
         /\ \A n \in Opened(v.shown, d, w) : IsCut(v, n) \/ Kids(n) \subseteq Listed(n, w)
<1> DEFINE T == CHOOSE U \in SUBSET ShownAt(d) : Projects(U, d, w)
           Deepest == {<<n, "depth">> : n \in {m \in T : Level[m] = d /\ Kids(m) # {}}}
           Dropped == {<<n, "budget">> : n \in {m \in T : Level[m] < d /\ OverBudget(T, m, w)}}
           Many == {<<n, "breadth">> : n \in {m \in Opened(T, d, w) : Listed(m, w) # Kids(m)}}
<1>1. T \in SUBSET ShownAt(d) /\ Projects(T, d, w)
  BY ProjectionExists
<1>2. v = [shown |-> T, cut |-> Deepest \cup Dropped \cup Many]
  BY DEF Projection, ShownAt
<1> HIDE DEF T
<1>3. v.shown = T /\ v.cut = Deepest \cup Dropped \cup Many
  BY <1>2
<1>4. ASSUME NEW n \in T, Level[n] = d /\ Kids(n) # {} PROVE IsCut(v, n)
  <2>1. <<n, "depth">> \in v.cut /\ <<n, "depth">>[1] = n
    BY <1>3, <1>4
  <2> QED  BY <2>1 DEF IsCut
<1>5. ASSUME NEW n \in T, Level[n] < d /\ OverBudget(T, n, w) PROVE IsCut(v, n)
  <2>1. <<n, "budget">> \in v.cut /\ <<n, "budget">>[1] = n
    BY <1>3, <1>5
  <2> QED  BY <2>1 DEF IsCut
<1>6. ASSUME NEW n \in Opened(T, d, w), Listed(n, w) # Kids(n) PROVE IsCut(v, n)
  <2>1. <<n, "breadth">> \in v.cut /\ <<n, "breadth">>[1] = n
    BY <1>3, <1>6
  <2> QED  BY <2>1 DEF IsCut
<1> HIDE DEF Deepest, Dropped, Many
<1>7. \A n \in Opened(T, d, w) : IsCut(v, n) \/ Kids(n) \subseteq Listed(n, w)
  BY <1>6
<1> QED  BY <1>1, <1>3, <1>4, <1>5, <1>7

LEMMA ProjectionCuts == ASSUME NEW d \in Nat, NEW w PROVE CutsDown(Projection(d, w))
<1> DEFINE v == Projection(d, w)
<1>1. v.shown \in SUBSET ShownAt(d) /\ Projects(v.shown, d, w)
  BY ProjectionIs
<1>2. /\ \A n \in v.shown : Level[n] = d /\ Kids(n) # {} => IsCut(v, n)
      /\ \A n \in v.shown : Level[n] < d /\ OverBudget(v.shown, n, w) => IsCut(v, n)
      /\ \A n \in Opened(v.shown, d, w) : IsCut(v, n) \/ Kids(n) \subseteq Listed(n, w)
  BY ProjectionIs
<1> HIDE DEF v
<1>3. v.shown \in SUBSET (0..N) /\ 0 \in v.shown
  BY <1>1, RootInPruning DEF ShownAt
<1>4. ASSUME NEW n \in v.shown \ {0} PROVE Parent[n] \in v.shown
  <2>1. n \in Nodes
    BY <1>3 DEF Nodes
  <2>2. Parent[n] \in Opened(v.shown, d, w)
    BY <1>1, <1>3, <2>1, ShownInPruning
  <2> QED  BY <2>2 DEF Opened
<1>5. ASSUME NEW n \in v.shown, ~IsCut(v, n), NEW k \in Kids(n) PROVE k \in v.shown
  <2>1. n \in 0..N /\ Level[n] <= d /\ Level[n] \in Nat
    BY <1>1, LevelIs DEF ShownAt
  <2>2. Level[n] # d
    BY <1>2, <1>5
  <2>3. Level[n] < d
    BY <2>1, <2>2
  <2>4. n \in Opened(v.shown, d, w)
    BY <1>2, <1>5, <2>3 DEF Opened
  <2>5. k \in Listed(n, w)
    <3>1. Kids(n) \subseteq Listed(n, w)
      BY <1>2, <1>5, <2>4
    <3> QED  BY <3>1
  <2>6. k \in Nodes /\ Parent[k] = n
    BY KidIs
  <2> QED  BY <1>1, <1>3, <2>4, <2>5, <2>6, ShownInPruning
<1>6. CutsDown(v)
  BY <1>3, <1>4, <1>5 DEF CutsDown
<1> QED  BY <1>6 DEF v

--------------------------------------------------------------------------------
(* What the items name: nodes of the frame that no pair measures.             *)
LEMMA MinOf ==
  ASSUME NEW S \in SUBSET (0..N), S # {}
  PROVE  Min(S) \in S
<1>1. PICK m \in S : \A x \in S : m <= x
  BY LeastNode
<1>2. \A x \in S : x \in Int
  BY FrameReceiptAssumption
<1> DEFINE P(x) == x \in S /\ \A y \in S : x <= y
<1>3. P(m)
  BY <1>1, <1>2
<1>4. \A x : P(x) => x = m
  BY <1>1, <1>2
<1> QED  BY <1>1, <1>3, <1>4 DEF Min

LEMMA EndUnpaired ==
  ASSUME NEW v, IsView(v), NEW S, NEW c \in v.begins, ~Has(v, c, S)
  PROVE  v.end[c] \in (0..N) \ S
<1>1. c \in v.shown /\ v.chain[c] = Chain(v, c)
  BY BeginIs
<1>2. v.end[c] \in Chain(v, c) /\ v.end[c] \in 0..N
  BY <1>1, EndIs
<1> QED  BY <1>1, <1>2 DEF Has

LEMMA MissedUnpaired ==
  ASSUME NEW v, IsView(v), NEW S, NEW X, NEW c \in HalfIn(v, S, X) \cup {0}, NEW k \in MissedIn(v, S, X, c)
  PROVE  v.end[k] \in (0..N) \ S
<1>1. c \in v.shown
  BY BeginIs, ViewFields DEF HalfIn, OpenIn
<1>2. k \in v.begins /\ k \notin TouchedIn(v, S, X)
  BY <1>1, ViewFields DEF MissedIn
<1>3. k \in Below[k]
  BY <1>2, BeginIs, BelowSelf
<1>4. ~Has(v, k, S)
  BY <1>2, <1>3, PairTouches
<1> QED  BY <1>2, <1>4, EndUnpaired

LEMMA HalfUnpaired ==
  ASSUME NEW v, IsView(v), NEW S, NEW X, NEW c \in HalfIn(v, S, X)
  PROVE  v.end[c] \in (0..N) \ S
<1>1. c \in v.begins /\ c \in Below[c]
  BY BeginIs, BelowSelf DEF HalfIn, OpenIn
<1>2. c \in OnTheWay(v, 0, c)
  BY <1>1, WayFromRoot
<1>3. ~Has(v, c, S)
  BY <1>2 DEF HalfIn, OpenIn
<1> QED  BY <1>1, <1>3, EndUnpaired

LEMMA CoverageUnpaired ==
  ASSUME NEW v, IsView(v), NEW S, NEW X
  PROVE  /\ \A c \in DOMAIN Coverage(v, S, X).uncovered : Coverage(v, S, X).uncovered[c] \subseteq (0..N) \ S
         /\ Coverage(v, S, X).partial \subseteq (0..N) \ S
         /\ Coverage(v, S, X).unverified \subseteq (0..N) \ S
<1>1. \A c \in DOMAIN MissedEnds(v, S, X) : MissedEnds(v, S, X)[c] \subseteq (0..N) \ S
  BY MissedUnpaired DEF MissedEnds
<1>2. HalfEnds(v, S, X) \subseteq (0..N) \ S
  BY HalfUnpaired DEF HalfEnds
<1>3. PartialEnds(v, S, X) \subseteq (0..N) \ S
  <2>1. ASSUME 0 \notin S PROVE v.end[0] \in (0..N) \ S
    BY <2>1, EndOfRoot, FrameReceiptAssumption
  <2>2. \A c \in HalfIn(v, S, X) \cup ({0} \ S) : v.end[c] \in (0..N) \ S
    BY <2>1, HalfUnpaired
  <2> QED  BY <2>2 DEF PartialEnds
<1> QED  BY <1>1, <1>2, <1>3, CoverageIs

(* A pairing is asked for a node that is missed.                             *)
LEMMA PairingsAre ==
  ASSUME NEW u, NEW Z \in SUBSET (0..N), \A c \in DOMAIN u : u[c] \subseteq Z, NEW b \in Pairings(u)
  PROVE  b.act = "add_pair" /\ b.node \in Z /\ \E c \in DOMAIN u : u[c] # {}
<1> DEFINE Q == {y \in (DOMAIN u) \X Nodes : y[2] \in u[y[1]]}
           A(x) == {m \in u[x[1]] : Sig[m] = Sig[x[2]]}
<1>1. PICK x \in Q : b = Item("add_pair", Min(A(x)))
  BY DEF Pairings
<1>2. x[1] \in DOMAIN u /\ x[2] \in u[x[1]]
  BY <1>1
<1>3. A(x) \in SUBSET (0..N) /\ A(x) \subseteq Z /\ x[2] \in A(x)
  BY <1>2
<1>4. Min(A(x)) \in A(x)
  BY <1>3, MinOf
<1>5. b.act = "add_pair" /\ b.node = Min(A(x))
  BY <1>1 DEF Item
<1> QED  BY <1>2, <1>3, <1>4, <1>5

LEMMA CausesAreCuts ==
  ASSUME NEW v, NEW S, NEW X, NEW q \in Coverage(v, S, X).causes
  PROVE  \E x \in v.cut : x[2] = q
<1>1. q \in CutCauses(v, S, X)
  BY CoverageIs
<1> QED  BY <1>1 DEF CutCauses

--------------------------------------------------------------------------------
(* The invariant: the views are views of projections, and a receipt is what the  *)
(* state it was given in says.  A pair that fails measures nothing, and one at a  *)
(* time fails.                                                              *)
SessionTypeOK ==
  /\ excluded \in SUBSET (0..N) /\ pairs \in SUBSET (0..N) /\ broken \in SUBSET (0..N)
  /\ depth \in 1..Ceiling
ViewsHold   == \A d \in 1..Ceiling : IsView(views[d])
ReceiptHolds ==
  receipt # Unread => \E source \in {"pair_fetch", "deep"}, at \in 1..Ceiling, clean \in SUBSET (0..N) :
                        receipt = Receipt(source, at, clean)
ReceiptIInv == SessionTypeOK /\ ViewsHold /\ ReceiptHolds

LEMMA SessionInit == ReceiptInit => ReceiptIInv
<1> SUFFICES ASSUME ReceiptInit PROVE ReceiptIInv
  OBVIOUS
<1>0. PICK w \in Caps : views = [d \in 1..Ceiling |-> Regions(Projection(d, w))]
  BY DEF ReceiptInit
<1>1. ASSUME NEW d \in 1..Ceiling PROVE IsView(views[d])
  <2>1. d \in Nat
    BY FrameReceiptAssumption
  <2>2. IsView(Regions(Projection(d, w)))
    BY <2>1, ProjectionCuts, RegionsView
  <2> QED  BY <1>0, <2>2
<1>2. SessionTypeOK
  BY FrameReceiptAssumption DEF ReceiptInit, SessionTypeOK
<1>3. ReceiptHolds
  BY DEF ReceiptInit, ReceiptHolds
<1> QED  BY <1>1, <1>2, <1>3 DEF ReceiptIInv, ViewsHold

LEMMA ReportHolds ==
  ASSUME NEW source \in {"pair_fetch", "deep"}, NEW at \in 1..Ceiling, Report(source, at),
         UNCHANGED <<views, excluded, pairs, broken, depth>>
  PROVE  ReceiptHolds'
<1>1. PICK clean \in SUBSET {n \in 0..N : Auditable(views[at], n, pairs)} : receipt' = Receipt(source, at, clean)
  BY DEF Report
<1>2. clean \in SUBSET (0..N)
  BY <1>1
<1>3. Receipt(source, at, clean)' = Receipt(source, at, clean)
  BY DEF Receipt
<1> QED  BY <1>1, <1>2, <1>3 DEF ReceiptHolds

LEMMA CompareHolds ==
  ASSUME ReceiptIInv, NEW failed, Compare(failed)
  PROVE  ReceiptIInv'
<1>1. UNCHANGED <<views, excluded, pairs, broken, depth>>
  BY DEF Compare
<1>2. PICK eff \in 1..depth : \/ (Deep(eff) => failed) /\ Report("pair_fetch", eff)
                              \/ Deep(eff) /\ \E at \in 1..Ceiling : Report("deep", at)
  BY Zenon DEF Compare
<1>3. eff \in 1..Ceiling
  BY FrameReceiptAssumption DEF ReceiptIInv, SessionTypeOK
<1>4. ReceiptHolds'
  <2>1. CASE Report("pair_fetch", eff)
    BY <1>1, <1>3, <2>1, ReportHolds
  <2>2. CASE \E at \in 1..Ceiling : Report("deep", at)
    BY <1>1, <2>2, ReportHolds
  <2> QED  BY <1>2, <2>1, <2>2
<1> QED  BY <1>1, <1>4 DEF ReceiptIInv, SessionTypeOK, ViewsHold

LEMMA FollowHolds ==
  ASSUME ReceiptIInv, NEW n \in 0..N, NEW act, Follow(Item(act, n))
  PROVE  ReceiptIInv'
<1> DEFINE b == Item(act, n)
<1>1. b.act = act /\ b.node = n
  BY DEF Item
<1> HIDE DEF b
<1>2. /\ receipt' = Unread /\ UNCHANGED <<views, excluded>>
      /\ \/ depth' = (IF depth < Ceiling THEN depth + 1 ELSE depth) /\ UNCHANGED <<pairs, broken>>
         \/ pairs' = pairs \cup {b.node} /\ broken' = broken \ {b.node} /\ UNCHANGED depth
         \/ broken' = {b.node} /\ UNCHANGED <<pairs, depth>>
  <2>1. Follow(b)
    BY DEF b
  <2> QED  BY <2>1, Zenon DEF Follow
<1>3. SessionTypeOK'
  <2>1. SessionTypeOK /\ Ceiling \in Nat /\ b.node \in 0..N
    BY <1>1, FrameReceiptAssumption DEF ReceiptIInv
  <2>2. CASE depth' = (IF depth < Ceiling THEN depth + 1 ELSE depth) /\ UNCHANGED <<pairs, broken>>
    <3>1. depth' \in 1..Ceiling
      BY <2>1, <2>2 DEF SessionTypeOK
    <3> QED  BY <1>2, <2>1, <2>2, <3>1 DEF SessionTypeOK
  <2>3. CASE pairs' = pairs \cup {b.node} /\ broken' = broken \ {b.node} /\ UNCHANGED depth
    BY <1>2, <2>1, <2>3 DEF SessionTypeOK
  <2>4. CASE broken' = {b.node} /\ UNCHANGED <<pairs, depth>>
    BY <1>2, <2>1, <2>4 DEF SessionTypeOK
  <2> QED  BY <1>2, <2>2, <2>3, <2>4
<1>4. ViewsHold' /\ ReceiptHolds'
  BY <1>2 DEF ReceiptIInv, ViewsHold, ReceiptHolds
<1> QED  BY <1>3, <1>4 DEF ReceiptIInv

LEMMA SessionStep == ReceiptIInv /\ [ReceiptNext]_session => ReceiptIInv'
<1> SUFFICES ASSUME ReceiptIInv, [ReceiptNext]_session PROVE ReceiptIInv'
  OBVIOUS
<1>1. CASE Compare(TRUE)
  BY <1>1, CompareHolds
<1>2. CASE Follows
  <2>1. PICK n \in 0..N : \E act \in {"add_pair", "add_container_pair", "fix_pair", "raise_max_depth"} : Follow(Item(act, n))
    BY <1>2 DEF Follows
  <2> QED  BY <2>1, FollowHolds
<1>3. CASE UNCHANGED session
  <2>1. UNCHANGED <<views, excluded, pairs, broken, depth, receipt>>
    BY <1>3 DEF session
  <2>2. \A source, at, clean : Receipt(source, at, clean)' = Receipt(source, at, clean)
    BY <2>1 DEF Receipt
  <2> QED  BY <2>1, <2>2 DEF ReceiptIInv, SessionTypeOK, ViewsHold, ReceiptHolds
<1> QED  BY <1>1, <1>2, <1>3, Zenon DEF ReceiptNext

LEMMA HoldsIsHonest == ReceiptIInv => ReceiptIsHonest
<1> SUFFICES ASSUME ReceiptIInv, receipt # Unread
             PROVE  ReceiptIsHonest
  BY DEF ReceiptIsHonest
<1>1. PICK source \in {"pair_fetch", "deep"}, at \in 1..Ceiling, clean \in SUBSET (0..N) : receipt = Receipt(source, at, clean)
  BY DEF ReceiptIInv, ReceiptHolds
<1> DEFINE v == views[at]
           X == excluded \ {0}
           cov == Coverage(v, pairs, X)
<1>2. IsView(v) /\ X \in SUBSET Nodes
  BY DEF ReceiptIInv, ViewsHold, SessionTypeOK, Nodes
<1>3. /\ receipt.at = at
      /\ receipt.complete => Uncovered(cov) \cup cov.partial \cup cov.unverified = {} /\ cov.causes = {}
      /\ receipt.uncovered = Uncovered(cov) /\ receipt.partial = cov.partial
  <2>1. cov = Coverage(views[at], pairs, excluded \ {0})
    OBVIOUS
  <2> HIDE DEF cov
  <2>2. receipt.at = at /\ receipt.uncovered = Uncovered(cov) /\ receipt.partial = cov.partial
    BY <1>1, <2>1 DEF Receipt
  <2>3. receipt.complete => Uncovered(cov) \cup cov.partial \cup cov.unverified = {} /\ cov.causes = {}
    BY <1>1, <2>1 DEF Receipt
  <2> QED  BY <2>2, <2>3
<1>4. /\ Uncovered(cov) \cup cov.partial \cup cov.unverified = {} /\ cov.causes = {}
           => \A c \in Frame.inside[0] : Frame.chain[c] \cap Away(X) = {} => Frame.chain[c] \cap (pairs \cup Mute(v)) # {}
      /\ \A n \in Uncovered(cov) : \A m \in (Below[n] \ Away(X)) \cap pairs :
           Frame.chain[m] \cap Mute(v) # {} \/ \E e \in Mute(v) : m \in Below[e]
      /\ cov.partial = Coverage(v, pairs, {}).partial \ Away(X)
  BY <1>2, HonestView
<1>5. v = views[receipt.at] /\ Away(X) = UNION {Below[x] : x \in excluded \ {0}}
  BY <1>3 DEF Away
<1> HIDE DEF v, X, cov
<1> QED  BY <1>3, <1>4, <1>5 DEF ReceiptIsHonest

(* The receipt speaks of the frame and not of its projection, whatever the tree, *)
(* the caps, the exclusions and the history of the pairs.                      *)
THEOREM ReceiptStaysHonest == ReceiptSpec => []ReceiptIsHonest
<1>1. ReceiptSpec => []ReceiptIInv
  BY SessionInit, SessionStep, PTL DEF ReceiptSpec
<1> QED  BY <1>1, HoldsIsHonest, PTL

(* What an item asks for is open: a node to be paired is not, a pair to be fixed *)
(* fails, and a deeper call is asked for where depth cuts and more of it can be   *)
(* had.  A complete receipt asks for nothing.                                 *)
ItemsAreOpen ==
  receipt # Unread =>
    /\ \A b \in receipt.items :
         /\ b.act \in {"add_pair", "add_container_pair"} => b.node \notin pairs
         /\ b.act = "fix_pair" => b.node \in broken
         /\ b.act = "raise_max_depth" => receipt.at < Ceiling /\ \E x \in views[receipt.at].cut : x[2] = "depth"
    /\ receipt.complete => receipt.items = {}

LEMMA HoldsIsOpen == ReceiptIInv => ItemsAreOpen
<1> SUFFICES ASSUME ReceiptIInv, receipt # Unread
             PROVE  ItemsAreOpen
  BY DEF ItemsAreOpen
<1>1. PICK source \in {"pair_fetch", "deep"}, at \in 1..Ceiling, clean \in SUBSET (0..N) : receipt = Receipt(source, at, clean)
  BY DEF ReceiptIInv, ReceiptHolds
<1> DEFINE cov == Coverage(views[at], pairs, excluded \ {0})
           Contained == {Item("add_container_pair", n) : n \in (cov.partial \ clean) \cup cov.unverified}
           Fixed == {Item("fix_pair", n) : n \in broken}
           Raised == IF Raises(source, at, cov.causes) THEN {Item("raise_max_depth", 0)} ELSE {}
<1>2. IsView(views[at])
  BY DEF ReceiptIInv, ViewsHold
<1>3. /\ \A c \in DOMAIN cov.uncovered : cov.uncovered[c] \subseteq (0..N) \ pairs
      /\ cov.partial \subseteq (0..N) \ pairs /\ cov.unverified \subseteq (0..N) \ pairs
  BY <1>2, CoverageUnpaired
<1>4. \A q \in cov.causes : \E x \in views[at].cut : x[2] = q
  BY CausesAreCuts
<1>5. receipt.at = at /\ receipt.items = Pairings(cov.uncovered) \cup Contained \cup Fixed \cup Raised
  BY <1>1 DEF Receipt
<1>6. receipt.complete => Uncovered(cov) \cup cov.partial \cup cov.unverified = {} /\ cov.causes = {} /\ broken = {}
  BY <1>1 DEF Receipt
<1> HIDE DEF cov
<1>7. ASSUME NEW b \in Pairings(cov.uncovered)
      PROVE  b.act = "add_pair" /\ b.node \notin pairs /\ \E c \in DOMAIN cov.uncovered : cov.uncovered[c] # {}
  <2> DEFINE Z == (0..N) \ pairs
             u == cov.uncovered
  <2>1. Z \in SUBSET (0..N) /\ \A c \in DOMAIN u : u[c] \subseteq Z
    BY <1>3
  <2>2. b \in Pairings(u)
    BY <1>7
  <2>3. \A m \in Z : m \notin pairs
    OBVIOUS
  <2> HIDE DEF Z, u
  <2>4. b.act = "add_pair" /\ b.node \in Z /\ \E c \in DOMAIN u : u[c] # {}
    BY <2>1, <2>2, PairingsAre
  <2> QED  BY <2>3, <2>4 DEF u
<1>8. \A b \in Contained : b.act = "add_container_pair" /\ b.node \notin pairs
  BY <1>3 DEF Item
<1>9. \A b \in Fixed : b.act = "fix_pair" /\ b.node \in broken
  BY DEF Item
<1>10. \A b \in Raised : b.act = "raise_max_depth" /\ at < Ceiling /\ "depth" \in cov.causes
  BY DEF Item, Raises
<1>11. ASSUME receipt.complete PROVE receipt.items = {}
  <2>1. Uncovered(cov) = {} /\ cov.partial = {} /\ cov.unverified = {} /\ cov.causes = {} /\ broken = {}
    BY <1>6, <1>11
  <2>2. Pairings(cov.uncovered) = {}
    <3>1. \A c \in DOMAIN cov.uncovered : cov.uncovered[c] = {}
      BY <2>1 DEF Uncovered
    <3> QED  BY <1>7, <3>1
  <2>3. Contained = {} /\ Fixed = {} /\ Raised = {}
    BY <2>1 DEF Raises
  <2> QED  BY <1>5, <2>2, <2>3
<1> HIDE DEF Contained, Fixed, Raised
<1>12. ASSUME NEW b \in receipt.items
       PROVE  /\ b.act \in {"add_pair", "add_container_pair"} => b.node \notin pairs
              /\ b.act = "fix_pair" => b.node \in broken
              /\ b.act = "raise_max_depth" => receipt.at < Ceiling /\ \E x \in views[receipt.at].cut : x[2] = "depth"
  <2>1. CASE b \in Pairings(cov.uncovered)
    BY <1>7, <2>1
  <2>2. CASE b \in Contained
    BY <1>8, <2>2
  <2>3. CASE b \in Fixed
    BY <1>9, <2>3
  <2>4. CASE b \in Raised
    BY <1>4, <1>5, <1>10, <2>4
  <2> QED  BY <1>5, <2>1, <2>2, <2>3, <2>4
<1> QED  BY <1>11, <1>12 DEF ItemsAreOpen

(* No item asks for what was done, or cannot be done.                         *)
THEOREM ReceiptAsksForWhatIsOpen == ReceiptSpec => []ItemsAreOpen
<1>1. ReceiptSpec => []ReceiptIInv
  BY SessionInit, SessionStep, PTL DEF ReceiptSpec
<1> QED  BY <1>1, HoldsIsOpen, PTL

(* A pair that fails measures nothing, and one at a time fails.               *)
PairsApart == pairs \cap broken = {} /\ \E n \in 0..N : broken \subseteq {n}

LEMMA PairsStep == ReceiptIInv /\ PairsApart /\ [ReceiptNext]_session => PairsApart'
<1> SUFFICES ASSUME ReceiptIInv, PairsApart, [ReceiptNext]_session PROVE PairsApart'
  OBVIOUS
<1>1. CASE UNCHANGED <<pairs, broken>>
  BY <1>1 DEF PairsApart
<1>2. CASE Follows
  <2>1. PICK n \in 0..N : \E act \in {"add_pair", "add_container_pair", "fix_pair", "raise_max_depth"} : Follow(Item(act, n))
    BY <1>2 DEF Follows
  <2>2. PICK act \in {"add_pair", "add_container_pair", "fix_pair", "raise_max_depth"} : Follow(Item(act, n))
    BY <2>1
  <2> DEFINE b == Item(act, n)
  <2>3. b.node = n
    BY DEF Item
  <2>4. Follow(b)
    BY <2>2
  <2> HIDE DEF b
  <2>5. /\ receipt # Unread /\ b \in receipt.items
        /\ \/ UNCHANGED <<pairs, broken>>
           \/ pairs' = pairs \cup {b.node} /\ broken' = broken \ {b.node}
           \/ b.act \in {"add_pair", "add_container_pair"} /\ broken' = {b.node} /\ UNCHANGED pairs
    BY <2>4, Zenon DEF Follow
  <2>6. b.act \in {"add_pair", "add_container_pair"} => b.node \notin pairs
    BY <2>5, HoldsIsOpen DEF ItemsAreOpen
  <2> QED  BY <1>1, <2>3, <2>5, <2>6 DEF PairsApart
<1>3. CASE Compare(TRUE)
  <2>1. UNCHANGED <<pairs, broken>>
    BY <1>3 DEF Compare
  <2> QED  BY <1>1, <2>1
<1>4. CASE UNCHANGED session
  <2>1. UNCHANGED <<pairs, broken>>
    BY <1>4 DEF session
  <2> QED  BY <1>1, <2>1
<1> QED  BY <1>2, <1>3, <1>4, Zenon DEF ReceiptNext

(* Following an item gets on: a node is paired that was not, or a pair is tried   *)
(* that was not and fails, alone, or the caller goes deeper.  Nothing that was     *)
(* paired is lost, so the first two come to an end.                            *)
Advances ==
  \/ pairs # pairs' /\ pairs \subseteq pairs' /\ broken' \subseteq broken
  \/ pairs' = pairs /\ broken = {} /\ \E n \in (0..N) \ pairs : broken' = {n}
  \/ UNCHANGED <<pairs, broken>> /\ receipt.at < Ceiling /\ \E x \in views[receipt.at].cut : x[2] = "depth"

LEMMA FollowAdvances ==
  ASSUME ReceiptIInv, PairsApart, Follows
  PROVE  Advances
<1>1. PICK n \in 0..N : \E act \in {"add_pair", "add_container_pair", "fix_pair", "raise_max_depth"} : Follow(Item(act, n))
  BY DEF Follows
<1>2. PICK act \in {"add_pair", "add_container_pair", "fix_pair", "raise_max_depth"} : Follow(Item(act, n))
  BY <1>1
<1> DEFINE b == Item(act, n)
<1>3. b.node = n /\ b.act = act
  BY DEF Item
<1>4. Follow(b)
  BY <1>2
<1> HIDE DEF b
<1>5. /\ receipt # Unread /\ b \in receipt.items
      /\ \/ b.act = "raise_max_depth" /\ UNCHANGED <<pairs, broken>>
         \/ b.act # "raise_max_depth" /\ pairs' = pairs \cup {b.node} /\ broken' = broken \ {b.node}
         \/ b.act \in {"add_pair", "add_container_pair"} /\ broken = {} /\ broken' = {b.node} /\ UNCHANGED pairs
  BY <1>4, Zenon DEF Follow
<1>6. /\ b.act \in {"add_pair", "add_container_pair"} => b.node \notin pairs
      /\ b.act = "fix_pair" => b.node \in broken
      /\ b.act = "raise_max_depth" => receipt.at < Ceiling /\ \E x \in views[receipt.at].cut : x[2] = "depth"
  BY <1>5, HoldsIsOpen DEF ItemsAreOpen
<1>7. b.act # "raise_max_depth" => b.node \notin pairs
  BY <1>3, <1>6 DEF PairsApart
<1>8. CASE b.act = "raise_max_depth" /\ UNCHANGED <<pairs, broken>>
  BY <1>6, <1>8 DEF Advances
<1>9. CASE b.act # "raise_max_depth" /\ pairs' = pairs \cup {b.node} /\ broken' = broken \ {b.node}
  BY <1>7, <1>9 DEF Advances
<1>10. CASE b.act \in {"add_pair", "add_container_pair"} /\ broken = {} /\ broken' = {b.node} /\ UNCHANGED pairs
  BY <1>3, <1>7, <1>10 DEF Advances
<1> QED  BY <1>5, <1>8, <1>9, <1>10

THEOREM FollowingAdvances == ReceiptSpec => [][Follows => Advances]_session
<1>1. ReceiptInit => PairsApart
  BY FrameReceiptAssumption DEF ReceiptInit, PairsApart
<1>2. ReceiptIInv /\ PairsApart /\ [ReceiptNext]_session => (Follows => Advances)
  BY FollowAdvances
<1>3. ReceiptSpec => [](ReceiptIInv /\ PairsApart)
  BY <1>1, SessionInit, SessionStep, PairsStep, PTL DEF ReceiptSpec
<1> QED  BY <1>2, <1>3, PTL DEF ReceiptSpec
================================================================================
