------------------------------ MODULE FrameReceipt ------------------------------
(***************************************************************************)
(* The frame part of compare_node_to_dom's receipt, and the caller who works  *)
(* through it.  The server enumerates the frame's regions in a projection,    *)
(* which is cut in depth, in breadth and by a budget of nodes, and says which  *)
(* of them no pair covers, which containers are only covered from inside, and *)
(* whether a cut leaves that open.  The caller follows one item of `blocking' *)
(* and compares again, until nothing is left to do.                         *)
(*                                                                         *)
(* Nodes are numbered in document order, 0 is the frame.  Regions are named   *)
(* by the child they begin with: a chain of wrappers, of which each has only   *)
(* the next and its box, is one region.  What the code walks recursively is    *)
(* told here by the nodes on the way.  Whether what a pair compares agrees is  *)
(* left out: a pair counts here if it measured anything.                    *)
(***************************************************************************)
EXTENDS Integers, FiniteSets, FiniteSetsExt

CONSTANTS N, Parent,         \* nodes 1..N; node -> its parent
          Content,           \* texts and instances
          SameBox,           \* nodes with the box of their first child
          Decor,             \* types of pure decoration
          Stack,             \* auto-layout: gaps between children mean something
          Sig,               \* node -> its type and name
          Caps,              \* [breadth, budget] of the enumeration
          Ceiling,           \* of max_depth
          Exclusions,        \* exclude_regions
          FirstPairs,        \* what a caller may begin with
          Unread

Nodes == 1..N
(* What lies between a node and its parent is below the parent.              *)
ASSUME FrameReceiptAssumption ==
  /\ N \in Nat /\ Parent \in [Nodes -> 0..N]
  /\ \A n \in Nodes : Parent[n] < n /\ \A m \in (Parent[n] + 1)..(n - 1) : Parent[m] >= Parent[n]
  /\ \A w \in Caps : w.breadth \in Nat /\ w.budget \in Nat
  /\ Ceiling \in Nat \ {0} /\ Decor \subseteq Nodes /\ Stack \subseteq 0..N
  /\ \A X \in Exclusions : X \subseteq 0..N
  /\ \A S \in FirstPairs : S \subseteq 0..N

VARIABLES views,             \* the frame's regions as a projection of each depth shows them
          excluded,
          pairs, broken,     \* ids whose pair measures something, whose pair fails as a whole
          depth,             \* max_depth
          receipt            \* [at, complete, uncovered, partial, items], Unread before it is read

session == <<views, excluded, pairs, broken, depth, receipt>>

--------------------------------------------------------------------------------
(* The subtree of a node: all that follows it, up to what hangs further up.   *)
Below == [n \in 0..N |-> {m \in n..N : \A k \in (n + 1)..m : Parent[k] >= n}]
Level == [n \in 0..N |-> Cardinality({a \in 0..(n - 1) : n \in Below[a]})]
Kids(n) == {m \in Nodes : Parent[m] = n}
Listed(n, w) == {m \in Kids(n) : Cardinality({k \in Kids(n) : k < m}) < w.breadth}

(* buildLayoutSpec: projectChildren and then pruneToBudget, which accepts the *)
(* lists of children in document order, each as a whole.                     *)
Spent(T, n) == Cardinality({m \in T \ {0} : Parent[m] < n})
OverBudget(T, n, w) == n # 0 /\ Spent(T, n) + Cardinality(Listed(n, w)) > w.budget
Opened(T, d, w) == {n \in T : Level[n] < d /\ ~OverBudget(T, n, w)}
Projects(T, d, w) == T = {0} \cup UNION {Listed(n, w) : n \in Opened(T, d, w)}
Projection(d, w) ==
  LET T == CHOOSE U \in SUBSET {n \in 0..N : Level[n] <= d} : Projects(U, d, w)
  IN  [shown |-> T,
       cut   |-> {<<n, "depth">> : n \in {m \in T : Level[m] = d /\ Kids(m) # {}}}
                 \cup {<<n, "budget">> : n \in {m \in T : Level[m] < d /\ OverBudget(T, m, w)}}
                 \cup {<<n, "breadth">> : n \in {m \in Opened(T, d, w) : Listed(m, w) # Kids(m)}}]

(* figWorthy, unwrapChain.  A wrapper that was cut is not passed.            *)
Under(v, n)  == Kids(n) \cap v.shown
IsCut(v, n)  == \E x \in v.cut : x[1] = n
Passed(v, n) == n \notin Content /\ n \in SameBox /\ Cardinality(Under(v, n)) = 1 /\ ~IsCut(v, n)

(* worthyRegions: chain and end of the region that begins with a node, and   *)
(* the regions directly inside it.  A decoration in which nothing is shown is  *)
(* no region.                                                               *)
Chain(v, n) == {m \in Below[n] \cap v.shown :
                  \A p \in Below[n] : p # m /\ m \in Below[p] => p # 0 /\ Passed(v, p)}
Mute(v)     == {n \in Decor \cap v.shown : Under(v, n) = {}}
Regions(v)  ==
  LET chain == [n \in v.shown |-> Chain(v, n)]
      end == [n \in v.shown |-> Max(chain[n])]
      begins == {n \in v.shown \ {0} : (Parent[n] = 0 \/ ~Passed(v, Parent[n])) /\ end[n] \notin Mute(v)}
  IN  [shown |-> v.shown, cut |-> v.cut, chain |-> chain, end |-> end, begins |-> begins,
       inside |-> [n \in v.shown |-> {k \in begins : Parent[k] = end[n]}]]

ReceiptInit ==
  /\ \E w \in Caps : views = [d \in 1..Ceiling |-> Regions(Projection(d, w))]
  /\ excluded \in Exclusions /\ pairs \in FirstPairs
  /\ broken = {} /\ depth \in 1..Ceiling /\ receipt = Unread

--------------------------------------------------------------------------------
(* Mutants: a cut is not looked at; the demand and the measurement of an      *)
(* excluded region both go.                                                 *)
CutNowhere(v, c) == FALSE
CutAt(v, c) == IsCut(v, v.end[c])
MeasuredIfDemanded(v, c, X) == v.chain[c] \cap X = {}
Measured(v, c, X) == TRUE

(* walk and frameCoverageDetailed.  `open' are the regions that are walked    *)
(* for demands: not excluded, not paired, nor inside such a one.             *)
Has(v, c, T)       == v.chain[c] \cap T # {}
Within(v, c)       == v.begins \cap Below[c]
OnTheWay(v, c, d)  == {e \in Within(v, c) : d \in Below[e]}
Touched(v, c, S, X) ==
  \E d \in Within(v, c) : Has(v, d, S) /\ \A e \in OnTheWay(v, c, d) : Measured(v, e, X)
Beyond(v, c, S, X) ==
  \E d \in Within(v, c) : CutAt(v, d) /\ \A e \in OnTheWay(v, c, d) : ~Has(v, e, S) /\ (e = c \/ ~Has(v, e, X))
Coverage(v, S, X) ==
  LET touched == {c \in v.begins : Touched(v, c, S, X)}
      open == {c \in v.begins : \A e \in OnTheWay(v, 0, c) : ~Has(v, e, X) /\ ~Has(v, e, S)}
      half == open \cap touched
      Missed(c) == {k \in v.inside[c] \ touched : ~Has(v, k, X) /\ ~Beyond(v, k, S, X)}
  IN  [uncovered |-> [c \in half \cup {0} |-> {v.end[k] : k \in Missed(c)}],
       partial |-> {v.end[c] : c \in {b \in half \cup ({0} \ S) :
                      v.end[b] \in Stack /\ Cardinality(v.inside[b] \cap touched) > 1}},
       unverified |-> {v.end[c] : c \in half},
       causes |-> {x[2] : x \in {y \in v.cut : y[1] = 0 \/ \E c \in open : CutAt(v, c) /\ y[1] = v.end[c]}}]

(* auditContainer gives a gap for each two neighbours that are both paired;   *)
(* the spacing may be clean if they are all the gaps between paired ones.    *)
Auditable(v, n, S) ==
  LET kids == Under(v, n)
      paired == {k \in kids : v.chain[k] \cap S # {}}
      between(j, k) == {i \in kids : j < i /\ i < k}
  IN  Cardinality(paired) > 1 /\ \A j, k \in paired : between(j, k) \subseteq paired

(* The items of buildVerification.  Alike regions of one parent are one item. *)
Item(act, n) == [act |-> act, node |-> n]
Pairings(u) ==
  {Item("add_pair", Min({m \in u[x[1]] : Sig[m] = Sig[x[2]]})) : x \in {y \in (DOMAIN u) \X Nodes : y[2] \in u[y[1]]}}
(* Mutant: whatever the cause of a cut, go deeper.                           *)
RaiseAlways(source, at, causes) == causes # {}
(* A deeper call helps only where it has not been tried and depth is to blame. *)
Raises(source, at, causes) == source = "pair_fetch" /\ at < Ceiling /\ "depth" \in causes

Uncovered(cov) == UNION {cov.uncovered[c] : c \in DOMAIN cov.uncovered}
Receipt(source, at, clean) ==
  LET cov == Coverage(views[at], pairs, excluded \ {0})
  IN  [at        |-> at,
       complete  |-> Uncovered(cov) \cup cov.partial \cup cov.unverified = {}
                     /\ cov.causes = {} /\ broken = {},
       uncovered |-> Uncovered(cov),
       partial   |-> cov.partial,
       items |-> Pairings(cov.uncovered)
                 \cup {Item("add_container_pair", n) : n \in (cov.partial \ clean) \cup cov.unverified}
                 \cup {Item("fix_pair", n) : n \in broken}
                 \cup (IF Raises(source, at, cov.causes) THEN {Item("raise_max_depth", 0)} ELSE {})]

--------------------------------------------------------------------------------
(* registerCompareNodeToDom.  A fetch that is too large comes back shallower. *)
(* If the enumeration is cut, the frame alone is fetched, once, to the full   *)
(* depth; that fails or comes back shallower too.                           *)
Report(source, at) ==
  \E clean \in SUBSET {n \in 0..N : Auditable(views[at], n, pairs)} : receipt' = Receipt(source, at, clean)

Deep(eff) == eff < Ceiling /\ views[eff].cut # {}
Compare(failed) ==
  /\ receipt = Unread
  /\ \E eff \in 1..depth :
       \/ (Deep(eff) => failed) /\ Report("pair_fetch", eff)
       \/ Deep(eff) /\ \E at \in 1..Ceiling : Report("deep", at)
  /\ UNCHANGED <<views, excluded, pairs, broken, depth>>

(* External: the caller follows an item.  A new pair may name a selector that *)
(* matches nothing; one at a time does.                                     *)
Follow(b) ==
  /\ receipt # Unread /\ b \in receipt.items /\ receipt' = Unread
  /\ \/ /\ b.act = "raise_max_depth" /\ depth' = (IF depth < Ceiling THEN depth + 1 ELSE depth)
        /\ UNCHANGED <<pairs, broken>>
     \/ /\ b.act # "raise_max_depth" /\ pairs' = pairs \cup {b.node} /\ broken' = broken \ {b.node}
        /\ UNCHANGED depth
     \/ /\ b.act \in {"add_pair", "add_container_pair"} /\ broken = {}
        /\ broken' = {b.node} /\ UNCHANGED <<pairs, depth>>
  /\ UNCHANGED <<views, excluded>>

Follows == \E n \in 0..N, act \in {"add_pair", "add_container_pair", "fix_pair", "raise_max_depth"} : Follow(Item(act, n))
ReceiptNext == Compare(TRUE) \/ Follows \/ (receipt # Unread /\ receipt.items = {} /\ UNCHANGED session)

(* The caller goes on, and the fetch of the frame does not always fail.      *)
ReceiptSpec ==
  ReceiptInit /\ [][ReceiptNext]_session
  /\ WF_session(Compare(TRUE)) /\ SF_session(Compare(FALSE)) /\ WF_session(Follows)

--------------------------------------------------------------------------------
(* The frame itself, uncut.                                                 *)
Frame == Regions([shown |-> 0..N, cut |-> {}])

(* The receipt is honest about the frame, not about its projection.  Complete *)
(* says that every region of the frame that is not excluded is paired.  A      *)
(* region is called uncovered only if nothing in it is paired, however deep.   *)
(* Both are blind to a decoration in which nothing is shown: one whose          *)
(* contents are cut off is no region either.  And what is excluded is not       *)
(* demanded, but measured: the containers whose spacing is open are the same    *)
(* without the exclusion, but for those within it.                           *)
ReceiptIsHonest ==
  receipt # Unread =>
    LET v == views[receipt.at]
        Away == UNION {Below[x] : x \in excluded \ {0}}
        Live(c) == Frame.chain[c] \cap Away = {}
    IN  /\ receipt.complete => \A c \in Frame.inside[0] : Live(c) => Frame.chain[c] \cap (pairs \cup Mute(v)) # {}
        /\ \A n \in receipt.uncovered : \A m \in (Below[n] \ Away) \cap pairs :
             Frame.chain[m] \cap Mute(v) # {} \/ \E e \in Mute(v) : m \in Below[e]
        /\ receipt.partial = Coverage(v, pairs, {}).partial \ Away

(* Working through the items ends: none asks for what was done or cannot be    *)
(* done.                                                                    *)
ItemsRunOut == <>(receipt # Unread /\ receipt.items = {})
================================================================================
