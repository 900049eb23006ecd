------------------------------ MODULE DesignContext ------------------------------
(***************************************************************************)
(* get_design_context: one call that must answer within a time budget and a  *)
(* size budget.  The subtree itself is fetched or the call fails.  What is   *)
(* added to it comes in stages, each skipped, capped or given up for want of *)
(* time, and each leaves a receipt then; a rate limit fails the call at any  *)
(* stage.  What is too large at the end is shed in a fixed order.            *)
(*                                                                         *)
(* The answer may carry a marker, mode_context: every value in it that       *)
(* depends on a mode is its default.  A binding is to a variable, whose      *)
(* collection is the first of its chain; the others are those its aliases go *)
(* on to.  How a chain is resolved is ModeResolution's; here is what the     *)
(* tool makes of it.                                                        *)
(***************************************************************************)
EXTENDS Integers, Sequences, FiniteSetsExt

CONSTANTS
  Contents,            \* what a subtree may show: [bindings, above, within]; pins above it, in it
  Moded,               \* the collections with several modes
  Components,          \* the components its instances name, each of a library of its own
  TimeBudget, VariablesGate, Gate, Reserve,   \* seconds: in all, before a stage is worth a start, kept back
  Sizes, SizeBudget,   \* what an answer may measure: [node, part, extra]; how much it may
  Depth,               \* levels asked for
  None

Enrichments == {"code_connect", "component_docs", "screenshot"}
Endings     == {"ok", "fails", "slow", "limited"}     \* of a request to Figma

(* A binding: of a paint, the first bound one of its list, which is the one   *)
(* the tool looks at, or of anything else; to a variable of the file or not.  *)
ASSUME DesignContextAssumption ==
  /\ \A f \in Contents : /\ f.above \cup f.within \subseteq Moded
                         /\ \A b \in f.bindings : b.path \in {"paint", "other"} /\ b.chain # << >>
                                                  /\ b.home \in {"file", "library", "lost"}
  /\ \A s \in Sizes : \A d \in 2..Depth : s.node[d - 1] <= s.node[d]
  /\ Reserve < Gate /\ Gate <= VariablesGate /\ VariablesGate <= TimeBudget /\ Depth \in Nat \ {0}

VARIABLES
  at,        \* the stage under way, or "done"
  left,      \* remaining()
  shown,     \* external: of Contents
  asked,     \* what the caller and the configuration want of Enrichments
  idx,       \* the file's variables were read
  synced,    \* a library graph is there
  wanted, coverageComplete,   \* ancestorDiscoveryWanted, and what came of it
  have,      \* the parts obtained
  degraded,  \* the stages in degraded_stages
  cut,       \* history: the stages that were due and did not end well
  reply      \* [error] or [parts, depth, size, degraded, stages, marker]

context == <<at, left, shown, asked, idx, synced, wanted, coverageComplete, have, degraded, cut, reply>>

ContextInit ==
  /\ at = "core" /\ left = TimeBudget /\ shown \in Contents /\ asked \in SUBSET Enrichments
  /\ idx = FALSE /\ synced = FALSE /\ wanted = FALSE /\ coverageComplete = FALSE
  /\ have = {} /\ degraded = {} /\ cut = {} /\ reply = None

--------------------------------------------------------------------------------
(* stageDegraded.                                                           *)
Degrade(S, due) == degraded' = degraded \cup S /\ cut' = cut \cup due
Whole == UNCHANGED <<degraded, cut>>

(* A request takes some of the time that is left; one that runs into its cap  *)
(* leaves no more than was kept back.                                       *)
Takes(e, reserve) == left' \in IF e = "slow" THEN 0..Min({left, reserve}) ELSE 0..left

Fail(why)  == at' = "done" /\ reply' = [error |-> why]
Goes(next) == at' = next /\ UNCHANGED reply

(* A stage that may fail: a rate limit is thrown on, anything else noted.    *)
Tolerates(stage, e, next) ==
  CASE e = "limited" -> Fail("limited") /\ Whole
    [] e = "ok" -> Goes(next) /\ Whole
    [] OTHER -> Goes(next) /\ Degrade({stage}, {stage})

(* getNodesRaw: without the subtree, in time, there is no answer.            *)
Core ==
  /\ at = "core"
  /\ \E e \in Endings : Takes(e, VariablesGate) /\ IF e = "ok" THEN Goes("variables") ELSE Fail(e)
  /\ Whole /\ UNCHANGED <<shown, asked, idx, synced, wanted, coverageComplete, have>>

(* getVariablesLocal, with a cap of its own.                                *)
ReadVariables ==
  /\ at = "variables"
  /\ \/ /\ left < VariablesGate /\ Goes("graph") /\ Degrade({"variables"}, {"variables"})
        /\ UNCHANGED <<left, idx>>
     \/ /\ left >= VariablesGate
        /\ \E e \in Endings : Takes(e, left) /\ idx' = (e = "ok") /\ Tolerates("variables", e, "graph")
  /\ UNCHANGED <<shown, asked, synced, wanted, coverageComplete, have>>

(* ensureReady, which has no deadline, and the lookups in the graph and the  *)
(* snapshot, whose failure is passed over.                                  *)
Ready ==
  /\ at = "graph" /\ left' \in 0..left /\ synced' \in BOOLEAN
  /\ Goes("ancestors") /\ Whole
  /\ UNCHANGED <<shown, asked, idx, wanted, coverageComplete, have>>

--------------------------------------------------------------------------------
InIndex(b) == idx /\ b.home = "file"
InGraph(b) == synced /\ b.home = "library"
Top(b)     == b.chain[1]

(* needsAncestors looks at the collection a paint is bound to, not behind it. *)
needsAncestors ==
  \E b \in shown.bindings :
    /\ b.path = "paint" /\ Top(b) \in Moded
    /\ InGraph(b) \/ (InIndex(b) /\ Top(b) \notin shown.within)

(* discoverAncestorModes.                                                   *)
Ancestors ==
  /\ at = "ancestors" /\ wanted' = needsAncestors
  /\ \/ ~needsAncestors /\ Goes("instances") /\ Whole /\ UNCHANGED <<left, coverageComplete>>
     \/ /\ needsAncestors
        /\ \E e \in IF left = 0 THEN {"slow"} ELSE Endings :
             Takes(e, 0) /\ coverageComplete' = (e = "ok") /\ Tolerates("ancestor_discovery", e, "instances")
  /\ UNCHANGED <<shown, asked, idx, synced, have>>

(* A component without children: findComponentInstances looks for uses of it. *)
(* What it did not see is only logged; a refusal or a rate limit fails the call. *)
Instances ==
  /\ at = "instances" /\ left' \in 0..left
  /\ \/ Fail("refused") /\ UNCHANGED have
     \/ Goes("enrich") /\ have' \in {{}, {"concrete_instances"}}
  /\ Whole /\ UNCHANGED <<shown, asked, idx, synced, wanted, coverageComplete>>

--------------------------------------------------------------------------------
Due == asked \ {"screenshot"}

(* Promise.all: the first of the requests to reject decides, and what the     *)
(* others end with is lost, a rate limit too.                                *)
Decides(k, rejected, ends) == k \in rejected /\ Takes(ends[k], Reserve)

(* Mutant: the failure of the records is noted for one of the two stages.    *)
FailsDocs == {"component_docs"} \cap Due
(* Code Connect and the docs both need the components' records.              *)
FailsBoth == Due

(* getComponent for every component; a failure is passed over, but for a rate *)
(* limit and a timeout.                                                     *)
Records ==
  /\ at = "enrich"
  /\ \/ Due = {} /\ Goes("shot") /\ Whole /\ UNCHANGED left
     \/ /\ Due # {} /\ left < Gate
        /\ Goes("shot") /\ Degrade(Due, Due) /\ UNCHANGED left
     \/ /\ Due # {} /\ left >= Gate
        /\ \E ends \in [Components -> Endings] :
             LET rejected == {k \in Components : ends[k] \in {"slow", "limited"}}
             IN  \/ rejected = {} /\ left' \in 0..left /\ Goes("describe") /\ Whole
                 \/ \E k \in rejected :
                      /\ Decides(k, rejected, ends)
                      /\ IF ends[k] = "limited" THEN Fail("limited") /\ Whole
                         ELSE Goes("shot") /\ Degrade(FailsBoth, Due)
  /\ UNCHANGED <<shown, asked, idx, synced, wanted, coverageComplete, have>>

(* The mappings from the database; and, whatever came of them, the component   *)
(* sets of each library.                                                    *)
Describe ==
  /\ at = "describe"
  /\ \E mapped \in BOOLEAN, found \in SUBSET Components :
       LET links == IF "code_connect" \in Due /\ ~mapped THEN {"code_connect"} ELSE {}
           parts == IF "code_connect" \in Due /\ mapped THEN {"codeConnect"} ELSE {}
       IN  IF "component_docs" \notin Due
           THEN /\ \E p \in SUBSET parts : have' = have \cup p
                /\ Goes("shot") /\ Degrade(links, links) /\ UNCHANGED left
           ELSE \E ends \in [found -> Endings] :
                  LET rejected == {k \in found : ends[k] # "ok"}
                  IN  \/ /\ rejected = {} /\ left' \in 0..left
                         /\ \E p \in SUBSET (parts \cup {"components"}) : have' = have \cup p
                         /\ Goes("shot") /\ Degrade(links, links)
                      \/ \E k \in rejected :
                           /\ Decides(k, rejected, ends) /\ \E p \in SUBSET parts : have' = have \cup p
                           /\ IF ends[k] = "limited" THEN Fail("limited") /\ Whole
                              ELSE Goes("shot") /\ Degrade(links \cup {"component_docs"}, links \cup {"component_docs"})
  /\ UNCHANGED <<shown, asked, idx, synced, wanted, coverageComplete>>

(* getImages.                                                               *)
Shoot ==
  /\ at = "shot"
  /\ \/ "screenshot" \notin asked /\ Goes("assemble") /\ Whole /\ UNCHANGED <<left, have>>
     \/ /\ "screenshot" \in asked /\ left < Gate
        /\ Goes("assemble") /\ Degrade({"screenshot"}, {"screenshot"}) /\ UNCHANGED <<left, have>>
     \/ /\ "screenshot" \in asked /\ left >= Gate
        /\ \E e \in Endings :
             /\ Takes(e, Reserve) /\ Tolerates("screenshot", e, "assemble")
             /\ have' \in IF e = "ok" THEN {have, have \cup {"screenshot"}} ELSE {have}
  /\ UNCHANGED <<shown, asked, idx, synced, wanted, coverageComplete>>

--------------------------------------------------------------------------------
(* resolveTokenMode: what a paint's chain was resolved with.                 *)
Axes(b) == {b.chain[i] : i \in DOMAIN b.chain} \cap Moded
Pinned  == shown.within \cup (IF coverageComplete THEN shown.above ELSE {})
pinnedAxisUsed(b) == Axes(b) \cap Pinned # {}

(* Mutant: only the collection the paint is bound to counts.                *)
UnconfirmedTop(b) == ~coverageComplete /\ Top(b) \in Moded \ Pinned
unconfirmedDefaultUsed(b) == ~coverageComplete /\ Axes(b) \ Pinned # {}

(* bindingIsUntracked: for what is drawn as Figma gave it.                   *)
bindingIsUntracked(b) == (InIndex(b) \/ InGraph(b)) => Top(b) \in Moded
untracked(b) ==
  \/ b.path = "paint" /\ ~InIndex(b) /\ ~InGraph(b)
  \/ b.path = "other" /\ bindingIsUntracked(b)

modeContext ==
  /\ idx /\ Pinned = {} /\ (wanted => coverageComplete)
  /\ \A b \in shown.bindings :
       ~untracked(b) /\ (b.path = "paint" => ~pinnedAxisUsed(b) /\ ~unconfirmedDefaultUsed(b))

(* fitToBudget: the deepest projection that fits, or the shallowest.         *)
Fitting(node, rest)  == {d \in 1..Depth : node[d] + rest <= SizeBudget}
FitDepth(node, rest) == Max({1} \cup Fitting(node, rest))

(* The forms of the answer; one that has nothing to shed equals the one before. *)
Forms == <<have, have \ {"screenshot"}, have \ {"screenshot", "components"},
           have \cap {"concrete_instances"}>>

(* What the stages found is measured, cut to fit and delivered; the marker,   *)
(* the receipts and the hint come on top of what fitToBudget measured.         *)
Assemble ==
  /\ at = "assemble"
  /\ \E s \in Sizes :
       LET weight(P) == MapThenSumSet(LAMBDA p : s.part[p], P \cup {"globalVars"})
           depth == FitDepth(s.node, weight(have))
           fit   == {i \in DOMAIN Forms : s.node[depth] + weight(Forms[i]) + s.extra <= SizeBudget}
       IN  reply' = IF fit = {}
                    THEN [parts |-> have \cap {"concrete_instances"}, depth |-> depth,
                          degraded |-> TRUE, stages |-> degraded, marker |-> FALSE]
                    ELSE [parts |-> Forms[Min(fit)], depth |-> depth,
                          degraded |-> Depth \notin Fitting(s.node, weight(have)) \/ 1 \notin fit,
                          stages |-> degraded, marker |-> modeContext]
  /\ at' = "done" /\ Whole
  /\ UNCHANGED <<left, shown, asked, idx, synced, wanted, coverageComplete, have>>

ContextNext ==
  \/ Core \/ ReadVariables \/ Ready \/ Ancestors \/ Instances \/ Records \/ Describe \/ Shoot \/ Assemble
  \/ at = "done" /\ UNCHANGED context

ContextSpec == ContextInit /\ [][ContextNext]_context

--------------------------------------------------------------------------------
Answered == at = "done" /\ "marker" \in DOMAIN reply

(* What Figma draws of a binding is its default if no collection of its chain  *)
(* is pinned anywhere above.                                                *)
AtDefault(b) == Axes(b) \cap (shown.above \cup shown.within) = {}

(* mode_context is said of paints on positive evidence alone: of every paint   *)
(* the tool looks at, each collection down its aliases is at its default,      *)
(* whatever of the path above, the index or the graph could not be read.  (Of  *)
(* other bindings bindingIsUntracked passes any whose own collection has one    *)
(* mode, wherever its aliases go on to.)                                      *)
PaintsAreDefault ==
  Answered /\ reply.marker => \A b \in shown.bindings : b.path = "paint" => AtDefault(b)

(* A stage that was due and did not end well is in degraded_stages, in every    *)
(* form of the answer, and one that was shed or cut for size says so.          *)
AnswerAccounts ==
  Answered => cut \subseteq reply.stages /\ (reply.parts # have \/ reply.depth < Depth => reply.degraded)
================================================================================
