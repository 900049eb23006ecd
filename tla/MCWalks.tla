---- MODULE MCWalks ----
(* What the server makes of what Figma shows of a file and its libraries: the two    *)
(* walks of the document tree, resolveAncestry and resolveAnchors; the one that       *)
(* proves the modes of a bound variable; the one that relates two variables by their  *)
(* aliases; the stages of get_design_context.  They share no state, so a behaviour is  *)
(* of one of them.                                                                *)
EXTENDS NodeAncestry, ResolveAnchors, DesignContext, AliasRelation, ModeResolution, TLC

VARIABLE tool

ancestral == <<late, target, holds, phase, calls, fetched, failed, turn, parked, ceiling, progress, trail, best, result>>

NotChoosing ==
  /\ pins = Nothing /\ deep = 0 /\ seen = Nothing /\ covered = FALSE /\ attempt = 0 /\ stage = "idle"
  /\ bound = Nothing /\ reached = Nothing /\ mode = Nothing /\ hops = 0 /\ applied = Nothing /\ answer = Nothing
NotRelating ==
  /\ aliases = Unset /\ rows = {} /\ viewed = FALSE /\ pair = Unset /\ forward = Unset /\ place = "idle"
  /\ frontier = {} /\ visited = {} /\ hole = FALSE /\ levels = 0 /\ starts = {} /\ share = 0 /\ said = Unset
NotDescribing ==
  /\ at = "idle" /\ left = 0 /\ shown = None /\ asked = {} /\ idx = FALSE /\ synced = FALSE /\ wanted = FALSE
  /\ coverageComplete = FALSE /\ have = {} /\ degraded = {} /\ cut = {} /\ reply = None

WalksInit ==
  /\ tool \in {"ancestry", "anchors", "modes", "relation", "context"} /\ AnchorsInit
  /\ IF tool = "ancestry" THEN Init ELSE target = 0 /\ holds = {} /\ Blank
  /\ IF tool = "modes" THEN ModesInit ELSE NotChoosing
  /\ IF tool = "relation" THEN RelationInit ELSE NotRelating
  /\ IF tool = "context" THEN ContextInit ELSE NotDescribing

AncestryIs(A) == tool = "ancestry" /\ A /\ UNCHANGED <<tool, anchoring, choosing, relating, context>>
AnchorsIs(A)  == tool = "anchors" /\ A /\ UNCHANGED <<tool, ancestral, choosing, relating, context>>
WalksNext ==
  \/ AncestryIs(Next) \/ AnchorsIs(AnchorsNext)
  \/ tool = "modes" /\ ModesNext /\ UNCHANGED <<tool, ancestral, anchoring, relating, context>>
  \/ tool = "relation" /\ RelationNext /\ UNCHANGED <<tool, ancestral, anchoring, choosing, context>>
  \/ tool = "context" /\ ContextNext /\ UNCHANGED <<tool, ancestral, anchoring, choosing, relating>>
WalksSpec ==
  /\ WalksInit /\ [][WalksNext]_<<context, tool, ancestral, anchoring, choosing, relating>>
  /\ WF_vars(AncestryIs(WalkStep)) /\ WF_anchoring(AnchorsIs(CallStep))

(* Both walks of the tree end: resolveAncestry, whose branches are parked and  *)
(* resumed, and resolveAnchors, whose loop over depths has no bound of its own. *)
EveryWalkReturns == Resolves /\ AnchorsAnswered

MCAnchors == <<"a", "b", "c">>
Doc == <<"doc", "page">>
MCFile ==
  (1 :> [a |-> {Doc \o <<"s">>}, b |-> {Doc \o <<"s", "a">>}, c |-> {Doc \o <<"s">>, Doc}, s |-> {Doc}]) @@
  (2 :> [a |-> {Doc}, b |-> {}, c |-> {Doc}, s |-> {}])
MCTypeOf ==
  (1 :> [a |-> "FRAME", b |-> "TEXT", c |-> "FRAME"]) @@ (2 :> [a |-> "TEXT", b |-> "TEXT", c |-> "FRAME"])
MCParent == <<0, 1, 2, 3, 0, 5, 6>>
MCArea == <<4, 3, 2, 1, 5, 3, 1>>

(* A collection of a library, with a copy of its id under another suffix; one of a *)
(* library whose id is plain; one of the file itself, which has the same plain id    *)
(* there and is in the graph as a copy; one with a single mode.                   *)
MCModesOf == [theme |-> {1, 2}, size |-> {1, 2}, page |-> {1, 2}, base |-> {1}]
MCDefault == [theme |-> 1, size |-> 1, page |-> 1, base |-> 1]
MCSuffix == [theme |-> "a", size |-> Plain, page |-> "b", base |-> Plain]
MCLocalId == [theme |-> "1:1", size |-> "1:2", page |-> "1:2", base |-> "1:3"]
MCPin(F, M) == {Nothing} \cup [form : F, mode : M]
MCNode(t, z, p) == [theme |-> t, size |-> z, page |-> p, base |-> Nothing]
MCNodePins ==
  {MCNode(t, z, Nothing) : t \in MCPin({"a", "b"}, {2, Unmapped}) \cup MCPin({"a"}, {1}), z \in MCPin({"a"}, {2})}
  \cup {MCNode(Nothing, [form |-> "a", mode |-> 2], [form |-> Plain, mode |-> 1])}
  \cup {MCNode(t, Nothing, p) : t \in MCPin({"a"}, {2}), p \in MCPin({Plain}, {2, Unmapped})}
MCCollOf ==
  [accent |-> "theme", brand |-> "theme", gap |-> "size", local |-> "page", copy |-> "page", red |-> "base"]
Via(w) == [alias |-> w]
MCVal ==
  [accent |-> <<Via("brand"), Via("gap")>>, brand |-> <<Via("red"), Via("gap")>>,
   gap |-> <<[lit |-> "small"], Via("copy")>>, red |-> <<[lit |-> "red"]>>,
   local |-> <<Via("copy"), [lit |-> "blue"]>>, copy |-> <<[lit |-> "green"], Via("accent")>>]

(* Two variables of the compared file, two of one library, one of another.  *)
MCFileOf == [button |-> "page", link |-> "page", brand |-> "A", red |-> "A", base |-> "B"]
MCMayAlias ==
  [button |-> {"link", "brand"}, link |-> {"brand", "base"}, brand |-> {"red"},
   red |-> {"base"}, base |-> {}]

(* One collection of one mode, one of two; paints bound to either, or to the one  *)
(* behind the other, under a pin and under none; a pin inside; sizes bound so.    *)
Bound(p, h, chain) == [path |-> p, home |-> h, chain |-> chain]
Shown(B, above, within) == [bindings |-> B, above |-> above, within |-> within]
MCContents ==
  {Shown({Bound("paint", h, b)}, pin, {}) :
     h \in {"file", "library"}, b \in {<<"brand">>, <<"solo", "brand">>}, pin \in {{}, {"brand"}}}
  \cup {Shown({Bound("other", "file", <<"solo">>)}, {}, {}),
        Shown({Bound("other", "file", <<"solo", "brand">>)}, {"brand"}, {}),
        Shown({Bound("paint", "lost", <<"brand">>)}, {"brand"}, {}),
        Shown({Bound("paint", "file", <<"brand">>), Bound("other", "library", <<"solo", "brand">>)}, {"brand"}, {}),
        Shown({Bound("paint", "file", <<"brand">>)}, {}, {"brand"})}

(* Whole, cut to the first level, and too large at any; parts of two sizes.     *)
MCPart(v, i, l, d, p) ==
  [globalVars |-> v, concrete_instances |-> i, codeConnect |-> l, components |-> d, screenshot |-> p]
MCSizes ==
  [node : {<<1, 1>>, <<1, 3>>, <<3, 6>>}, part : {MCPart(1, 1, 1, 1, 1), MCPart(2, 1, 1, 2, 2)}, extra : {1}]
====
