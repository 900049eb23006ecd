-------------------------------- MODULE MCLoops --------------------------------
(* What is driven from outside, may meet a Figma that fails or never answers,    *)
(* and has to come to rest: the calls the tools make; the nightly run over the   *)
(* stored tokens; the refresh of the environment's graph, by the requests that   *)
(* need it; the fixes of a frame's pairs, by the caller of compare_node_to_dom.  *)
(* They share no state, so a behaviour is of one of them.                       *)
EXTENDS FigmaRequests, EnvGraph, FrameReceipt, TLC

CONSTANTS Labels, Pats, Clients, MaxRequests, Nil
VARIABLES loop, tokens, lastId, req, queue, night, revoked, turnedAway, made
stored == <<tokens, lastId, req, queue, night, revoked, turnedAway, made>>

AC == INSTANCE Accounts
ASSUME AC!AccountsAssumption

CallsAre(A)  == loop = "calls" /\ A /\ UNCHANGED <<loop, stored, refreshing, session>>
NightIs(A)   == loop = "night" /\ A /\ UNCHANGED <<loop, vars, refreshing, session>>
GraphIs(A)   == loop = "graph" /\ A /\ UNCHANGED <<loop, vars, stored, session>>
ReceiptIs(A) == loop = "receipt" /\ A /\ UNCHANGED <<loop, vars, stored, refreshing>>

LoopsInit ==
  /\ loop \in {"calls", "night", "graph", "receipt"} /\ Init /\ AC!AccountsInit /\ GraphInit
  /\ loop = "graph" \/ ~outage
  /\ IF loop = "receipt" THEN ReceiptInit
     ELSE views = Unread /\ excluded = {} /\ pairs = {} /\ broken = {} /\ depth = 0 /\ receipt = Unread
LoopsNext == CallsAre(Next) \/ NightIs(AC!AccountsNext) \/ GraphIs(GraphNext) \/ ReceiptIs(ReceiptNext)

LoopsSpec ==
  /\ LoopsInit /\ [][LoopsNext]_<<loop, vars, stored, refreshing, session>>
  /\ SF_vars(CallsAre(Tick)) /\ \A c \in Calls : SF_vars(CallsAre(Runtime(c)))
  /\ WF_stored(NightIs(AC!NightStep)) /\ \A r \in Clients : WF_stored(NightIs(AC!RequestStep(r)))
  /\ WF_refreshing(GraphIs(GraphTick)) /\ WF_refreshing(GraphIs(BuildStep))
  /\ WF_refreshing(GraphIs(\E c \in Callers : Start(c)))
  /\ WF_session(ReceiptIs(Compare(TRUE))) /\ SF_session(ReceiptIs(Compare(FALSE)))
  /\ WF_session(ReceiptIs(Follows))

(* nightly-validation.ts: a revoked token ends up invalid, and stays so.       *)
RevokedEndInvalid == loop = "night" => AC!RevokedEndInvalid
(* env-graph.ts: after an outage the graph is confirmed again and again.       *)
GraphRecovers == loop = "graph" => Recovers
(* compare-node-to-dom-tool.ts: the fixes that the receipt asks for come to an end. *)
LoopEnds == loop = "receipt" => ItemsRunOut

(* Three frame hydrations and one other heavy call, through a governor of    *)
(* two slots and a semaphore of one: both queues fill.  One frame call may    *)
(* have a deadline, before its cap or at it; the queues bring it nearer.       *)
CONSTANTS f1, f2, f3, s1
MCCap == (f1 :> 1) @@ (f2 :> 2) @@ (f3 :> 1) @@ (s1 :> 1)

(* Two cards, one in a wrapper and deeper than the ceiling shows, a line, and a  *)
(* boolean operation, in which there is more than a shallow projection shows.    *)
(* Two callers of the graph, two libraries; the TTL outlasts the retry interval. *)
MCParent == <<0, 1, 1, 3, 4, 0, 6, 7, 7, 9, 0, 11>>
MCSig    == <<"card", "text", "wrap", "icon", "shape", "wrap", "card", "text", "card", "text", "icon", "line">>
MCCaps   == {[breadth |-> 3, budget |-> 12], [breadth |-> 2, budget |-> 12], [breadth |-> 3, budget |-> 5]}
MCExcl   == {{}, {1}, {0, 4}, {7}}
MCFirst  == {{}, {2, 6}, {5, 10}}
================================================================================
