----------------------------- MODULE ResolveAnchors -----------------------------
(***************************************************************************)
(* resolveAnchors: which comment threads are anchored inside a scope node   *)
(* (and have a wanted type), told from at most CallCap partial reads of a   *)
(* file that is being edited, each of which may fail, be too large, answer  *)
(* for another version, leave nodes out or be cut by the deadline; a read   *)
(* without a version is answered by the cache before Figma.                 *)
(*                                                                         *)
(* A file revision maps a node to its occurrences, each the sequence of its *)
(* ancestors from the document down: none if the node is absent, one in a   *)
(* well-formed file.  A thread is the node it is anchored to.  The locals   *)
(* of the request are the record call; every step is what the code does     *)
(* between two awaits.                                                      *)
(***************************************************************************)
EXTENDS Integers, Sequences, SequencesExt, FiniteSets

CONSTANTS Anchors,      \* the anchored nodes, in the order of the candidates
          Scope,        \* opts.node_id
          File,         \* revision -> node -> set of occurrences
          TypeOf,       \* revision -> node -> type
          Wanted,       \* opts.node_type
          FirstDepth, BatchSize, CallCap,
          NotYet        \* undefined

Revisions == DOMAIN File
Ids == ToSet(Anchors)
Reasons == {"deadline", "metadata_call_cap", "node_visit_cap", "metadata_error",
            "unknown_scope", "scope_root_missing"}

(* An occurrence is a finite path, and an ancestor is itself in the file.   *)
ASSUME ResolveAnchorsAssumption ==
  /\ FirstDepth \in Nat \ {0} /\ BatchSize \in Nat \ {0} /\ CallCap \in Nat
  /\ Revisions \subseteq Nat /\ NotYet \notin Revisions /\ NotYet \notin Reasons
  /\ Anchors \in Seq(Ids) /\ IsInjective(Anchors) /\ Scope \notin Ids
  /\ \A r \in Revisions : \A i \in Ids :
       /\ TypeOf[r][i] # NotYet /\ IsFiniteSet(File[r][i])
       /\ \A o \in File[r][i] : o \in Seq(ToSet(o)) /\ (Scope \in ToSet(o) => File[r][Scope] # {})

VARIABLES head,        \* Figma: the file's current revision
          remembered,  \* versionCache: the revision it would name, perhaps not the last
          expired,     \* the deadline has passed
          call         \* what the request holds

anchoring == <<head, remembered, expired, call>>

Phases == {"idle", "project", "check", "deepen", "type", "enrich", "done"}
Verdicts == {"yes", "no", "unknown"}

Idle == [phase |-> "idle", scoped |-> FALSE, typed |-> FALSE, oldest |-> 0,
         work |-> <<>>, answers |-> {}, depth |-> FirstDepth, calls |-> 0,
         version |-> NotYet, stop |-> NotYet, proven |-> FALSE,
         member |-> [i \in Ids |-> "unknown"], meta |-> [i \in Ids |-> NotYet],
         found |-> {}, present |-> {}, absent |-> {}, skipped |-> {},
         deferred |-> {}, attempted |-> {}]

AnchorsInit ==
  /\ head \in Revisions /\ \A r \in Revisions : head <= r
  /\ remembered = head /\ expired = FALSE /\ call = Idle

--------------------------------------------------------------------------------
(* Small steps on the locals.                                               *)
Halt(d, why) == IF d.stop = NotYet THEN [d EXCEPT !.stop = why] ELSE d

(* Batches follow the order of the candidates; the scope is asked for last. *)
Place(i) == IF i = Scope THEN Len(Anchors) + 1 ELSE CHOOSE k \in DOMAIN Anchors : Anchors[k] = i
Rank(S, i) == Cardinality({j \in S : Place(j) < Place(i)})
Batches(S) == [k \in 1..((Cardinality(S) - 1) \div BatchSize + 1) |->
                 {i \in S : Rank(S, i) \div BatchSize = k - 1}]
Half(B)  == {i \in B : Rank(B, i) < (Cardinality(B) + 1) \div 2}
Other(B) == B \ Half(B)

(* limit = 0: a projection that may split and recover; otherwise the        *)
(* shallower attempts for one node whose projection at limit was too large. *)
Projections(S, depth) == [k \in DOMAIN Batches(S) |-> [ids |-> Batches(S)[k], depth |-> depth, limit |-> 0]]
Fetches(S) == [k \in DOMAIN Batches(S) |-> [ids |-> Batches(S)[k], last |-> TRUE]]

(* canCall: the reason why no request may be sent, if there is one.          *)
Refusal == IF expired THEN "deadline" ELSE IF call.calls >= CallCap THEN "metadata_call_cap" ELSE NotYet

--------------------------------------------------------------------------------
(* External: a projection shows the paths from the document to the nodes    *)
(* asked for, cut at the depth; a node is at depth Len(its ancestors).      *)
Prefix(o, k) == SubSeq(o, 1, k)
Blocked(o, B) == ToSet(o) \cap B # {}

(* scanProjection stops at a target: what lies below it is not visited.     *)
Reached(B, depth, r) ==
  {s \in UNION {{i} \X File[r][i] : i \in B} : Len(s[2]) <= depth /\ ~Blocked(s[2], B)}
ScopePaths(B, depth, r) ==
  LET ends(o) == {k \in 1..Len(o) : k <= depth + 1 /\ o[k] = Scope}
      paths == UNION {{Prefix(o, k) : k \in ends(o)} : o \in UNION {File[r][i] : i \in B}}
  IN  {p \in paths : ~Blocked(p, B)}

Relation(occurrences) == IF Cardinality(occurrences) > 1 THEN "unknown"
                         ELSE IF \E o \in occurrences : Scope \in ToSet(o) THEN "yes" ELSE "no"

(* scanProjection of what was visited: the targets' occurrences and the     *)
(* paths to the scope.                                                      *)
Scanned(d, seen, paths, r) ==
  LET hit == {s[1] : s \in seen}
      at(i) == {o \in UNION {File[r][j] : j \in Ids} : <<i, o>> \in seen}
  IN  IF Cardinality(paths) > 1 THEN Halt(d, "unknown_scope")
      ELSE [d EXCEPT !.proven = @ \/ paths # {},
                     !.found = @ \cup hit,
                     !.meta = [i \in Ids |-> IF i \in hit THEN TypeOf[r][i] ELSE @[i]],
                     !.member = [i \in Ids |-> IF i \in hit THEN Relation(at(i)) ELSE @[i]]]

(* What the rest of the code makes of a finished projection: a shallower    *)
(* attempt that found nothing is followed by a deeper one, or deferred.     *)
AfterProjection(d, t, newly) ==
  IF t.limit = 0 \/ newly # {} THEN [d EXCEPT !.work = Tail(@)]
  ELSE IF t.depth + 1 < t.limit THEN [d EXCEPT !.work[1].depth = @ + 1]
  ELSE [d EXCEPT !.work = Tail(@), !.deferred = @ \cup t.ids]

TooLarge(d, t) ==
  IF Cardinality(t.ids) > 1
  THEN [d EXCEPT !.work = <<[t EXCEPT !.ids = Half(@)], [t EXCEPT !.ids = Other(@)]>> \o Tail(@)]
  ELSE IF t.limit = 0 /\ t.depth > 1
  THEN [d EXCEPT !.work[1].depth = 1, !.work[1].limit = t.depth]
  ELSE Halt(d, "metadata_error")

Working == call.stop = NotYet /\ call.work # <<>>
ProjectionKey(t) == <<call.version, t.depth, t.ids>>

(* projectBatch.  The deadline may pass while the request is out or during  *)
(* the scan, and the scan may hit the visit cap: it then saw a part.        *)
Project ==
  LET t == Head(call.work)
      r == IF call.version = NotYet THEN head ELSE call.version
      sent == [call EXCEPT !.calls = @ + 1, !.attempted = @ \cup {ProjectionKey(t)}]
      pinned == [sent EXCEPT !.version = r]
      seen == Reached(t.ids, t.depth, r)
      paths == ScopePaths(t.ids, t.depth, r)
  IN  /\ call.phase \in {"project", "deepen"} /\ Working
      /\ \/ Refusal # NotYet /\ call' = Halt(call, Refusal) /\ UNCHANGED expired
         \/ /\ Refusal = NotYet /\ ProjectionKey(t) \in call.attempted
            /\ call' = AfterProjection(call, t, {}) /\ UNCHANGED expired
         \/ /\ Refusal = NotYet /\ ProjectionKey(t) \notin call.attempted
            /\ expired' \in {expired, TRUE}
            /\ \/ call' = TooLarge(sent, t)
               \/ call' = Halt(sent, "metadata_error")
               \/ ~expired' /\ call' = Halt(sent, "unknown_scope")
               \/ /\ ~expired'
                  /\ call' = AfterProjection(Scanned(pinned, seen, paths, r), t, {s[1] : s \in seen})
               \/ \E part \in SUBSET seen, some \in SUBSET paths :
                    /\ \A s \in part : \A k \in DOMAIN s[2] : s[2][k] = Scope => Prefix(s[2], k) \in some
                    /\ call' = Halt(Scanned(pinned, part, some, r),
                                    IF expired' THEN "deadline" ELSE "node_visit_cap")
      /\ UNCHANGED <<head, remembered>>

(* What a batch of answers <<id, revision>> tells; NotYet for a node that    *)
(* the answer left out or showed in no usable form.  In the check phase it  *)
(* decides which of the nodes no projection showed exist at all.            *)
Absorb(d, answers) ==
  LET told  == {a \in answers : a[2] # NotYet}
      here  == {a \in told : File[a[2]][a[1]] # {}}
      found == {a[1] : a \in here} \ {Scope}
      gone  == {a[1] : a \in told \ here} \ {Scope}
      noted == [d EXCEPT !.answers = {}, !.skipped = @ \cup ({a[1] : a \in answers \ told} \ {Scope}),
                         !.meta = [i \in Ids |-> IF i \in found
                                                 THEN LET a == CHOOSE a \in here : a[1] = i IN TypeOf[a[2]][i]
                                                 ELSE @[i]]]
  IN  IF d.phase # "check" THEN noted
      ELSE [noted EXCEPT !.proven = @ \/ \E a \in here : a[1] = Scope,
                        !.present = @ \cup found, !.absent = @ \cup gone, !.deferred = @ \ gone]

(* getNodesRaw of the caching adapter: a version is asked of Figma; without  *)
(* one it may return what was read since the remembered revision was named. *)
Served == IF call.version = NotYet THEN {r \in Revisions : remembered <= r /\ r <= head} ELSE {call.version}

(* fetchNodeBatch, and the loop over the answers of a whole batch: those of  *)
(* its first half count even if the second half failed, not after the       *)
(* deadline.                                                                *)
FetchNodes ==
  LET t == Head(call.work)
      sent == [call EXCEPT !.calls = @ + 1]
      With(r, told) == call.answers \cup {<<i, IF i \in told THEN r ELSE NotYet>> : i \in t.ids}
      Ends(d, answers) == \E part \in SUBSET answers :
        /\ expired' \/ part = answers
        /\ call' = Absorb([(IF expired' THEN Halt(d, "deadline") ELSE d) EXCEPT !.work = Tail(@)], part)
  IN  /\ call.phase \in {"check", "type", "enrich"} /\ Working
      /\ \/ /\ Refusal # NotYet /\ UNCHANGED expired
            /\ Ends(Halt(call, Refusal), IF expired THEN {} ELSE call.answers)
         \/ /\ Refusal = NotYet
            /\ expired' \in {expired, TRUE}
            /\ \/ \E r \in Served, told \in SUBSET t.ids :
                    IF t.last \/ expired' THEN Ends(sent, With(r, told))
                    ELSE call' = [sent EXCEPT !.work = Tail(@), !.answers = With(r, told)]
               \/ /\ Cardinality(t.ids) > 1
                  /\ call' = [sent EXCEPT !.work = <<[ids |-> Half(t.ids), last |-> FALSE],
                                                 [t EXCEPT !.ids = Other(@)]>> \o Tail(@)]
               \/ Ends(Halt(sent, "metadata_error"), call.answers)
               \/ Ends(Halt(sent, "unknown_scope"), call.answers)
      /\ UNCHANGED <<head, remembered>>

--------------------------------------------------------------------------------
(* Between the loops.                                                       *)
LoopOver == call.stop # NotYet \/ call.work = <<>>
Onto(d, phase, work) == [d EXCEPT !.phase = phase, !.work = work]

EndProject ==
  /\ call.phase = "project" /\ LoopOver
  /\ LET checks == (Ids \ call.found) \cup (IF call.proven THEN {} ELSE {Scope})
     IN  call' = Onto(call, "check",
                      IF call.version # NotYet /\ call.stop = NotYet THEN Fetches(checks) ELSE <<>>)
  /\ UNCHANGED <<head, remembered, expired>>

(* Mutant: a scope nobody saw is not reported.                              *)
RootedAnyway(d) == d
(* What was never seen cannot be the scope of an answer.                    *)
Rooted(d) == IF Ids # {} /\ ~d.proven THEN Halt(d, "scope_root_missing") ELSE d

EndCheck ==
  /\ call.phase = "check" /\ LoopOver
  /\ LET told == IF call.deferred # {} THEN Halt(call, "metadata_error") ELSE call
         judged == [Rooted(told) EXCEPT !.depth = FirstDepth + 1,
                                  !.member = [i \in Ids |-> IF i \in call.absent
                                                            THEN IF call.proven THEN "no" ELSE "unknown"
                                                            ELSE @[i]]]
     IN  call' = Onto(judged, "deepen", Projections(call.present, FirstDepth + 1))
  /\ UNCHANGED <<head, remembered, expired>>

(* Mutant: the next round asks at the depth of the last one.                *)
SameDepth == call.depth
NextDepth == call.depth + 1

(* A round of deepen is over: one level deeper for what is still not shown. *)
Deepen ==
  /\ call.phase = "deepen" /\ call.work = <<>> /\ call.stop = NotYet /\ ~(call.present \subseteq call.found)
  /\ call' = [call EXCEPT !.depth = NextDepth, !.work = Projections(call.present \ call.found, NextDepth)]
  /\ UNCHANGED <<head, remembered, expired>>

(* Mutant: what the projections say counts without a scope.                 *)
SettledTrusting(d) == d
(* No "no" without a proven scope.                                          *)
Settled(d) == [d EXCEPT !.member = [i \in Ids |-> IF @[i] = "no" /\ ~d.proven THEN "unknown" ELSE @[i]]]

ToType(d) ==
  LET open == {i \in Ids : (d.scoped => d.member[i] = "yes") /\ d.meta[i] = NotYet}
  IN  Onto(d, "type", IF d.typed THEN Fetches(open) ELSE <<>>)

EndDeepen ==
  /\ call.phase = "deepen" /\ (call.stop # NotYet \/ (call.work = <<>> /\ call.present \subseteq call.found))
  /\ call' = ToType(Settled(call))
  /\ UNCHANGED <<head, remembered, expired>>

(* classified: what the filters say of a thread.                            *)
Match(d, i) == IF d.scoped /\ d.member[i] # "yes" THEN d.member[i]
               ELSE IF ~d.typed THEN "yes"
               ELSE IF d.meta[i] = NotYet THEN "unknown"
               ELSE IF d.meta[i] = Wanted THEN "yes" ELSE "no"
Matched(d) == {i \in Ids : Match(d, i) = "yes"}
Unresolved(d) == {i \in Ids : Match(d, i) = "unknown"}

(* Enrichment asks for the names that are still missing; it filters nothing. *)
EndType ==
  /\ call.phase = "type" /\ LoopOver
  /\ call' = Onto(call, "enrich", Fetches({i \in Matched(call) : call.meta[i] = NotYet}))
  /\ UNCHANGED <<head, remembered, expired>>

EndEnrich ==
  /\ call.phase = "enrich" /\ LoopOver
  /\ call' = Onto(call, "done", <<>>)
  /\ UNCHANGED <<head, remembered, expired>>

--------------------------------------------------------------------------------
(* A request, with or without a scope and a type; the answer returned.      *)
Begin ==
  /\ call.phase = "idle"
  /\ \E scoped, typed \in BOOLEAN :
       LET d == [Idle EXCEPT !.scoped = scoped, !.typed = typed, !.oldest = remembered]
       IN  call' = IF scoped THEN Onto(d, "project", Projections(Ids, FirstDepth)) ELSE ToType(d)
  /\ expired' = FALSE /\ UNCHANGED <<head, remembered>>

ReturnAnchors == call.phase = "done" /\ call' = Idle /\ expired' = FALSE /\ UNCHANGED <<head, remembered>>

(* Somebody edits the file; the version cache is told of it, now or later.   *)
Edit == head + 1 \in Revisions /\ head' = head + 1 /\ UNCHANGED <<remembered, expired, call>>
(* A request for the version that ends late may name an earlier one again.   *)
Refresh ==
  /\ remembered' \in {r \in Revisions : r <= head}
  /\ call' = [call EXCEPT !.oldest = IF remembered' < @ THEN remembered' ELSE @]
  /\ UNCHANGED <<head, expired>>

CallStep == Project \/ FetchNodes \/ EndProject \/ EndCheck \/ Deepen \/ EndDeepen \/ EndType \/ EndEnrich
AnchorsNext == Begin \/ ReturnAnchors \/ Edit \/ Refresh \/ CallStep

AnchorsSpec == AnchorsInit /\ [][AnchorsNext]_anchoring /\ WF_anchoring(CallStep)

--------------------------------------------------------------------------------
AnchorsTypeOK ==
  /\ head \in Revisions /\ remembered \in Revisions /\ remembered <= head /\ expired \in BOOLEAN
  /\ call.phase \in Phases /\ call.scoped \in BOOLEAN /\ call.typed \in BOOLEAN /\ call.proven \in BOOLEAN
  /\ call.calls \in 0..CallCap /\ call.version \in Revisions \cup {NotYet}
  /\ call.member \in [Ids -> Verdicts]
  /\ call.found \cup call.present \cup call.absent \cup call.skipped \cup call.deferred \subseteq Ids

(* The answer is about one version of the file, and right about it: a thread *)
(* reported inside the scope is inside, a thread dropped is outside or gone  *)
(* and the scope was there, and what is of the wanted type was so at that    *)
(* version.  Without a scope the answers may come from the cache: the type   *)
(* is that of some revision from the oldest that the version cache named      *)
(* during the call to the current one.                                      *)
AnswerIsSound ==
  call.phase = "done" => \A i \in Ids :
    /\ call.scoped /\ call.member[i] = "yes" => \E o \in File[call.version][i] : Scope \in ToSet(o)
    /\ call.scoped /\ call.member[i] = "no" => /\ File[call.version][Scope] # {}
                                         /\ \/ File[call.version][i] = {}
                                            \/ \E o \in File[call.version][i] : Scope \notin ToSet(o)
    /\ call.typed /\ Match(call, i) = "yes" =>
         \E r \in (IF call.scoped THEN {call.version} ELSE call.oldest..head) : TypeOf[r][i] = Wanted

(* Whatever is left undecided comes with a reason, unless Figma's own answer *)
(* is what leaves it open: it left the node out (the loops `continue` past   *)
(* it and record nothing), the file is ambiguous about it, or, for the type  *)
(* alone, the node is gone.  The code itself forgets none.                  *)
SilenceIsComplete ==
  call.phase = "done" /\ call.stop = NotYet =>
    \A i \in Unresolved(call) :
      \/ i \in call.skipped
      \/ IF call.scoped THEN Cardinality(File[call.version][i]) > 1
         ELSE \E r \in call.oldest..head : File[r][i] = {}

(* Every request is answered, though the loop that deepens the projection    *)
(* has no bound of its own.                                                 *)
AnchorsAnswered == call.phase # "idle" ~> call.phase = "done"
===============================================================================
