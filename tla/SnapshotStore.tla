----------------------------- MODULE SnapshotStore -----------------------------
(***************************************************************************)
(* The store of DOM snapshots that browsers upload, with the route in front *)
(* of it.  A capToken is minted for an owner and admits uploads; each       *)
(* accepted upload becomes a ref, which its owner resolves.  Tokens and     *)
(* refs expire by the same rule, each on its own times; refs are also       *)
(* evicted, least recently used first, to keep every owner and the whole    *)
(* store within their budgets.                                             *)
(*                                                                         *)
(* Tokens and refs are random strings; here they are numbered in the order  *)
(* they are made, which is also the order of the Maps that hold them.  Of   *)
(* what is uploaded only the size counts.                                   *)
(***************************************************************************)
EXTENDS Integers, FiniteSets, Functions

CONSTANTS Owners, TTL, HardCap,
          MaxOwnerBytes, MaxStoreBytes, Overhead,
          Sizes,                          \* bytes of an admissible POST
          MaxMints, MaxUploads, MaxNow    \* bounds of the model

SnapshotStoreAssumption ==
  /\ TTL \in Nat /\ HardCap \in Nat /\ MaxOwnerBytes \in Nat /\ MaxStoreBytes \in Nat
  /\ MaxMints \in Nat /\ MaxUploads \in Nat /\ MaxNow \in Nat
  /\ Sizes \subseteq Nat /\ Overhead \in Nat \ {0}
  /\ MaxOwnerBytes <= MaxStoreBytes /\ \A n \in Sizes : n + Overhead <= MaxOwnerBytes

VARIABLES now,
          tokens,   \* token -> its record, while it is kept
          refs,     \* ref -> its record, while it is kept
          reading,  \* tokens whose POST passed the gate and whose body is being read
          mintedAt, \* when each token was minted, kept or not
          uploads   \* refs made so far

vars == <<now, tokens, refs, reading, mintedAt, uploads>>

TokenRecords == [owner : Owners, created : Nat, used : Nat]
RefRecords   == [owner : Owners, token : Nat, bytes : Nat, created : Nat, used : Nat]

Empty == [x \in {} |-> x]
Init ==
  /\ now = 0 /\ tokens = Empty /\ refs = Empty /\ reading = {}
  /\ mintedAt = Empty /\ uploads = 0

Put(f, x, v) == [y \in DOMAIN f \cup {x} |-> IF y = x THEN v ELSE f[y]]

--------------------------------------------------------------------------------
Idle(r)    == r.used + TTL < now
TooOld(at) == at + HardCap < now
Expired(r) == Idle(r) \/ TooOld(r.created)

(* sweepTokens: of the two kinds of records only the tokens are reclaimed.  *)
Swept == Restrict(tokens, {k \in DOMAIN tokens : ~Expired(tokens[k])})

(* lastAccess = now, for a token that is still there.                       *)
Touched(T, k) == IF k \in DOMAIN T THEN [T EXCEPT ![k].used = now] ELSE T

Of(R, o)  == {r \in DOMAIN R : R[r].owner = o}
(* The bytes of a set of refs, counted one by one.                          *)
Weight(R, S) == Cardinality(UNION {{r} \X (1..R[r].bytes) : r \in S})

(* Mutant: among the refs of one moment the newest goes first.              *)
OlderByCreation(R, q, r) == R[q].used < R[r].used \/ (R[q].used = R[r].used /\ r < q)
(* oldest: by lastAccess, then by the order of the Map.                     *)
Older(R, q, r) == R[q].used < R[r].used \/ (R[q].used = R[r].used /\ q < r)

(* Refs of S leave in that order while S is over the budget: a ref stays if  *)
(* it fits together with those that would leave after it.                   *)
Fitting(R, S, budget) == {r \in S : Weight(R, {q \in S : ~Older(R, q, r)}) <= budget}
EvictOwner(R, o) == Restrict(R, (DOMAIN R \ Of(R, o)) \cup Fitting(R, Of(R, o), MaxOwnerBytes))
EvictGlobal(R)   == Restrict(R, Fitting(R, DOMAIN R, MaxStoreBytes))

--------------------------------------------------------------------------------
Mint(o) ==
  /\ Cardinality(DOMAIN mintedAt) < MaxMints
  /\ LET k == Cardinality(DOMAIN mintedAt) + 1
     IN  /\ tokens' = Put(Swept, k, [owner |-> o, created |-> now, used |-> now])
         /\ mintedAt' = Put(mintedAt, k, now)
  /\ UNCHANGED <<now, refs, reading, uploads>>

(* The router looks at the token before it reads the body.                  *)
Gate(k) ==
  /\ tokens' = Swept
  /\ IF k \in DOMAIN Swept
     THEN reading' = reading \cup {k}
     ELSE UNCHANGED reading                                    \* 404
  /\ UNCHANGED <<now, refs, mintedAt, uploads>>

(* handleUpload, once the body was read: the token again, the body, the     *)
(* count, each snapshot, and then upload, which checks before it stores.    *)
Accept(k, n) ==
  LET o == Swept[k].owner
      new == [owner |-> o, token |-> k, bytes |-> n + Overhead, created |-> now, used |-> now]
  IN  /\ uploads < MaxUploads
      /\ uploads' = uploads + 1
      /\ refs' = EvictGlobal(EvictOwner(Put(refs, uploads + 1, new), o))
      /\ tokens' = Touched(Swept, k)

Upload(k) ==
  /\ k \in reading /\ reading' = reading \ {k}
  /\ \/ tokens' = Swept /\ UNCHANGED <<refs, uploads>>    \* 404; 400, 413 or 422 whatever the token
     \/ k \in DOMAIN Swept /\ \E n \in Sizes : Accept(k, n)
  /\ UNCHANGED <<now, mintedAt>>

(* Mutant: resolving keeps the ref alive, but not its session.              *)
SessionForgotten(k) == Swept
Session(k) == Touched(Swept, k)

(* resolve and resolveByIndex up to the look-up of the snapshot: whether the *)
(* selector or the index is found changes nothing any more.                 *)
Resolve(r, o) ==
  /\ \/ /\ r \in DOMAIN refs => refs[r].owner # o /\ ~Expired(refs[r])  \* unknown_ref, owner_mismatch
        /\ tokens' = Swept /\ UNCHANGED refs
     \/ /\ r \in DOMAIN refs /\ Expired(refs[r])                        \* expired, told once
        /\ tokens' = Swept /\ refs' = Restrict(refs, DOMAIN refs \ {r})
     \/ /\ r \in DOMAIN refs /\ ~Expired(refs[r]) /\ refs[r].owner = o
        /\ tokens' = Session(refs[r].token) /\ refs' = [refs EXCEPT ![r].used = now]
  /\ UNCHANGED <<now, reading, mintedAt, uploads>>

Tick == now < MaxNow /\ now' = now + 1 /\ UNCHANGED <<tokens, refs, reading, mintedAt, uploads>>

Next ==
  \/ \E o \in Owners : Mint(o)
  \/ \E k \in DOMAIN mintedAt : Gate(k) \/ Upload(k)
  \/ \E r \in 1..uploads, o \in Owners : Resolve(r, o)
  \/ Tick

Spec == Init /\ [][Next]_vars

--------------------------------------------------------------------------------
TypeOK ==
  /\ now \in Nat /\ uploads \in Nat
  /\ DOMAIN mintedAt \subseteq Nat \ {0} /\ \A k \in DOMAIN mintedAt : mintedAt[k] \in 0..now
  /\ DOMAIN tokens \subseteq DOMAIN mintedAt /\ \A k \in DOMAIN tokens : tokens[k] \in TokenRecords
  /\ DOMAIN refs \subseteq 1..uploads /\ \A r \in DOMAIN refs : refs[r] \in RefRecords
  /\ reading \subseteq DOMAIN mintedAt

(* A session in use stays open: while a ref can still be resolved, the token *)
(* it came under admits uploads, unless that token has reached its hard cap. *)
(* The two expire on different times and only tokens are swept.             *)
SessionOutlivesRefs ==
  \A r \in DOMAIN refs : ~Expired(refs[r]) =>
    LET k == refs[r].token
    IN  TooOld(mintedAt[k]) \/ (k \in DOMAIN tokens /\ ~Idle(tokens[k]))

(* A ref that can still be resolved goes only for an accepted upload that    *)
(* takes its owner or the store over budget, as late as possible and after   *)
(* all that was used longer ago; another owner's ref goes only for the       *)
(* store.  The upload itself is there afterwards, within both budgets.  What *)
(* goes last may be a ref that is past its hard cap: until it is looked up   *)
(* it counts, and live refs that were used before it leave first.           *)
Pressed ==
  LET gone == DOMAIN refs \ DOMAIN refs'
      lost == {r \in gone : ~Expired(refs[r])}
      new == uploads'
      owner == refs'[new].owner
      Back(r, S) == Weight(refs', S) + refs[r].bytes
      storeFull == \E r \in gone : Back(r, DOMAIN refs') > MaxStoreBytes
      ownerFull == \E r \in gone : refs[r].owner = owner /\ Back(r, Of(refs', owner)) > MaxOwnerBytes
  IN  /\ uploads' > uploads => /\ new \in DOMAIN refs'
                               /\ Weight(refs', DOMAIN refs') <= MaxStoreBytes
                               /\ Weight(refs', Of(refs', owner)) <= MaxOwnerBytes
      /\ lost # {} => /\ uploads' > uploads
                      /\ storeFull \/ (ownerFull /\ \A r \in lost : refs[r].owner = owner)
      /\ \A r \in lost, q \in DOMAIN refs' : refs'[q].owner = refs[r].owner => q = new \/ Older(refs, r, q)
OnlyPressureEvicts == [][Pressed]_vars
================================================================================
