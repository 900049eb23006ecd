------------------------------ MODULE BudgetsProofs ------------------------------
(***************************************************************************)
(* What is kept within a budget of bytes, the least recently used leaving   *)
(* first, for any budgets, owners, times, keys and weights.                 *)
(*                                                                         *)
(* SnapshotStore: a session in use stays open, and only pressure evicts.    *)
(* What carries it is that a token is never less recently used than a ref    *)
(* made under it, and dies early of its age alone: whoever uses the ref      *)
(* later finds the token, or a ref that is itself idle.  What an eviction    *)
(* takes is proved from the order in which refs leave: it is total, so what  *)
(* stays is closed upwards, and the last to leave would have taken what      *)
(* stays over the budget.                                                   *)
(*                                                                         *)
(* ReadCaches: the caches and the budget agree, both bounds hold, and the     *)
(* oldest leave first.  What carries it is that the recency of a cache is     *)
(* that of the budget, restricted to its weighted entries: what the budget   *)
(* evicts is then the oldest of every cache, and each removal is made on     *)
(* both sides.                                                              *)
(***************************************************************************)
EXTENDS SnapshotStore, ReadCaches, FiniteSetTheorems, TLAPS

Constants == SnapshotStoreAssumption

(* A token dates from when it was minted and was used by now.               *)
Dated == \A k \in DOMAIN tokens : tokens[k].created = mintedAt[k] /\ tokens[k].used <= now

(* The token of a ref was used last when the ref was, or later.  If it is    *)
(* gone, either it was too old or the ref is idle.                          *)
Attended(r) ==
  LET k == refs[r].token
  IN  /\ k \in DOMAIN mintedAt /\ refs[r].used <= now
      /\ k \in DOMAIN tokens => tokens[k].used >= refs[r].used
      /\ k \notin DOMAIN tokens => TooOld(mintedAt[k]) \/ Idle(refs[r])

IInv ==
  /\ TypeOK /\ IsFiniteSet(DOMAIN mintedAt)
  /\ Dated /\ \A r \in DOMAIN refs : Attended(r)

(* The sweep drops what has expired, and nothing of what it keeps changes.  *)
LEMMA SweptKeeps ==
  /\ DOMAIN Swept = {k \in DOMAIN tokens : ~Expired(tokens[k])}
  /\ \A k \in DOMAIN Swept : Swept[k] = tokens[k]
  BY DEF Swept, Restrict

(* Eviction takes refs away and changes none.                               *)
LEMMA EvictionOnlyTakes ==
  ASSUME NEW R, NEW o
  PROVE  LET E == EvictGlobal(EvictOwner(R, o))
         IN  DOMAIN E \subseteq DOMAIN R /\ \A r \in DOMAIN E : E[r] = R[r]
<1>1. \A S, cap, Q : Fitting(Q, S, cap) \subseteq S
  BY DEF Fitting
<1> DEFINE Q == EvictOwner(R, o)
<1>2. DOMAIN Q \subseteq DOMAIN R /\ \A r \in DOMAIN Q : Q[r] = R[r]
  <2>1. (DOMAIN R \ Of(R, o)) \cup Fitting(R, Of(R, o), MaxOwnerBytes) \subseteq DOMAIN R
    BY <1>1 DEF Of
  <2>2. QED
    BY <2>1 DEF EvictOwner, Restrict
<1>3. DOMAIN EvictGlobal(Q) \subseteq DOMAIN Q /\ \A r \in DOMAIN EvictGlobal(Q) : EvictGlobal(Q)[r] = Q[r]
  <2> HIDE DEF Q
  <2>1. Fitting(Q, DOMAIN Q, MaxStoreBytes) \subseteq DOMAIN Q
    BY <1>1
  <2>2. QED
    BY <2>1 DEF EvictGlobal, Restrict
<1>4. QED
  BY <1>2, <1>3

(* A ref whose token was swept, by a step at one moment, is still attended:   *)
(* the token was too old, or as idle as the ref at least.                   *)
LEMMA SweepAttends ==
  ASSUME Constants, IInv, NEW r \in DOMAIN refs, refs[r].token \notin DOMAIN Swept
  PROVE  TooOld(mintedAt[refs[r].token]) \/ Idle(refs[r])
<1> DEFINE k == refs[r].token
<1>1. Attended(r)
  BY DEF IInv
<1>2. CASE k \notin DOMAIN tokens
  BY <1>1, <1>2 DEF Attended
<1>3. CASE k \in DOMAIN tokens
  <2>1. Expired(tokens[k])
    BY <1>3, SweptKeeps
  <2>2. tokens[k].created = mintedAt[k]
    BY <1>3 DEF IInv, Dated
  <2>3. tokens[k] \in TokenRecords /\ refs[r] \in RefRecords /\ now \in Nat
    BY <1>3 DEF IInv, TypeOK
  <2>4. tokens[k].used >= refs[r].used
    BY <1>1, <1>3 DEF Attended
  <2>5. QED
    BY <2>1, <2>2, <2>3, <2>4 DEF Expired, Idle, TooOld, TokenRecords, RefRecords, Constants, SnapshotStoreAssumption
<1>4. QED
  BY <1>2, <1>3

(* Nothing is there at first.                                               *)
LEMMA InitIInv == Constants /\ Init => IInv
<1> SUFFICES ASSUME Constants, Init PROVE IInv
  OBVIOUS
<1>1. DOMAIN Empty = {}
  BY DEF Empty
<1>2. IsFiniteSet({})
  BY FS_EmptySet
<1>3. QED
  BY <1>1, <1>2 DEF Init, IInv, TypeOK, Dated

(* What a step that sweeps, and touches at most a token that survives, leaves *)
(* of the tokens.                                                           *)
Survive ==
  /\ DOMAIN tokens' = DOMAIN Swept
  /\ \A j \in DOMAIN tokens' : /\ tokens'[j] \in TokenRecords
                               /\ tokens'[j].created = tokens[j].created
                               /\ tokens[j].used <= tokens'[j].used /\ tokens'[j].used <= now

LEMMA SweepSurvives == ASSUME Constants, IInv, tokens' = Swept PROVE Survive
<1>1. \A j \in DOMAIN Swept : tokens[j] \in TokenRecords /\ tokens[j].used <= now
  BY SweptKeeps DEF IInv, TypeOK, Dated
<1>2. QED
  BY <1>1, SweptKeeps DEF Survive, TokenRecords

(* To touch a record is to change when it was used.                         *)
LEMMA TouchedRecord ==
  ASSUME NEW t \in TokenRecords, NEW n \in Nat
  PROVE  LET u == [t EXCEPT !.used = n]
         IN  u \in TokenRecords /\ u.created = t.created /\ u.used = n
  BY DEF TokenRecords

LEMMA TouchSurvives ==
  ASSUME Constants, IInv, NEW k, tokens' = Touched(Swept, k)
  PROVE  Survive /\ (k \in DOMAIN tokens' => tokens'[k].used = now)
<1>1. \A j \in DOMAIN Swept : tokens[j] \in TokenRecords /\ tokens[j].used <= now /\ Swept[j] = tokens[j]
  BY SweptKeeps DEF IInv, TypeOK, Dated
<1>2. now \in Nat
  BY DEF IInv, TypeOK
<1>3. DOMAIN tokens' = DOMAIN Swept
  BY DEF Touched
<1>4. ASSUME NEW j \in DOMAIN Swept, j # k
      PROVE  tokens'[j] = tokens[j]
  BY <1>1, <1>4 DEF Touched
<1>5. ASSUME k \in DOMAIN Swept
      PROVE  tokens'[k] \in TokenRecords /\ tokens'[k].created = tokens[k].created /\ tokens'[k].used = now
  <2>1. tokens'[k] = [Swept[k] EXCEPT !.used = now]
    BY <1>5 DEF Touched
  <2>2. Swept[k] \in TokenRecords /\ Swept[k] = tokens[k]
    BY <1>1, <1>5
  <2>3. QED
    BY <2>1, <2>2, <1>2, TouchedRecord
<1>6. ASSUME NEW j \in DOMAIN Swept
      PROVE  /\ tokens'[j] \in TokenRecords /\ tokens'[j].created = tokens[j].created
             /\ tokens[j].used <= tokens'[j].used /\ tokens'[j].used <= now
  <2>1. CASE j = k
    BY <1>1, <1>2, <1>5, <2>1
  <2>2. CASE j # k
    <3>1. tokens'[j] = tokens[j] /\ tokens[j] \in TokenRecords
      BY <1>1, <1>4, <2>2
    <3>2. tokens[j].used \in Nat
      BY <3>1 DEF TokenRecords
    <3>3. QED
      BY <3>1, <3>2, <1>1
  <2>3. QED
    BY <2>1, <2>2
<1>7. QED
  BY <1>3, <1>5, <1>6 DEF Survive

(* A step at one moment that mints nothing, after which the tokens survived    *)
(* and every ref is one of before, used by now and, if used by this step,      *)
(* with its token touched, keeps the invariant.                             *)
LEMMA StepKeeps ==
  ASSUME Constants, IInv, Survive, now' = now, mintedAt' = mintedAt,
         uploads' \in Nat, uploads <= uploads', reading' \subseteq DOMAIN mintedAt,
         \A r \in DOMAIN refs' :
           \/ r \in DOMAIN refs /\ refs'[r] = refs[r]
           \/ /\ r \in 1..uploads' /\ refs'[r] \in RefRecords /\ refs'[r].used = now
              /\ refs'[r].token \in DOMAIN mintedAt
              /\ IF refs'[r].token \in DOMAIN tokens' THEN tokens'[refs'[r].token].used = now
                 ELSE TooOld(mintedAt[refs'[r].token])
  PROVE  IInv'
<1>1. /\ now \in Nat /\ uploads \in Nat /\ DOMAIN tokens \subseteq DOMAIN mintedAt
      /\ DOMAIN refs \subseteq 1..uploads /\ \A r \in DOMAIN refs : refs[r] \in RefRecords
  BY DEF IInv, TypeOK
<1>2. DOMAIN tokens' \subseteq DOMAIN tokens
  BY SweptKeeps DEF Survive
<1>3. TypeOK'
  <2>1. DOMAIN refs' \subseteq 1..uploads' /\ \A r \in DOMAIN refs' : refs'[r] \in RefRecords
    BY <1>1
  <2>2. DOMAIN tokens' \subseteq DOMAIN mintedAt' /\ \A k \in DOMAIN tokens' : tokens'[k] \in TokenRecords
    BY <1>1, <1>2 DEF Survive
  <2>3. QED
    BY <2>1, <2>2 DEF IInv, TypeOK, TokenRecords, RefRecords
<1>4. Dated' /\ IsFiniteSet(DOMAIN mintedAt')
  BY <1>2 DEF Dated, Survive, IInv
<1>5. ASSUME NEW r \in DOMAIN refs' PROVE Attended(r)'
  <2> DEFINE k == refs'[r].token
  <2>1. CASE r \in DOMAIN refs /\ refs'[r] = refs[r]
    <3>1. Attended(r) /\ refs[r].used \in Nat /\ k = refs[r].token
      BY <1>1, <2>1 DEF IInv, RefRecords
    <3>2. ASSUME k \in DOMAIN tokens' PROVE tokens'[k].used >= refs'[r].used
      <4>1. k \in DOMAIN tokens /\ tokens[k] \in TokenRecords /\ tokens'[k] \in TokenRecords
        BY <1>2, <3>2 DEF IInv, TypeOK, Survive
      <4>2. tokens[k].used \in Nat /\ tokens'[k].used \in Nat
        BY <4>1 DEF TokenRecords
      <4>3. tokens[k].used >= refs[r].used /\ tokens[k].used <= tokens'[k].used
        BY <3>1, <3>2, <4>1 DEF Attended, Survive
      <4>4. QED
        BY <2>1, <3>1, <4>2, <4>3
    <3>3. ASSUME k \notin DOMAIN tokens' PROVE TooOld(mintedAt[k]) \/ Idle(refs[r])
      BY <2>1, <3>1, <3>3, SweepAttends DEF Survive
    <3>4. QED
      BY <2>1, <3>1, <3>2, <3>3 DEF Attended, TooOld, Idle
  <2>2. CASE /\ refs'[r].used = now /\ k \in DOMAIN mintedAt
             /\ IF k \in DOMAIN tokens' THEN tokens'[k].used = now ELSE TooOld(mintedAt[k])
    BY <1>1, <2>2 DEF Attended, TooOld
  <2>3. QED
    BY <2>1, <2>2
<1>6. QED
  BY <1>3, <1>4, <1>5 DEF IInv

LEMMA MintKeeps == ASSUME Constants, IInv, NEW o \in Owners, Mint(o) PROVE IInv'
<1> DEFINE k == Cardinality(DOMAIN mintedAt) + 1
           t == [owner |-> o, created |-> now, used |-> now]
<1>1. /\ now \in Nat /\ DOMAIN tokens \subseteq DOMAIN mintedAt
      /\ \A j \in DOMAIN tokens : tokens[j] \in TokenRecords
      /\ \A j \in DOMAIN mintedAt : mintedAt[j] \in 0..now
  BY DEF IInv, TypeOK
<1>2. k \in Nat \ {0}
  <2>1. Cardinality(DOMAIN mintedAt) \in Nat
    BY FS_CardinalityType DEF IInv
  <2>2. QED
    BY <2>1
<1> HIDE DEF k
<1>3. /\ now' = now /\ refs' = refs /\ reading' = reading /\ uploads' = uploads
      /\ tokens' = Put(Swept, k, t) /\ mintedAt' = Put(mintedAt, k, now)
  BY DEF Mint, k
<1>4. /\ DOMAIN mintedAt' = DOMAIN mintedAt \cup {k} /\ mintedAt'[k] = now
      /\ \A j \in DOMAIN mintedAt \ {k} : mintedAt'[j] = mintedAt[j]
  BY <1>3 DEF Put
<1>5. /\ DOMAIN tokens' = DOMAIN Swept \cup {k} /\ tokens'[k] = t
      /\ \A j \in DOMAIN Swept \ {k} : tokens'[j] = tokens[j]
  BY <1>3, SweptKeeps DEF Put
<1>6. DOMAIN Swept \subseteq DOMAIN tokens
  BY SweptKeeps
<1>7. t \in TokenRecords /\ t.created = now /\ t.used = now
  BY <1>1 DEF TokenRecords
<1> HIDE DEF t
<1>8. TypeOK'
  <2>1. DOMAIN mintedAt' \subseteq Nat \ {0} /\ \A j \in DOMAIN mintedAt' : mintedAt'[j] \in 0..now'
    <3>1. DOMAIN mintedAt \subseteq Nat \ {0}
      BY DEF IInv, TypeOK
    <3>2. QED
      BY <3>1, <1>1, <1>2, <1>3, <1>4
  <2>2. DOMAIN tokens' \subseteq DOMAIN mintedAt' /\ \A j \in DOMAIN tokens' : tokens'[j] \in TokenRecords
    BY <1>1, <1>4, <1>5, <1>6, <1>7
  <2>3. reading' \subseteq DOMAIN mintedAt'
    BY <1>3, <1>4 DEF IInv, TypeOK
  <2>4. QED
    BY <2>1, <2>2, <2>3, <1>3 DEF IInv, TypeOK, TokenRecords, RefRecords
<1>9. Dated'
  <2>1. ASSUME NEW j \in DOMAIN tokens' PROVE tokens'[j].created = mintedAt'[j] /\ tokens'[j].used <= now'
    <3>1. CASE j = k
      BY <1>1, <1>3, <1>4, <1>5, <1>7, <3>1
    <3>2. CASE j # k
      <4>1. j \in DOMAIN Swept /\ j \in DOMAIN tokens /\ j \in DOMAIN mintedAt
        BY <1>1, <1>5, <1>6, <3>2, <2>1
      <4>2. tokens'[j] = tokens[j] /\ mintedAt'[j] = mintedAt[j]
        BY <1>4, <1>5, <3>2, <4>1
      <4>3. QED
        BY <1>3, <4>1, <4>2 DEF IInv, Dated
    <3>3. QED
      BY <3>1, <3>2
  <2>2. QED
    BY <2>1 DEF Dated
<1>10. IsFiniteSet(DOMAIN mintedAt')
  BY <1>4, FS_AddElement DEF IInv
<1>11. ASSUME NEW r \in DOMAIN refs' PROVE Attended(r)'
  <2> DEFINE j == refs[r].token
  <2>1. r \in DOMAIN refs /\ Attended(r) /\ refs[r] \in RefRecords /\ refs[r].used \in Nat
    BY <1>3, <1>11 DEF IInv, TypeOK, RefRecords
  <2>2. j \in DOMAIN mintedAt /\ j \in DOMAIN mintedAt' /\ refs[r].used <= now
    BY <2>1, <1>4 DEF Attended
  <2>3. CASE j = k
    BY <1>3, <1>5, <1>7, <2>1, <2>2, <2>3, <1>1 DEF Attended
  <2>4. CASE j # k
    <3>1. mintedAt'[j] = mintedAt[j] /\ (j \in DOMAIN tokens' <=> j \in DOMAIN Swept)
      BY <1>4, <1>5, <2>2, <2>4
    <3>2. ASSUME j \in DOMAIN tokens' PROVE tokens'[j].used >= refs[r].used
      <4>1. j \in DOMAIN Swept /\ tokens'[j] = tokens[j] /\ j \in DOMAIN tokens
        BY <1>5, <1>6, <2>4, <3>1, <3>2
      <4>2. QED
        BY <4>1, <2>1 DEF Attended
    <3>3. ASSUME j \notin DOMAIN tokens' PROVE TooOld(mintedAt[j]) \/ Idle(refs[r])
      BY <2>1, <3>1, <3>3, SweepAttends
    <3>4. QED
      BY <1>3, <2>2, <3>1, <3>2, <3>3 DEF Attended, TooOld, Idle
  <2>5. QED
    BY <2>3, <2>4
<1>12. QED
  BY <1>8, <1>9, <1>10, <1>11 DEF IInv

LEMMA GateKeeps == ASSUME Constants, IInv, NEW k \in DOMAIN mintedAt, Gate(k) PROVE IInv'
<1>1. /\ tokens' = Swept /\ now' = now /\ refs' = refs /\ mintedAt' = mintedAt /\ uploads' = uploads
      /\ reading' \subseteq DOMAIN mintedAt
  BY DEF Gate, IInv, TypeOK
<1>2. uploads \in Nat
  BY DEF IInv, TypeOK
<1>3. QED
  BY <1>1, <1>2, SweepSurvives, StepKeeps

LEMMA UploadKeeps == ASSUME Constants, IInv, NEW k \in DOMAIN mintedAt, Upload(k) PROVE IInv'
<1>1. now' = now /\ mintedAt' = mintedAt /\ reading' \subseteq DOMAIN mintedAt /\ now \in Nat /\ uploads \in Nat
  BY DEF Upload, IInv, TypeOK
<1>2. CASE tokens' = Swept /\ UNCHANGED <<refs, uploads>>
  BY <1>1, <1>2, SweepSurvives, StepKeeps
<1>3. ASSUME k \in DOMAIN Swept, NEW n \in Sizes, Accept(k, n) PROVE IInv'
  <2> DEFINE o == Swept[k].owner
             new == [owner |-> o, token |-> k, bytes |-> n + Overhead, created |-> now, used |-> now]
             R == Put(refs, uploads + 1, new)
  <2>1. /\ tokens' = Touched(Swept, k) /\ uploads' = uploads + 1
        /\ refs' = EvictGlobal(EvictOwner(R, o))
    BY <1>3 DEF Accept
  <2>2. Swept[k] \in TokenRecords
    BY <1>3, SweptKeeps DEF IInv, TypeOK
  <2>3. new \in RefRecords /\ new.used = now /\ new.token = k
    <3>1. k \in Nat /\ o \in Owners /\ n + Overhead \in Nat
      BY <2>2 DEF IInv, TypeOK, TokenRecords, Constants, SnapshotStoreAssumption
    <3> HIDE DEF o
    <3>2. QED
      BY <3>1, <1>1 DEF RefRecords
  <2> HIDE DEF new, o
  <2>4. Survive /\ tokens'[k].used = now /\ k \in DOMAIN tokens'
    BY <2>1, <1>3, TouchSurvives DEF Survive
  <2>5. DOMAIN R = DOMAIN refs \cup {uploads + 1} /\ R[uploads + 1] = new
    BY DEF Put
  <2>6. \A r \in DOMAIN refs : r # uploads + 1 => R[r] = refs[r]
    BY DEF Put
  <2> HIDE DEF R
  <2>7. ASSUME NEW r \in DOMAIN refs'
        PROVE  \/ r \in DOMAIN refs /\ refs'[r] = refs[r]
               \/ r = uploads + 1 /\ refs'[r] = new
    <3>1. r \in DOMAIN R /\ refs'[r] = R[r]
      BY <2>1, <2>7, EvictionOnlyTakes
    <3>2. QED
      BY <3>1, <2>5, <2>6
  <2>8. \A r \in DOMAIN refs' :
           \/ r \in DOMAIN refs /\ refs'[r] = refs[r]
           \/ /\ r \in 1..uploads' /\ refs'[r] \in RefRecords /\ refs'[r].used = now
              /\ refs'[r].token \in DOMAIN mintedAt
              /\ IF refs'[r].token \in DOMAIN tokens' THEN tokens'[refs'[r].token].used = now
                 ELSE TooOld(mintedAt[refs'[r].token])
    BY <1>1, <2>1, <2>3, <2>4, <2>7
  <2>9. uploads' \in Nat /\ uploads <= uploads'
    BY <1>1, <2>1
  <2>10. QED
    BY <1>1, <2>4, <2>8, <2>9, StepKeeps
<1>4. QED
  BY <1>2, <1>3 DEF Upload

LEMMA ResolveKeeps == ASSUME Constants, IInv, NEW r \in 1..uploads, NEW o \in Owners, Resolve(r, o) PROVE IInv'
<1>1. /\ now' = now /\ mintedAt' = mintedAt /\ reading' \subseteq DOMAIN mintedAt
      /\ now \in Nat /\ uploads \in Nat /\ uploads' = uploads
  BY DEF Resolve, IInv, TypeOK
<1>2. CASE tokens' = Swept /\ UNCHANGED refs
  BY <1>1, <1>2, SweepSurvives, StepKeeps
<1>3. CASE tokens' = Swept /\ refs' = Restrict(refs, DOMAIN refs \ {r})
  <2>1. \A q \in DOMAIN refs' : q \in DOMAIN refs /\ refs'[q] = refs[q]
    BY <1>3 DEF Restrict
  <2>2. QED
    BY <1>1, <1>3, <2>1, SweepSurvives, StepKeeps
<1>4. CASE /\ r \in DOMAIN refs /\ ~Expired(refs[r]) /\ tokens' = Session(refs[r].token)
           /\ refs' = [refs EXCEPT ![r].used = now]
  <2> DEFINE k == refs[r].token
  <2>1. tokens' = Touched(Swept, k)
    BY <1>4 DEF Session
  <2>2. Survive /\ (k \in DOMAIN tokens' => tokens'[k].used = now)
    BY <2>1, TouchSurvives
  <2>3. refs[r] \in RefRecords /\ k \in DOMAIN mintedAt
    BY <1>4 DEF IInv, TypeOK, Attended
  <2>4. k \notin DOMAIN tokens' => TooOld(mintedAt[k])
    BY <1>4, <2>2, SweepAttends DEF Survive, Expired
  <2>5. refs'[r] = [refs[r] EXCEPT !.used = now] /\ \A q \in DOMAIN refs \ {r} : refs'[q] = refs[q]
    BY <1>4
  <2>6. refs'[r] \in RefRecords /\ refs'[r].used = now /\ refs'[r].token = k
    BY <1>1, <2>3, <2>5 DEF RefRecords
  <2>7. DOMAIN refs' = DOMAIN refs
    BY <1>4
  <2> HIDE DEF k
  <2>8. \A q \in DOMAIN refs' :
           \/ q \in DOMAIN refs /\ refs'[q] = refs[q]
           \/ /\ q \in 1..uploads' /\ refs'[q] \in RefRecords /\ refs'[q].used = now
              /\ refs'[q].token \in DOMAIN mintedAt
              /\ IF refs'[q].token \in DOMAIN tokens' THEN tokens'[refs'[q].token].used = now
                 ELSE TooOld(mintedAt[refs'[q].token])
    BY <1>1, <2>2, <2>3, <2>4, <2>5, <2>6, <2>7
  <2>9. QED
    BY <1>1, <2>2, <2>8, StepKeeps
<1>5. QED
  BY <1>2, <1>3, <1>4 DEF Resolve

(* Time makes nothing younger.                                              *)
LEMMA TickKeeps == ASSUME Constants, IInv, Tick PROVE IInv'
<1>1. /\ now \in Nat /\ now' = now + 1 /\ UNCHANGED <<tokens, refs, reading, mintedAt, uploads>>
  BY DEF Tick, IInv, TypeOK
<1>2. TypeOK'
  BY <1>1 DEF IInv, TypeOK, TokenRecords, RefRecords
<1>3. Dated' /\ IsFiniteSet(DOMAIN mintedAt')
  <2>1. \A k \in DOMAIN tokens : tokens[k].used \in Nat
    BY DEF IInv, TypeOK, TokenRecords
  <2>2. QED
    BY <1>1, <2>1 DEF IInv, Dated
<1>4. ASSUME NEW r \in DOMAIN refs' PROVE Attended(r)'
  <2>1. Attended(r) /\ refs[r].used \in Nat /\ mintedAt[refs[r].token] \in Nat
    BY <1>1 DEF IInv, TypeOK, RefRecords, Attended
  <2>2. QED
    BY <1>1, <2>1 DEF Attended, TooOld, Idle, Constants, SnapshotStoreAssumption
<1>5. QED
  BY <1>2, <1>3, <1>4 DEF IInv

LEMMA NextKeeps == ASSUME Constants, IInv, [Next]_vars PROVE IInv'
<1>1. CASE UNCHANGED vars
  BY <1>1 DEF vars, IInv, TypeOK, Dated, Attended, TooOld, Idle, TokenRecords, RefRecords
<1>2. QED
  BY <1>1, MintKeeps, GateKeeps, UploadKeeps, ResolveKeeps, TickKeeps DEF Next

LEMMA SpecIInv == ASSUME Constants PROVE Spec => []IInv
  BY InitIInv, NextKeeps, PTL DEF Spec

(* Tokens, refs and the counters keep their shape; only minted tokens and     *)
(* refs that were made are kept.                                            *)
THEOREM SnapshotStoreTypeOK == ASSUME Constants PROVE Spec => []TypeOK
<1>1. IInv => TypeOK
  BY DEF IInv
<1>2. QED
  BY <1>1, SpecIInv, PTL

(* dom-snapshot-store.ts keeps its sessions open, whatever the times and the   *)
(* budgets: as long as a ref can be resolved, its token admits uploads, but    *)
(* for the hard cap.                                                        *)
THEOREM SessionsStayOpen == ASSUME Constants PROVE Spec => []SessionOutlivesRefs
<1>1. ASSUME IInv PROVE SessionOutlivesRefs
  <2> SUFFICES ASSUME NEW r \in DOMAIN refs, ~Expired(refs[r]), ~TooOld(mintedAt[refs[r].token])
               PROVE  refs[r].token \in DOMAIN tokens /\ ~Idle(tokens[refs[r].token])
    BY DEF SessionOutlivesRefs
  <2> DEFINE k == refs[r].token
  <2>1. Attended(r) /\ refs[r] \in RefRecords /\ now \in Nat
    BY <1>1 DEF IInv, TypeOK
  <2>2. k \in DOMAIN tokens /\ tokens[k].used >= refs[r].used
    BY <2>1 DEF Attended, Expired
  <2>3. tokens[k] \in TokenRecords
    BY <1>1, <2>2 DEF IInv, TypeOK
  <2>4. QED
    BY <2>1, <2>2, <2>3 DEF Expired, Idle, TokenRecords, RefRecords, Constants, SnapshotStoreAssumption
<1>2. QED
  BY <1>1, SpecIInv, PTL

--------------------------------------------------------------------------------
(* Every inhabited set of naturals has a least one.                       *)
LEMMA LeastNatural ==
  ASSUME NEW T \in SUBSET Nat, T # {}
  PROVE  \E n \in T : \A m \in T : n <= m
<1>1. PICK n \in T : \A m \in T : ~ (<<m, n>> \in OpToRel(<, Nat))
  BY NatLessThanWellFounded, WFMin
<1>2. ASSUME NEW m \in T PROVE n <= m
  <2>1. m \in Nat /\ n \in Nat /\ ~ (m < n)
    BY <1>1 DEF OpToRel
  <2>2. QED
    BY <2>1
<1>3. QED
  BY <1>2

(* A bounded one has a greatest one.                                        *)
LEMMA GreatestNatural ==
  ASSUME NEW B \in Nat, NEW T \in SUBSET (0..B), T # {}
  PROVE  \E n \in T : \A m \in T : m <= n
<1>1. {B - t : t \in T} \in SUBSET Nat /\ {B - t : t \in T} # {}
  <2>1. \A t \in 0..B : B - t \in Nat
    OBVIOUS
  <2>2. \A t \in T : B - t \in Nat
    BY <2>1
  <2>3. QED
    BY <2>2
<1>2. PICK d \in {B - t : t \in T} : \A e \in {B - t : t \in T} : d <= e
  BY <1>1, LeastNatural
<1>3. PICK n \in T : d = B - n
  BY <1>2
<1>4. ASSUME NEW m \in T PROVE m <= n
  <2>1. B - n <= B - m
    BY <1>2, <1>3
  <2>2. m \in Nat /\ n \in Nat
    OBVIOUS
  <2>3. QED
    BY <2>1, <2>2
<1>5. QED
  BY <1>4

--------------------------------------------------------------------------------
(* Refs that were made and used by some moment.                             *)
RefMap(R, B) ==
  /\ B \in Nat /\ DOMAIN R \subseteq 0..B
  /\ \A r \in DOMAIN R : R[r].used \in 0..B /\ R[r].bytes \in Nat
BytesOf(R, S) == UNION {{r} \X (1..R[r].bytes) : r \in S}

(* The interval up to n has n members.                                      *)
LEMMA UpTo == ASSUME NEW n \in Nat PROVE IsFiniteSet(1..n) /\ Cardinality(1..n) = n
  BY FS_Interval

(* The bytes of a set of refs are finitely many, and its weight.            *)
LEMMA BytesFinite ==
  ASSUME NEW R, NEW B, RefMap(R, B), NEW S \in SUBSET DOMAIN R
  PROVE  IsFiniteSet(BytesOf(R, S)) /\ Weight(R, S) = Cardinality(BytesOf(R, S)) /\ Weight(R, S) \in Nat
<1> DEFINE f == [r \in S |-> {r} \X (1..R[r].bytes)]
           U == {{r} \X (1..R[r].bytes) : r \in S}
<1>1. IsFiniteSet(S)
  <2>1. IsFiniteSet(0..B)
    BY FS_Interval DEF RefMap
  <2>2. S \in SUBSET (0..B)
    BY DEF RefMap
  <2>3. QED
    BY <2>1, <2>2, FS_Subset
<1>2. f \in Surjection(S, U)
  BY DEF Surjection
<1>3. IsFiniteSet(U)
  BY <1>1, <1>2, FS_Surjection
<1>4. ASSUME NEW r \in S PROVE IsFiniteSet({r} \X (1..R[r].bytes))
  <2>1. R[r].bytes \in Nat
    BY DEF RefMap
  <2>2. IsFiniteSet(1..R[r].bytes)
    BY <2>1, UpTo
  <2>3. IsFiniteSet({r})
    BY FS_Singleton
  <2>4. QED
    BY <2>2, <2>3, FS_Product
<1>5. \A T \in U : IsFiniteSet(T)
  BY <1>4
<1>6. IsFiniteSet(UNION U)
  BY <1>3, <1>5, FS_UNION
<1>7. Weight(R, S) = Cardinality(BytesOf(R, S)) /\ BytesOf(R, S) = UNION U
  BY DEF Weight, BytesOf
<1>8. QED
  BY <1>6, <1>7, FS_CardinalityType

(* More refs, of the same bytes, weigh no less.                             *)
LEMMA WeightMonotone ==
  ASSUME NEW P, NEW R, NEW A, NEW B, RefMap(P, A), RefMap(R, B), NEW S \in SUBSET DOMAIN P, NEW T \in SUBSET DOMAIN R,
         \A r \in S : r \in T /\ P[r].bytes = R[r].bytes
  PROVE  Weight(P, S) <= Weight(R, T)
<1>1. BytesOf(P, S) \subseteq BytesOf(R, T)
  BY DEF BytesOf
<1>2. QED
  BY <1>1, BytesFinite, FS_Subset

(* One ref more weighs its bytes more.                                      *)
LEMMA WeightOfOneMore ==
  ASSUME NEW R, NEW B, RefMap(R, B), NEW S \in SUBSET DOMAIN R, NEW r \in DOMAIN R \ S
  PROVE  Weight(R, S \cup {r}) = Weight(R, S) + R[r].bytes
<1> DEFINE mine == {r} \X (1..R[r].bytes)
<1>1. R[r].bytes \in Nat
  BY DEF RefMap
<1>2. IsFiniteSet(1..R[r].bytes) /\ Cardinality(1..R[r].bytes) = R[r].bytes
  BY <1>1, UpTo
<1>3. IsFiniteSet({r}) /\ Cardinality({r}) = 1
  BY FS_Singleton
<1>4. IsFiniteSet(mine) /\ Cardinality(mine) = 1 * R[r].bytes
  BY <1>2, <1>3, FS_Product
<1>5. BytesOf(R, S \cup {r}) = BytesOf(R, S) \cup mine /\ BytesOf(R, S) \cap mine = {}
  BY DEF BytesOf
<1>6. Cardinality(BytesOf(R, S) \cup mine) = Cardinality(BytesOf(R, S)) + Cardinality(mine) - Cardinality({})
  <2>1. IsFiniteSet(BytesOf(R, S))
    BY BytesFinite
  <2> HIDE DEF mine
  <2>2. QED
    BY <1>4, <1>5, <2>1, FS_Union
<1>7. Cardinality({}) = 0 /\ Weight(R, S) = Cardinality(BytesOf(R, S)) /\ Weight(R, S) \in Nat
  BY BytesFinite, FS_EmptySet
<1>8. Weight(R, S \cup {r}) = Cardinality(BytesOf(R, S \cup {r}))
  BY BytesFinite
<1>9. Cardinality(mine) = R[r].bytes
  BY <1>1, <1>4
<1> HIDE DEF mine
<1>10. QED
  <2> DEFINE w == Weight(R, S)
             v == Weight(R, S \cup {r})
             b == R[r].bytes
  <2>1. v = w + b - 0
    BY <1>5, <1>6, <1>7, <1>8, <1>9
  <2>2. w \in Nat /\ b \in Nat
    BY <1>1, <1>7
  <2> HIDE DEF w, v, b
  <2>3. v = w + b
    BY <2>1, <2>2
  <2>4. QED
    BY <2>3 DEF w, v, b

(* The order in which refs leave is total.                                  *)
LEMMA OlderIsTotal ==
  ASSUME NEW R, NEW B, RefMap(R, B), NEW q \in DOMAIN R, NEW r \in DOMAIN R
  PROVE  /\ q # r => Older(R, q, r) \/ Older(R, r, q)
         /\ ~(Older(R, q, r) /\ Older(R, r, q)) /\ ~Older(R, r, r)
         /\ \A t \in DOMAIN R : Older(R, q, r) /\ ~Older(R, t, r) => ~Older(R, t, q)
<1>1. \A t \in DOMAIN R : t \in Nat /\ R[t].used \in Nat
  BY DEF RefMap
<1>2. QED
  BY <1>1 DEF Older

(* Of some refs one leaves first, and one leaves last.                       *)
LEMMA OldestExists ==
  ASSUME NEW R, NEW B, RefMap(R, B), NEW S \in SUBSET DOMAIN R, S # {}
  PROVE  \E m \in S : \A t \in S : ~Older(R, t, m)
<1>0. \A t \in S : t \in Nat /\ R[t].used \in Nat
  BY DEF RefMap
<1>1. {R[s].used : s \in S} \in SUBSET Nat /\ {R[s].used : s \in S} # {}
  BY <1>0
<1>2. PICK a \in {R[s].used : s \in S} : \A b \in {R[s].used : s \in S} : a <= b
  BY <1>1, LeastNatural
<1>3. {s \in S : R[s].used = a} \in SUBSET Nat /\ {s \in S : R[s].used = a} # {}
  BY <1>0, <1>2
<1>4. PICK m \in {s \in S : R[s].used = a} : \A j \in {s \in S : R[s].used = a} : m <= j
  BY <1>3, LeastNatural
<1>5. ASSUME NEW t \in S PROVE ~Older(R, t, m)
  <2>1. a <= R[t].used /\ (R[t].used = a => m <= t)
    BY <1>2, <1>4
  <2>2. QED
    BY <1>0, <1>4, <2>1 DEF Older
<1>6. QED
  BY <1>4, <1>5

LEMMA YoungestExists ==
  ASSUME NEW R, NEW B, RefMap(R, B), NEW S \in SUBSET DOMAIN R, S # {}
  PROVE  \E m \in S : \A t \in S : ~Older(R, m, t)
<1>0. B \in Nat /\ \A t \in S : t \in 0..B /\ R[t].used \in 0..B
  BY DEF RefMap
<1>1. {R[s].used : s \in S} \in SUBSET (0..B) /\ {R[s].used : s \in S} # {}
  BY <1>0
<1>2. PICK a \in {R[s].used : s \in S} : \A b \in {R[s].used : s \in S} : b <= a
  BY <1>0, <1>1, GreatestNatural
<1>3. {s \in S : R[s].used = a} \in SUBSET (0..B) /\ {s \in S : R[s].used = a} # {}
  BY <1>0, <1>2
<1>4. PICK m \in {s \in S : R[s].used = a} : \A j \in {s \in S : R[s].used = a} : j <= m
  BY <1>0, <1>3, GreatestNatural
<1>5. ASSUME NEW t \in S PROVE ~Older(R, m, t)
  <2>1. R[t].used <= a /\ (R[t].used = a => t <= m)
    BY <1>2, <1>4
  <2>2. QED
    BY <1>0, <1>4, <2>1 DEF Older
<1>6. QED
  BY <1>4, <1>5

--------------------------------------------------------------------------------
(* Whoever was used later than one that stays, stays.                       *)
LEMMA YoungerStays ==
  ASSUME NEW R, NEW B, RefMap(R, B), NEW S \in SUBSET DOMAIN R, NEW cap \in Nat,
         NEW r \in Fitting(R, S, cap), NEW q \in S, ~Older(R, q, r)
  PROVE  q \in Fitting(R, S, cap)
<1>1. r \in S /\ Weight(R, {t \in S : ~Older(R, t, r)}) <= cap
  BY DEF Fitting
<1>2. \A t \in S : ~Older(R, t, q) => ~Older(R, t, r)
  <2>1. CASE q = r
    BY <2>1
  <2>2. CASE q # r
    <3>1. Older(R, r, q)
      BY <1>1, <2>2, OlderIsTotal
    <3>2. \A t \in DOMAIN R : Older(R, t, r) => Older(R, t, q)
      <4>1. \A t \in DOMAIN R : t \in Nat /\ R[t].used \in Nat
        BY DEF RefMap
      <4>2. QED
        BY <1>1, <3>1, <4>1 DEF Older
    <3>3. QED
      BY <3>2
  <2>3. QED
    BY <2>1, <2>2
<1>3. Weight(R, {t \in S : ~Older(R, t, q)}) <= Weight(R, {t \in S : ~Older(R, t, r)})
  BY <1>2, WeightMonotone
<1>4. /\ Weight(R, {t \in S : ~Older(R, t, q)}) \in Nat
      /\ Weight(R, {t \in S : ~Older(R, t, r)}) \in Nat
  BY BytesFinite
<1>5. QED
  BY <1>1, <1>3, <1>4 DEF Fitting

(* What an eviction leaves is within the budget.                            *)
LEMMA WhatStaysFits ==
  ASSUME NEW R, NEW B, RefMap(R, B), NEW S \in SUBSET DOMAIN R, NEW cap \in Nat
  PROVE  Fitting(R, S, cap) \in SUBSET S /\ Weight(R, Fitting(R, S, cap)) <= cap
<1> DEFINE F == Fitting(R, S, cap)
<1>1. F \in SUBSET S
  BY DEF Fitting
<1>2. CASE F = {}
  <2>1. BytesOf(R, F) = {}
    BY <1>2 DEF BytesOf
  <2>2. Weight(R, F) = 0
    BY <1>1, <2>1, BytesFinite, FS_EmptySet
  <2>3. QED
    BY <1>1, <2>2
<1>3. CASE F # {}
  <2>1. PICK m \in F : \A t \in F : ~Older(R, t, m)
    BY <1>1, <1>3, OldestExists
  <2>2. Weight(R, {t \in S : ~Older(R, t, m)}) <= cap
    BY DEF Fitting
  <2>3. Weight(R, F) <= Weight(R, {t \in S : ~Older(R, t, m)})
    BY <1>1, <2>1, WeightMonotone
  <2>4. Weight(R, F) \in Nat /\ Weight(R, {t \in S : ~Older(R, t, m)}) \in Nat
    BY <1>1, BytesFinite
  <2>5. QED
    BY <1>1, <2>2, <2>3, <2>4
<1>4. QED
  BY <1>2, <1>3

(* With the last one that left it was not.                                  *)
LEMMA LastOneDidNotFit ==
  ASSUME NEW R, NEW B, RefMap(R, B), NEW S \in SUBSET DOMAIN R, NEW cap \in Nat, S # Fitting(R, S, cap)
  PROVE  \E r \in S \ Fitting(R, S, cap) : Weight(R, Fitting(R, S, cap)) + R[r].bytes > cap
<1> DEFINE F == Fitting(R, S, cap)
<1>1. F \in SUBSET S
  BY DEF Fitting
<1>2. PICK r \in S \ F : \A t \in S \ F : ~Older(R, r, t)
  <2>1. S \ F \in SUBSET DOMAIN R /\ S \ F # {}
    BY <1>1
  <2> HIDE DEF F
  <2>2. QED
    BY <2>1, YoungestExists
<1>3. {t \in S : ~Older(R, t, r)} = F \cup {r}
  <2>1. \A t \in F : ~Older(R, t, r)
    <3> SUFFICES ASSUME NEW t \in F, Older(R, t, r) PROVE FALSE
      OBVIOUS
    <3>1. ~Older(R, r, t)
      BY <1>1, OlderIsTotal
    <3>2. QED
      BY <1>2, <3>1, YoungerStays DEF Fitting, Older, RefMap
  <2>2. \A t \in S \ F : t # r => Older(R, t, r)
    BY <1>2, OlderIsTotal
  <2>3. ~Older(R, r, r)
    BY OlderIsTotal
  <2>4. QED
    BY <1>1, <1>2, <2>1, <2>2, <2>3
<1>4. Weight(R, F \cup {r}) = Weight(R, F) + R[r].bytes
  BY <1>1, <1>2, WeightOfOneMore
<1>5. ~(Weight(R, {t \in S : ~Older(R, t, r)}) <= cap)
  BY <1>2 DEF Fitting
<1>6. Weight(R, F) \in Nat /\ R[r].bytes \in Nat
  BY <1>1, BytesFinite DEF RefMap
<1>7. ~(Weight(R, F) + R[r].bytes <= cap)
  BY <1>3, <1>4, <1>5
<1> HIDE DEF F
<1>8. Weight(R, F) + R[r].bytes > cap
  BY <1>6, <1>7
<1>9. QED
  BY <1>2, <1>8 DEF F

--------------------------------------------------------------------------------
(* The weight of a set of refs, and which of two is older, read no ref that   *)
(* is not of the set.                                                       *)
LEMMA PartOf ==
  ASSUME NEW R, NEW B, RefMap(R, B), NEW Q, DOMAIN Q \subseteq DOMAIN R, \A r \in DOMAIN Q : Q[r] = R[r]
  PROVE  /\ RefMap(Q, B)
         /\ \A S \in SUBSET DOMAIN Q : Weight(Q, S) = Weight(R, S)
         /\ \A q, r \in DOMAIN Q : Older(Q, q, r) <=> Older(R, q, r)
<1>1. RefMap(Q, B)
  BY DEF RefMap
<1>2. ASSUME NEW S \in SUBSET DOMAIN Q PROVE Weight(Q, S) = Weight(R, S)
  <2>1. {{r} \X (1..Q[r].bytes) : r \in S} = {{r} \X (1..R[r].bytes) : r \in S}
    OBVIOUS
  <2>2. QED
    BY <2>1 DEF Weight
<1>3. \A q, r \in DOMAIN Q : Older(Q, q, r) <=> Older(R, q, r)
  BY DEF Older
<1>4. QED
  BY <1>1, <1>2, <1>3

(* Whatever was used last stays, if it fits alone.                          *)
LEMMA LastStays ==
  ASSUME NEW R, NEW B, RefMap(R, B), NEW S \in SUBSET DOMAIN R, NEW cap \in Nat,
         NEW n \in S, R[n].bytes <= cap, \A q \in S \ {n} : Older(R, q, n)
  PROVE  n \in Fitting(R, S, cap)
<1>1. {q \in S : ~Older(R, q, n)} = {} \cup {n}
  <2>1. ~Older(R, n, n)
    BY OlderIsTotal
  <2>2. QED
    BY <2>1
<1>2. Weight(R, {} \cup {n}) = Weight(R, {}) + R[n].bytes
  BY WeightOfOneMore
<1>3. BytesOf(R, {}) = {}
  BY DEF BytesOf
<1>4. Weight(R, {}) = 0
  BY <1>3, BytesFinite, FS_EmptySet
<1>5. R[n].bytes \in Nat
  BY DEF RefMap
<1>6. Weight(R, {} \cup {n}) <= cap
  BY <1>2, <1>4, <1>5
<1>7. QED
  BY <1>1, <1>6 DEF Fitting

(* The two evictions that follow an upload, taken together.                 *)
LEMMA OnlyForRoom ==
  ASSUME Constants, NEW R, NEW B, RefMap(R, B), NEW o, NEW n \in Of(R, o), R[n].bytes <= MaxOwnerBytes,
         \A q \in DOMAIN R \ {n} : Older(R, q, n)
  PROVE  LET E == EvictGlobal(EvictOwner(R, o))
             gone == DOMAIN R \ DOMAIN E
         IN  /\ n \in DOMAIN E /\ DOMAIN E \subseteq DOMAIN R /\ \A r \in DOMAIN E : E[r] = R[r]
             /\ Weight(E, DOMAIN E) <= MaxStoreBytes /\ Weight(E, Of(E, o)) <= MaxOwnerBytes
             /\ gone # {} =>
                  \/ \E r \in gone : Weight(E, DOMAIN E) + R[r].bytes > MaxStoreBytes
                  \/ /\ \E r \in gone : R[r].owner = o /\ Weight(E, Of(E, o)) + R[r].bytes > MaxOwnerBytes
                     /\ \A r \in gone : R[r].owner = o
             /\ \A r \in gone, q \in DOMAIN E : R[q].owner = R[r].owner => Older(R, r, q)
<1> DEFINE F1 == Fitting(R, Of(R, o), MaxOwnerBytes)
           Q == EvictOwner(R, o)
           F2 == Fitting(Q, DOMAIN Q, MaxStoreBytes)
           E == EvictGlobal(Q)
           gone == DOMAIN R \ DOMAIN E
<1>0. MaxOwnerBytes \in Nat /\ MaxStoreBytes \in Nat /\ MaxOwnerBytes <= MaxStoreBytes /\ R[n].bytes \in Nat
  BY DEF Constants, SnapshotStoreAssumption, RefMap, Of
<1>1. Of(R, o) \in SUBSET DOMAIN R /\ F1 \in SUBSET Of(R, o) /\ F2 \in SUBSET DOMAIN Q
  BY DEF Of, Fitting
<1>2. DOMAIN Q = (DOMAIN R \ Of(R, o)) \cup F1 /\ \A r \in DOMAIN Q : Q[r] = R[r]
  BY <1>1 DEF EvictOwner, Restrict
<1>3. DOMAIN Q \subseteq DOMAIN R
  BY <1>1, <1>2
<1>4. DOMAIN E = F2 /\ \A r \in DOMAIN E : E[r] = Q[r] /\ E[r] = R[r]
  <2> HIDE DEF Q
  <2>1. QED
    BY <1>1, <1>2 DEF EvictGlobal, Restrict
<1>5. n \in F1
  BY <1>0, <1>1, LastStays
<1> HIDE DEF F1, Q
<1>6. /\ RefMap(Q, B)
      /\ \A S \in SUBSET DOMAIN Q : Weight(Q, S) = Weight(R, S)
      /\ \A q, r \in DOMAIN Q : Older(Q, q, r) <=> Older(R, q, r)
  BY <1>2, <1>3, PartOf
<1>7. n \in F2
  <2>1. n \in DOMAIN Q /\ Q[n].bytes <= MaxStoreBytes /\ \A q \in DOMAIN Q \ {n} : Older(Q, q, n)
    BY <1>0, <1>2, <1>3, <1>5, <1>6
  <2>2. QED
    BY <1>0, <1>6, <2>1, LastStays
<1> HIDE DEF F2, E
<1>8. /\ RefMap(E, B)
      /\ \A S \in SUBSET DOMAIN E : Weight(E, S) = Weight(Q, S)
  BY <1>1, <1>4, <1>6, PartOf
<1>9. Weight(E, DOMAIN E) = Weight(Q, F2) /\ Weight(Q, F2) <= MaxStoreBytes
  <2>1. Weight(Q, F2) <= MaxStoreBytes
    BY <1>0, <1>6, WhatStaysFits DEF F2
  <2>2. QED
    BY <1>4, <1>8, <2>1
<1>10. Of(E, o) \in SUBSET F1 /\ Of(E, o) \in SUBSET DOMAIN E
  BY <1>1, <1>2, <1>4 DEF Of
<1>11. Weight(E, Of(E, o)) <= MaxOwnerBytes
  <2>1. Weight(R, F1) <= MaxOwnerBytes
    BY <1>0, <1>1, WhatStaysFits DEF F1
  <2>2. Weight(E, Of(E, o)) <= Weight(R, F1)
    BY <1>1, <1>4, <1>8, <1>10, WeightMonotone
  <2>3. Weight(R, F1) \in Nat /\ Weight(E, Of(E, o)) \in Nat
    BY <1>1, <1>8, <1>10, BytesFinite
  <2>4. QED
    BY <1>0, <2>1, <2>2, <2>3
<1>12. ASSUME gone # {}
       PROVE  \/ \E r \in gone : Weight(E, DOMAIN E) + R[r].bytes > MaxStoreBytes
              \/ /\ \E r \in gone : R[r].owner = o /\ Weight(E, Of(E, o)) + R[r].bytes > MaxOwnerBytes
                 /\ \A r \in gone : R[r].owner = o
  <2>1. CASE DOMAIN Q # F2
    <3>1. PICK r \in DOMAIN Q \ F2 : Weight(Q, F2) + Q[r].bytes > MaxStoreBytes
      BY <1>0, <1>6, <2>1, LastOneDidNotFit DEF F2
    <3>2. r \in gone /\ Q[r] = R[r]
      BY <1>2, <1>3, <1>4, <3>1
    <3>3. QED
      BY <1>9, <3>1, <3>2
  <2>2. CASE DOMAIN Q = F2
    <3>1. Of(R, o) # F1 /\ \A r \in gone : R[r].owner = o
      BY <1>2, <1>4, <1>12, <2>2 DEF Of
    <3>2. PICK r \in Of(R, o) \ F1 : Weight(R, F1) + R[r].bytes > MaxOwnerBytes
      BY <1>0, <1>1, <3>1, LastOneDidNotFit DEF F1
    <3>3. r \in gone /\ R[r].owner = o
      BY <1>1, <1>2, <1>4, <2>2, <3>2 DEF Of
    <3>4. Of(E, o) = F1
      BY <1>1, <1>2, <1>4, <2>2 DEF Of
    <3>5. Weight(E, Of(E, o)) = Weight(R, F1)
      BY <1>2, <1>4, <1>6, <1>8, <1>10, <2>2, <3>4
    <3>6. QED
      BY <3>1, <3>2, <3>3, <3>5
  <2>3. QED
    BY <2>1, <2>2
<1>13. ASSUME NEW r \in gone, NEW q \in DOMAIN E, R[q].owner = R[r].owner, ~Older(R, r, q) PROVE FALSE
  <2>1. CASE r \in DOMAIN Q
    <3>1. r \notin F2 /\ q \in F2 /\ q \in DOMAIN Q
      BY <1>1, <1>4, <1>13
    <3>2. ~Older(Q, r, q)
      BY <1>6, <1>13, <2>1, <3>1
    <3>3. QED
      BY <1>0, <1>6, <2>1, <3>1, <3>2, YoungerStays DEF F2
  <2>2. CASE r \notin DOMAIN Q
    <3>1. r \in Of(R, o) /\ r \notin F1
      BY <1>2, <2>2
    <3>2. q \in Of(R, o) /\ q \in F1
      BY <1>1, <1>2, <1>3, <1>4, <1>13, <3>1 DEF Of
    <3>3. QED
      BY <1>0, <1>1, <1>13, <3>1, <3>2, YoungerStays DEF F1
  <2>3. QED
    BY <2>1, <2>2
<1>14. QED
  BY <1>1, <1>3, <1>4, <1>7, <1>9, <1>11, <1>12, <1>13 DEF Q, E

(* A step that makes no ref, and drops none but expired ones, loses none.    *)
LEMMA NothingLost ==
  ASSUME IInv, uploads' = uploads, \A r \in DOMAIN refs \ DOMAIN refs' : Expired(refs[r])
  PROVE  Pressed
<1>1. uploads \in Nat
  BY DEF IInv, TypeOK
<1>2. ~(uploads' > uploads)
  BY <1>1
<1>3. {r \in DOMAIN refs \ DOMAIN refs' : ~Expired(refs[r])} = {}
  OBVIOUS
<1>4. QED
  BY <1>2, <1>3 DEF Pressed

(* An upload that is kept loses what it must.                               *)
LEMMA AcceptPressed ==
  ASSUME Constants, IInv, NEW k \in DOMAIN Swept, NEW n \in Sizes, Accept(k, n) PROVE Pressed
<1> DEFINE o == Swept[k].owner
           new == uploads + 1
           rec == [owner |-> o, token |-> k, bytes |-> n + Overhead, created |-> now, used |-> now]
           R == Put(refs, new, rec)
           E == EvictGlobal(EvictOwner(R, o))
<1>1. uploads' = new /\ refs' = E
  BY DEF Accept
<1>2. now \in Nat /\ uploads \in Nat /\ n + Overhead \in Nat /\ n + Overhead <= MaxOwnerBytes
  BY DEF IInv, TypeOK, Constants, SnapshotStoreAssumption
<1>3. rec.owner = o /\ rec.bytes = n + Overhead /\ rec.used = now
  OBVIOUS
<1>4. /\ DOMAIN refs \subseteq 1..uploads
      /\ \A r \in DOMAIN refs : refs[r].used \in Nat /\ refs[r].used <= now /\ refs[r].bytes \in Nat
  BY DEF IInv, TypeOK, RefRecords, Attended
<1>5. DOMAIN R = DOMAIN refs \cup {new} /\ R[new] = rec
  BY DEF Put
<1>6. \A r \in DOMAIN refs : r # new /\ R[r] = refs[r]
  BY <1>2, <1>4 DEF Put
<1> HIDE DEF rec, R, o
<1>7. RefMap(R, now + uploads + 1)
  <2>1. ASSUME NEW r \in DOMAIN R
        PROVE  r \in 0..(now + uploads + 1) /\ R[r].used \in 0..(now + uploads + 1) /\ R[r].bytes \in Nat
    <3>1. CASE r = new
      BY <1>2, <1>3, <1>5, <3>1
    <3>2. CASE r \in DOMAIN refs
      BY <1>2, <1>4, <1>6, <3>2
    <3>3. QED
      BY <1>5, <3>1, <3>2
  <2>2. QED
    BY <1>2, <2>1 DEF RefMap
<1>8. new \in Of(R, o) /\ R[new].bytes <= MaxOwnerBytes
  BY <1>2, <1>3, <1>5 DEF Of
<1>9. \A q \in DOMAIN R \ {new} : Older(R, q, new)
  BY <1>2, <1>3, <1>4, <1>5, <1>6 DEF Older
<1>10. LET gone == DOMAIN R \ DOMAIN E
       IN  /\ new \in DOMAIN E /\ DOMAIN E \subseteq DOMAIN R /\ \A r \in DOMAIN E : E[r] = R[r]
           /\ Weight(E, DOMAIN E) <= MaxStoreBytes /\ Weight(E, Of(E, o)) <= MaxOwnerBytes
           /\ gone # {} =>
                \/ \E r \in gone : Weight(E, DOMAIN E) + R[r].bytes > MaxStoreBytes
                \/ /\ \E r \in gone : R[r].owner = o /\ Weight(E, Of(E, o)) + R[r].bytes > MaxOwnerBytes
                   /\ \A r \in gone : R[r].owner = o
           /\ \A r \in gone, q \in DOMAIN E : R[q].owner = R[r].owner => Older(R, r, q)
  <2> HIDE DEF new
  <2>1. QED
    BY <1>7, <1>8, <1>9, OnlyForRoom
<1> HIDE DEF E
<1>11. DOMAIN R \ DOMAIN E = DOMAIN refs \ DOMAIN refs' /\ refs'[new].owner = o
  BY <1>1, <1>3, <1>5, <1>10
<1>12. \A r \in DOMAIN refs \ DOMAIN refs' : R[r] = refs[r]
  BY <1>6
<1>13. \A r \in DOMAIN refs, q \in DOMAIN E \ {new} : Older(R, r, q) <=> Older(refs, r, q)
  BY <1>5, <1>6, <1>10 DEF Older
<1>14. uploads' > uploads
  BY <1>1, <1>2
<1> HIDE DEF new
<1>15. /\ uploads' \in DOMAIN refs'
       /\ Weight(refs', DOMAIN refs') <= MaxStoreBytes
       /\ Weight(refs', Of(refs', refs'[uploads'].owner)) <= MaxOwnerBytes
  BY <1>1, <1>10, <1>11
<1>16. \A r \in DOMAIN refs \ DOMAIN refs', q \in DOMAIN refs' :
          refs'[q].owner = refs[r].owner => q = uploads' \/ Older(refs, r, q)
  BY <1>1, <1>10, <1>11, <1>12, <1>13
<1>17. DOMAIN refs \ DOMAIN refs' # {} =>
          \/ \E r \in DOMAIN refs \ DOMAIN refs' : Weight(refs', DOMAIN refs') + refs[r].bytes > MaxStoreBytes
          \/ /\ \E r \in DOMAIN refs \ DOMAIN refs' :
                  refs[r].owner = o /\ Weight(refs', Of(refs', o)) + refs[r].bytes > MaxOwnerBytes
             /\ \A r \in DOMAIN refs \ DOMAIN refs' : refs[r].owner = o
  BY <1>1, <1>10, <1>11, <1>12
<1>18. QED
  BY <1>1, <1>11, <1>14, <1>15, <1>16, <1>17 DEF Pressed

(* dom-snapshot-store.ts, evictOwner and evictGlobal: whatever the budgets and *)
(* the sizes, only a full owner or a full store costs a ref that could still  *)
(* be resolved, the least recently used first, and never the one just made.   *)
THEOREM OnlyPressureAlwaysEvicts == ASSUME Constants PROVE Spec => OnlyPressureEvicts
<1>1. ASSUME Constants, IInv, [Next]_vars PROVE UNCHANGED vars \/ Pressed
  <2>1. ASSUME NEW o \in Owners, Mint(o) PROVE Pressed
    BY <1>1, <2>1, NothingLost DEF Mint
  <2>2. ASSUME NEW k \in DOMAIN mintedAt, Gate(k) PROVE Pressed
    BY <1>1, <2>2, NothingLost DEF Gate
  <2>3. ASSUME NEW k \in DOMAIN mintedAt, Upload(k) PROVE Pressed
    BY <1>1, <2>3, NothingLost, AcceptPressed DEF Upload
  <2>4. ASSUME NEW r \in 1..uploads, NEW o \in Owners, Resolve(r, o) PROVE Pressed
    BY <1>1, <2>4, NothingLost DEF Resolve, Restrict
  <2>5. ASSUME Tick PROVE Pressed
    BY <1>1, <2>5, NothingLost DEF Tick
  <2>6. QED
    BY <1>1, <2>1, <2>2, <2>3, <2>4, <2>5 DEF Next
<1>2. QED
  BY <1>1, SpecIInv, PTL DEF Spec, OnlyPressureEvicts

--------------------------------------------------------------------------------
(* The read caches and their budget.                                        *)

(* The bytes of some entries, one by one.                                   *)
Octets(f, T) == UNION {{t} \X (1..f[t].bytes) : t \in T}
Sized(f, T) == IsFiniteSet(T) /\ \A t \in T : f[t].bytes \in Nat

LEMMA SizeFinite ==
  ASSUME NEW f, NEW T, Sized(f, T)
  PROVE  IsFiniteSet(Octets(f, T)) /\ SizeOf(f, T) = Cardinality(Octets(f, T)) /\ SizeOf(f, T) \in Nat
<1> DEFINE g == [t \in T |-> {t} \X (1..f[t].bytes)]
           U == {{t} \X (1..f[t].bytes) : t \in T}
<1>1. g \in Surjection(T, U)
  BY DEF Surjection
<1>2. IsFiniteSet(U)
  BY <1>1, FS_Surjection DEF Sized
<1>3. ASSUME NEW t \in T PROVE IsFiniteSet({t} \X (1..f[t].bytes))
  <2>1. IsFiniteSet(1..f[t].bytes)
    BY UpTo DEF Sized
  <2>2. QED
    BY <2>1, FS_Singleton, FS_Product
<1>4. IsFiniteSet(UNION U)
  BY <1>2, <1>3, FS_UNION
<1>5. SizeOf(f, T) = Cardinality(Octets(f, T)) /\ Octets(f, T) = UNION U
  BY DEF SizeOf, Octets
<1>6. QED
  BY <1>4, <1>5, FS_CardinalityType

LEMMA SizeMonotone ==
  ASSUME NEW f, NEW g, NEW S, NEW T, Sized(f, S), Sized(g, T), \A t \in S : t \in T /\ f[t].bytes = g[t].bytes
  PROVE  SizeOf(f, S) <= SizeOf(g, T)
<1>1. Octets(f, S) \subseteq Octets(g, T)
  BY DEF Octets
<1>2. QED
  BY <1>1, SizeFinite, FS_Subset

LEMMA SizeSame ==
  ASSUME NEW f, NEW g, NEW T, Sized(f, T), Sized(g, T), \A t \in T : f[t].bytes = g[t].bytes
  PROVE  SizeOf(f, T) = SizeOf(g, T)
<1>1. SizeOf(f, T) <= SizeOf(g, T) /\ SizeOf(g, T) <= SizeOf(f, T) /\ SizeOf(f, T) \in Nat /\ SizeOf(g, T) \in Nat
  BY SizeMonotone, SizeFinite
<1>2. QED
  BY <1>1

LEMMA SizeSplit ==
  ASSUME NEW f, NEW S, NEW T, Sized(f, S), Sized(f, T), S \cap T = {}
  PROVE  SizeOf(f, S \cup T) = SizeOf(f, S) + SizeOf(f, T)
<1>1. Sized(f, S \cup T)
  BY FS_Union DEF Sized
<1>2. Octets(f, S \cup T) = Octets(f, S) \cup Octets(f, T) /\ Octets(f, S) \cap Octets(f, T) = {}
  BY DEF Octets
<1> DEFINE a == Octets(f, S)
           b == Octets(f, T)
<1>3. IsFiniteSet(a) /\ IsFiniteSet(b)
  BY SizeFinite
<1>4. SizeOf(f, S \cup T) = Cardinality(a \cup b) /\ SizeOf(f, S) = Cardinality(a) /\ SizeOf(f, T) = Cardinality(b)
  BY <1>1, <1>2, SizeFinite
<1>5. a \cap b = {}
  BY <1>2
<1> HIDE DEF a, b
<1>6. Cardinality(a \cup b) = Cardinality(a) + Cardinality(b) - Cardinality(a \cap b)
  BY <1>3, FS_Union
<1>7. Cardinality(a) \in Nat /\ Cardinality(b) \in Nat /\ Cardinality({}) = 0
  BY <1>3, FS_CardinalityType, FS_EmptySet
<1>8. Cardinality(a \cup b) = Cardinality(a) + Cardinality(b)
  <2> DEFINE x == Cardinality(a)
             y == Cardinality(b)
             z == Cardinality(a \cup b)
  <2>1. z = x + y - 0 /\ x \in Nat /\ y \in Nat
    BY <1>5, <1>6, <1>7
  <2> HIDE DEF x, y, z
  <2>2. z = x + y
    BY <2>1
  <2>3. QED
    BY <2>2 DEF x, y, z
<1>9. QED
  BY <1>4, <1>8

LEMMA SizeOfOne ==
  ASSUME NEW f, NEW t, f[t].bytes \in Nat
  PROVE  Sized(f, {t}) /\ SizeOf(f, {t}) = f[t].bytes
<1> DEFINE n == f[t].bytes
<1>1. IsFiniteSet({t}) /\ Cardinality({t}) = 1
  BY FS_Singleton
<1>2. IsFiniteSet(1..n) /\ Cardinality(1..n) = n
  BY UpTo
<1>3. Octets(f, {t}) = {t} \X (1..n)
  BY DEF Octets
<1>4. Sized(f, {t})
  BY <1>1 DEF Sized
<1>5. SizeOf(f, {t}) = Cardinality({t} \X (1..n))
  BY <1>3, <1>4, SizeFinite
<1>6. n \in Nat
  OBVIOUS
<1>7. Cardinality({t} \X (1..n)) = 1 * n
  <2>1. Cardinality({t} \X (1..n)) = Cardinality({t}) * Cardinality(1..n)
    BY <1>1, <1>2, FS_Product
  <2>2. QED
    BY <1>1, <1>2, <2>1
<1> HIDE DEF n
<1>8. 1 * n = n
  BY <1>6
<1>9. SizeOf(f, {t}) = n
  BY <1>5, <1>7, <1>8
<1>10. QED
  BY <1>4, <1>9 DEF n

--------------------------------------------------------------------------------
(* An order of recency: total, and of each entry the set before it.         *)
Ordered(f) ==
  \A x \in DOMAIN f :
    /\ f[x].older \subseteq DOMAIN f \ {x}
    /\ \A y \in DOMAIN f : x = y \/ x \in f[y].older \/ y \in f[x].older
    /\ \A y \in f[x].older : f[y].older \subseteq f[x].older

LEMMA OrderedCut ==
  ASSUME NEW f, NEW g, NEW K, Ordered(f), DOMAIN g = DOMAIN f \ K,
         \A x \in DOMAIN g : g[x].older = f[x].older \ K
  PROVE  Ordered(g)
BY DEF Ordered

LEMMA OrderedLast ==
  ASSUME NEW f, NEW g, NEW x, Ordered(f), DOMAIN g = DOMAIN f \cup {x}, g[x].older = DOMAIN f \ {x},
         \A y \in DOMAIN f \ {x} : g[y].older = f[y].older \ {x}
  PROVE  Ordered(g)
<1> SUFFICES ASSUME NEW y \in DOMAIN g
             PROVE  /\ g[y].older \subseteq DOMAIN g \ {y}
                    /\ \A z \in DOMAIN g : y = z \/ y \in g[z].older \/ z \in g[y].older
                    /\ \A z \in g[y].older : g[z].older \subseteq g[y].older
  BY DEF Ordered
<1>1. CASE y = x
  BY <1>1 DEF Ordered
<1>2. CASE y # x
  BY <1>2 DEF Ordered
<1>3. QED
  BY <1>1, <1>2

(* Of a finite set of entries, one has none of them before it.              *)
LEMMA Eldest ==
  ASSUME NEW f, Ordered(f), IsFiniteSet(DOMAIN f), NEW T \in SUBSET DOMAIN f, T # {}
  PROVE  \E x \in T : f[x].older \cap T = {}
<1> DEFINE N == {Cardinality(f[x].older) : x \in T}
<1>1. \A x \in DOMAIN f : IsFiniteSet(f[x].older) /\ Cardinality(f[x].older) \in Nat
  BY FS_Subset, FS_CardinalityType DEF Ordered
<1>2. N \in SUBSET Nat /\ N # {}
  BY <1>1
<1>3. PICK n \in N : \A m \in N : n <= m
  <2> HIDE DEF N
  <2>1. QED
    BY <1>2, LeastNatural
<1>4. PICK x \in T : n = Cardinality(f[x].older)
  OBVIOUS
<1>5. ASSUME NEW y \in f[x].older \cap T PROVE FALSE
  <2>1. f[y].older \subseteq f[x].older /\ y \notin f[y].older /\ y \in f[x].older
    BY DEF Ordered
  <2>2. f[y].older # f[x].older
    BY <2>1
  <2>3. Cardinality(f[y].older) < Cardinality(f[x].older)
    BY <1>1, <2>1, <2>2, FS_Subset
  <2>4. Cardinality(f[x].older) <= Cardinality(f[y].older)
    BY <1>3, <1>4
  <2>5. Cardinality(f[x].older) \in Nat /\ Cardinality(f[y].older) \in Nat
    BY <1>1
  <2>6. QED
    BY <2>3, <2>4, <2>5
<1>6. QED
  BY <1>5

--------------------------------------------------------------------------------
(* The entries of the two Maps, and what a Map becomes when entries leave it  *)
(* and when one is put at its end.                                          *)
CacheEntries == [token : Tokens \cup {NoToken}, stale : BOOLEAN, older : SUBSET Keys]
BudgetEntries == [bytes : Nat, cache : Caches, key : Keys, older : SUBSET Tokens]
IsCache(f) ==
  /\ DOMAIN f \subseteq Keys /\ f = [k \in DOMAIN f |-> f[k]]
  /\ \A k \in DOMAIN f : f[k] \in CacheEntries
  /\ Ordered(f)
IsBudget(f) ==
  /\ DOMAIN f \subseteq Tokens /\ f = [t \in DOMAIN f |-> f[t]]
  /\ \A t \in DOMAIN f : f[t] \in BudgetEntries
  /\ Ordered(f)

Same(r, s) == r.bytes = s.bytes /\ r.cache = s.cache /\ r.key = s.key
CacheLess(f, g, K) ==
  /\ IsCache(g) /\ DOMAIN g = DOMAIN f \ K
  /\ \A k \in DOMAIN g : g[k].token = f[k].token /\ g[k].older = f[k].older \ K
CacheMore(f, g, k, t) ==
  /\ IsCache(g) /\ DOMAIN g = DOMAIN f \cup {k} /\ g[k].token = t /\ g[k].older = DOMAIN f \ {k}
  /\ \A j \in DOMAIN f \ {k} : g[j].token = f[j].token /\ g[j].older = f[j].older \ {k}
BudgetLess(f, g, T) ==
  /\ IsBudget(g) /\ DOMAIN g = DOMAIN f \ T
  /\ \A t \in DOMAIN g : Same(g[t], f[t]) /\ g[t].older = f[t].older \ T
BudgetMore(f, g, t, x) ==
  /\ IsBudget(g) /\ DOMAIN g = DOMAIN f \cup {t} /\ Same(g[t], x) /\ g[t].older = DOMAIN f \ {t}
  /\ \A u \in DOMAIN f \ {t} : Same(g[u], f[u]) /\ g[u].older = f[u].older \ {t}

LEMMA CacheEntryMoved ==
  ASSUME NEW r \in CacheEntries, NEW O \in SUBSET Keys
  PROVE  LET u == [r EXCEPT !.older = O]
         IN  u \in CacheEntries /\ u.token = r.token /\ u.stale = r.stale /\ u.older = O
BY DEF CacheEntries

LEMMA BudgetEntryMoved ==
  ASSUME NEW r \in BudgetEntries, NEW O \in SUBSET Tokens
  PROVE  LET u == [r EXCEPT !.older = O]
         IN  u \in BudgetEntries /\ Same(u, r) /\ u.older = O
BY DEF BudgetEntries, Same

LEMMA CacheMinus == ASSUME NEW f, IsCache(f), NEW K PROVE CacheLess(f, Minus(f, K), K)
<1> DEFINE g == Minus(f, K)
<1>1. DOMAIN g = DOMAIN f \ K /\ g = [x \in DOMAIN g |-> g[x]]
  BY DEF Minus
<1>2. ASSUME NEW k \in DOMAIN g
      PROVE  g[k] \in CacheEntries /\ g[k].token = f[k].token /\ g[k].older = f[k].older \ K
  <2>1. k \in DOMAIN f /\ f[k] \in CacheEntries /\ f[k].older \ K \in SUBSET Keys
    BY <1>1 DEF IsCache, CacheEntries
  <2>2. g[k] = [f[k] EXCEPT !.older = f[k].older \ K]
    BY <1>1, <1>2 DEF Minus
  <2> HIDE DEF g
  <2>3. QED
    BY <2>1, <2>2, CacheEntryMoved
<1> HIDE DEF g
<1>3. Ordered(g)
  BY <1>1, <1>2, OrderedCut DEF IsCache
<1>4. CacheLess(f, g, K)
  BY <1>1, <1>2, <1>3 DEF CacheLess, IsCache
<1>5. QED
  BY <1>4 DEF g

LEMMA CacheLast ==
  ASSUME NEW f, IsCache(f), NEW k \in Keys, NEW r \in CacheEntries
  PROVE  CacheMore(f, Last(f, k, r), k, r.token)
<1> DEFINE g == Last(f, k, r)
<1>1. DOMAIN g = DOMAIN f \cup {k} /\ g = [x \in DOMAIN g |-> g[x]]
  BY DEF Last
<1>2. g[k] \in CacheEntries /\ g[k].token = r.token /\ g[k].older = DOMAIN f \ {k}
  <2>1. g[k] = [r EXCEPT !.older = DOMAIN f \ {k}] /\ DOMAIN f \ {k} \in SUBSET Keys
    BY DEF Last, IsCache
  <2> HIDE DEF g
  <2>2. QED
    BY <2>1, CacheEntryMoved
<1>3. ASSUME NEW j \in DOMAIN f \ {k}
      PROVE  g[j] \in CacheEntries /\ g[j].token = f[j].token /\ g[j].older = f[j].older \ {k}
  <2>1. f[j] \in CacheEntries /\ f[j].older \ {k} \in SUBSET Keys
    BY DEF IsCache, CacheEntries
  <2>2. g[j] = [f[j] EXCEPT !.older = f[j].older \ {k}]
    BY DEF Last
  <2> HIDE DEF g
  <2>3. QED
    BY <2>1, <2>2, CacheEntryMoved
<1> HIDE DEF g
<1>4. Ordered(g)
  BY <1>1, <1>2, <1>3, OrderedLast DEF IsCache
<1>5. CacheMore(f, g, k, r.token)
  BY <1>1, <1>2, <1>3, <1>4 DEF CacheMore, IsCache
<1>6. QED
  BY <1>5 DEF g

LEMMA BudgetMinus == ASSUME NEW f, IsBudget(f), NEW T PROVE BudgetLess(f, Minus(f, T), T)
<1> DEFINE g == Minus(f, T)
<1>1. DOMAIN g = DOMAIN f \ T /\ g = [x \in DOMAIN g |-> g[x]]
  BY DEF Minus
<1>2. ASSUME NEW t \in DOMAIN g
      PROVE  g[t] \in BudgetEntries /\ Same(g[t], f[t]) /\ g[t].older = f[t].older \ T
  <2>1. t \in DOMAIN f /\ f[t] \in BudgetEntries /\ f[t].older \ T \in SUBSET Tokens
    BY <1>1 DEF IsBudget, BudgetEntries
  <2>2. g[t] = [f[t] EXCEPT !.older = f[t].older \ T]
    BY <1>1, <1>2 DEF Minus
  <2> HIDE DEF g
  <2>3. QED
    BY <2>1, <2>2, BudgetEntryMoved
<1> HIDE DEF g
<1>3. Ordered(g)
  BY <1>1, <1>2, OrderedCut DEF IsBudget
<1>4. BudgetLess(f, g, T)
  BY <1>1, <1>2, <1>3 DEF BudgetLess, IsBudget
<1>5. QED
  BY <1>4 DEF g

LEMMA BudgetLast ==
  ASSUME NEW f, IsBudget(f), NEW t \in Tokens, NEW x \in BudgetEntries
  PROVE  BudgetMore(f, Last(f, t, x), t, x)
<1> DEFINE g == Last(f, t, x)
<1>1. DOMAIN g = DOMAIN f \cup {t} /\ g = [u \in DOMAIN g |-> g[u]]
  BY DEF Last
<1>2. g[t] \in BudgetEntries /\ Same(g[t], x) /\ g[t].older = DOMAIN f \ {t}
  <2>1. g[t] = [x EXCEPT !.older = DOMAIN f \ {t}] /\ DOMAIN f \ {t} \in SUBSET Tokens
    BY DEF Last, IsBudget
  <2> HIDE DEF g
  <2>2. QED
    BY <2>1, BudgetEntryMoved
<1>3. ASSUME NEW u \in DOMAIN f \ {t}
      PROVE  g[u] \in BudgetEntries /\ Same(g[u], f[u]) /\ g[u].older = f[u].older \ {t}
  <2>1. f[u] \in BudgetEntries /\ f[u].older \ {t} \in SUBSET Tokens
    BY DEF IsBudget, BudgetEntries
  <2>2. g[u] = [f[u] EXCEPT !.older = f[u].older \ {t}]
    BY DEF Last
  <2> HIDE DEF g
  <2>3. QED
    BY <2>1, <2>2, BudgetEntryMoved
<1> HIDE DEF g
<1>4. Ordered(g)
  BY <1>1, <1>2, <1>3, OrderedLast DEF IsBudget
<1>5. BudgetMore(f, g, t, x)
  BY <1>1, <1>2, <1>3, <1>4 DEF BudgetMore, IsBudget
<1>6. QED
  BY <1>5 DEF g

--------------------------------------------------------------------------------
(* The two Maps in step: the weighted entries of the caches S are those of   *)
(* the budget B, and their order in a cache is their order in the budget.    *)
WeightedIn(f) == {k \in DOMAIN f : f[k].token # NoToken}
Linked(S, B) ==
  /\ \A c \in Caches : \A k \in WeightedIn(S[c]) :
       S[c][k].token \in DOMAIN B /\ B[S[c][k].token].cache = c /\ B[S[c][k].token].key = k
  /\ \A t \in DOMAIN B : /\ B[t].cache \in Caches /\ B[t].key \in DOMAIN S[B[t].cache]
                         /\ S[B[t].cache][B[t].key].token = t
Alike(S, B) ==
  \A c \in Caches : \A k \in WeightedIn(S[c]) : \A j \in S[c][k].older \cap WeightedIn(S[c]) :
    S[c][j].token \in B[S[c][k].token].older
InStep(S, B) ==
  /\ \A c \in Caches : IsCache(S[c])
  /\ IsBudget(B) /\ Linked(S, B) /\ Alike(S, B)

(* Entries leave, from both sides.                                          *)
LEMMA InStepLess ==
  ASSUME NEW S, NEW B, NEW S2, NEW B2, NEW K, NEW T, InStep(S, B), NoToken \notin Tokens,
         \A c \in Caches : CacheLess(S[c], S2[c], K[c]), BudgetLess(B, B2, T),
         \A c \in Caches : \A k \in WeightedIn(S[c]) : k \in K[c] <=> S[c][k].token \in T
  PROVE  InStep(S2, B2)
<1>1. \A c \in Caches : IsCache(S2[c])
  BY DEF CacheLess
<1>2. IsBudget(B2)
  BY DEF BudgetLess
<1>3. ASSUME NEW c \in Caches, NEW k \in WeightedIn(S2[c])
      PROVE  k \in WeightedIn(S[c]) /\ S2[c][k].token = S[c][k].token /\ S[c][k].token \in DOMAIN B2
             /\ S2[c][k].older = S[c][k].older \ K[c]
  <2>1. k \in DOMAIN S[c] \ K[c] /\ S2[c][k].token = S[c][k].token /\ S2[c][k].older = S[c][k].older \ K[c]
    BY DEF CacheLess, WeightedIn
  <2>2. k \in WeightedIn(S[c])
    BY <2>1 DEF WeightedIn
  <2>3. S[c][k].token \in DOMAIN B \ T
    BY <2>1, <2>2 DEF InStep, Linked
  <2>4. QED
    BY <2>1, <2>2, <2>3 DEF BudgetLess
<1>4. \A c \in Caches : \A k \in WeightedIn(S2[c]) :
        S2[c][k].token \in DOMAIN B2 /\ B2[S2[c][k].token].cache = c /\ B2[S2[c][k].token].key = k
  <2> SUFFICES ASSUME NEW c \in Caches, NEW k \in WeightedIn(S2[c])
               PROVE  S2[c][k].token \in DOMAIN B2 /\ B2[S2[c][k].token].cache = c /\ B2[S2[c][k].token].key = k
    OBVIOUS
  <2>1. B[S[c][k].token].cache = c /\ B[S[c][k].token].key = k
    BY <1>3 DEF InStep, Linked
  <2>2. QED
    BY <1>3, <2>1 DEF BudgetLess, Same
<1>5. ASSUME NEW t \in DOMAIN B2
      PROVE  /\ B2[t].cache \in Caches /\ B2[t].key \in DOMAIN S2[B2[t].cache]
             /\ S2[B2[t].cache][B2[t].key].token = t
  <2> DEFINE c == B[t].cache
             k == B[t].key
  <2>1. t \in DOMAIN B \ T /\ B2[t].cache = c /\ B2[t].key = k /\ t # NoToken
    BY DEF BudgetLess, Same, InStep, IsBudget
  <2>2. c \in Caches /\ k \in WeightedIn(S[c]) /\ S[c][k].token = t
    BY <2>1 DEF InStep, Linked, WeightedIn
  <2>3. k \in DOMAIN S[c] \ K[c]
    BY <2>1, <2>2 DEF WeightedIn
  <2>4. QED
    BY <2>1, <2>2, <2>3 DEF CacheLess
<1>6. ASSUME NEW c \in Caches, NEW k \in WeightedIn(S2[c]), NEW j \in S2[c][k].older \cap WeightedIn(S2[c])
      PROVE  S2[c][j].token \in B2[S2[c][k].token].older
  <2>1. S[c][j].token \in B[S[c][k].token].older
    BY <1>3 DEF InStep, Alike
  <2>2. S[c][j].token \in DOMAIN B \ T /\ S[c][k].token \in DOMAIN B2
    BY <1>3 DEF BudgetLess
  <2>3. QED
    BY <1>3, <2>1, <2>2 DEF BudgetLess
<1>7. QED
  BY <1>1, <1>2, <1>4, <1>5, <1>6 DEF InStep, Linked, Alike

(* An entry is put at the end of both: a new one under a fresh token, or one  *)
(* that was there, under its own.                                           *)
LEMMA InStepMore ==
  ASSUME NEW S, NEW B, NEW S2, NEW B2, NEW c \in Caches, NEW k, NEW t, NEW x,
         InStep(S, B), t # NoToken, NoToken \notin Tokens,
         CacheMore(S[c], S2[c], k, t), \A d \in Caches \ {c} : S2[d] = S[d],
         BudgetMore(B, B2, t, x), x.cache = c, x.key = k,
         \/ k \notin DOMAIN S[c] /\ t \notin DOMAIN B
         \/ k \in DOMAIN S[c] /\ S[c][k].token = t
  PROVE  InStep(S2, B2)
<1>1. \A d \in Caches : IsCache(S2[d])
  BY DEF CacheMore, InStep
<1>2. IsBudget(B2)
  BY DEF BudgetMore
<1>3. ASSUME NEW d \in Caches, NEW j \in WeightedIn(S2[d]), ~ (d = c /\ j = k)
      PROVE  j \in WeightedIn(S[d]) /\ S2[d][j].token = S[d][j].token /\ S[d][j].token \in DOMAIN B \ {t}
             /\ S2[d][j].older \subseteq S[d][j].older
             /\ B2[S[d][j].token].cache = d /\ B2[S[d][j].token].key = j
  <2>1. j \in WeightedIn(S[d]) /\ S2[d][j].token = S[d][j].token /\ S2[d][j].older \subseteq S[d][j].older
    BY <1>3 DEF CacheMore, WeightedIn
  <2>2. S[d][j].token \in DOMAIN B /\ B[S[d][j].token].cache = d /\ B[S[d][j].token].key = j
    BY <2>1 DEF InStep, Linked
  <2>3. S[d][j].token # t
    <3>1. CASE t \notin DOMAIN B
      BY <2>2, <3>1
    <3>2. CASE k \in DOMAIN S[c] /\ S[c][k].token = t
      <4>1. k \in WeightedIn(S[c])
        BY <3>2 DEF WeightedIn
      <4>2. B[t].cache = c /\ B[t].key = k
        BY <3>2, <4>1 DEF InStep, Linked
      <4>3. QED
        BY <1>3, <2>2, <4>2
    <3>3. QED
      BY <3>1, <3>2
  <2>4. QED
    BY <2>1, <2>2, <2>3 DEF BudgetMore, Same
<1>4. k \in WeightedIn(S2[c]) /\ S2[c][k].token = t /\ t \in DOMAIN B2 /\ B2[t].cache = c /\ B2[t].key = k
      /\ B2[t].older = DOMAIN B \ {t}
  BY DEF CacheMore, BudgetMore, Same, WeightedIn
<1>5. \A d \in Caches : \A j \in WeightedIn(S2[d]) :
        S2[d][j].token \in DOMAIN B2 /\ B2[S2[d][j].token].cache = d /\ B2[S2[d][j].token].key = j
  BY <1>3, <1>4 DEF BudgetMore
<1>6. ASSUME NEW u \in DOMAIN B2
      PROVE  /\ B2[u].cache \in Caches /\ B2[u].key \in DOMAIN S2[B2[u].cache]
             /\ S2[B2[u].cache][B2[u].key].token = u
  <2>1. CASE u = t
    BY <1>4, <2>1 DEF WeightedIn
  <2>2. CASE u # t
    <3> DEFINE d == B[u].cache
               j == B[u].key
    <3>1. u \in DOMAIN B /\ B2[u].cache = d /\ B2[u].key = j
      BY <2>2 DEF BudgetMore, Same
    <3>2. d \in Caches /\ j \in DOMAIN S[d] /\ S[d][j].token = u
      BY <3>1 DEF InStep, Linked
    <3>3. ~ (d = c /\ j = k)
      BY <2>2, <3>2
    <3>4. j \in DOMAIN S2[d] /\ S2[d][j].token = u
      BY <3>2, <3>3 DEF CacheMore
    <3>5. QED
      BY <3>1, <3>2, <3>4
  <2>3. QED
    BY <2>1, <2>2
<1>7. ASSUME NEW d \in Caches, NEW i \in WeightedIn(S2[d]), NEW j \in S2[d][i].older \cap WeightedIn(S2[d])
      PROVE  S2[d][j].token \in B2[S2[d][i].token].older
  <2>0. ~ (d = c /\ j = k)
    <3>1. CASE d = c /\ i = k
      BY <3>1 DEF CacheMore
    <3>2. CASE d = c /\ i # k
      BY <3>2 DEF CacheMore, WeightedIn
    <3>3. QED
      BY <3>1, <3>2
  <2>1. CASE d = c /\ i = k
    BY <1>3, <1>4, <2>0, <2>1
  <2>2. CASE ~ (d = c /\ i = k)
    <3>1. S[d][j].token \in B[S[d][i].token].older
      BY <1>3, <2>0, <2>2 DEF InStep, Alike
    <3>2. B2[S[d][i].token].older = B[S[d][i].token].older \ {t}
      BY <1>3, <2>2 DEF BudgetMore
    <3>3. QED
      BY <1>3, <2>0, <2>2, <3>1, <3>2
  <2>3. QED
    BY <2>1, <2>2
<1>8. QED
  BY <1>1, <1>2, <1>5, <1>6, <1>7 DEF InStep, Linked, Alike

(* An entry of no weight: the budget does not know it, before or after.      *)
LEMMA InStepUnweighted ==
  ASSUME NEW S, NEW B, NEW S2, NEW c \in Caches, NEW k, InStep(S, B), NoToken \notin Tokens,
         CacheMore(S[c], S2[c], k, NoToken), \A d \in Caches \ {c} : S2[d] = S[d],
         k \in DOMAIN S[c] => S[c][k].token = NoToken
  PROVE  InStep(S2, B)
<1>1. \A d \in Caches : IsCache(S2[d])
  BY DEF CacheMore, InStep
<1>2. ASSUME NEW d \in Caches, NEW j \in WeightedIn(S2[d])
      PROVE  j \in WeightedIn(S[d]) /\ S2[d][j].token = S[d][j].token /\ S2[d][j].older \subseteq S[d][j].older
  <2>1. CASE d = c
    BY <2>1 DEF CacheMore, WeightedIn
  <2>2. CASE d # c
    BY <2>2
  <2>3. QED
    BY <2>1, <2>2
<1>3. \A d \in Caches : \A j \in WeightedIn(S2[d]) :
        S2[d][j].token \in DOMAIN B /\ B[S2[d][j].token].cache = d /\ B[S2[d][j].token].key = j
  BY <1>2 DEF InStep, Linked
<1>4. ASSUME NEW t \in DOMAIN B
      PROVE  B[t].cache \in Caches /\ B[t].key \in DOMAIN S2[B[t].cache] /\ S2[B[t].cache][B[t].key].token = t
  <2>1. B[t].cache \in Caches /\ B[t].key \in DOMAIN S[B[t].cache] /\ S[B[t].cache][B[t].key].token = t /\ t # NoToken
    BY DEF InStep, Linked, IsBudget
  <2>2. QED
    BY <2>1 DEF CacheMore
<1>5. ASSUME NEW d \in Caches, NEW i \in WeightedIn(S2[d]), NEW j \in S2[d][i].older \cap WeightedIn(S2[d])
      PROVE  S2[d][j].token \in B[S2[d][i].token].older
  BY <1>2 DEF InStep, Alike
<1>6. QED
  BY <1>1, <1>3, <1>4, <1>5 DEF InStep, Linked, Alike

--------------------------------------------------------------------------------
(* The budget as a value adds up, and is within its bytes or one entry.      *)
Sums(b) == IsBudget(b.entries) /\ b.total = SizeOf(b.entries, DOMAIN b.entries)
Fits(b) == b.total <= MaxBytes \/ \E t : DOMAIN b.entries = {t}

LEMMA FiniteParts ==
  ASSUME ReadCachesAssumption
  PROVE  /\ \A f : IsBudget(f) => IsFiniteSet(DOMAIN f) /\ \A T \in SUBSET DOMAIN f : Sized(f, T)
         /\ \A f : IsCache(f) => IsFiniteSet(DOMAIN f)
<1>1. IsFiniteSet(Tokens)
  <2>1. Caches \X Keys \X {1, 2} = {<<c, k, n>> : c \in Caches, k \in Keys, n \in {1, 2}}
    OBVIOUS
  <2> DEFINE P == Caches \X Keys
             g == [x \in P \X {1, 2} |-> <<x[1][1], x[1][2], x[2]>>]
  <2>2. IsFiniteSet({1, 2})
    <3>1. IsFiniteSet({1}) /\ IsFiniteSet({2}) /\ {1, 2} = {1} \cup {2}
      BY FS_Singleton
    <3>2. QED
      BY <3>1, FS_Union
  <2>3. IsFiniteSet(P)
    BY FS_Product DEF ReadCachesAssumption
  <2>4. IsFiniteSet(P \X {1, 2})
    <3> HIDE DEF P
    <3>1. QED
      BY <2>2, <2>3, FS_Product
  <2>5. \A t \in Tokens : <<<<t[1], t[2]>>, t[3]>> \in P \X {1, 2} /\ g[<<<<t[1], t[2]>>, t[3]>>] = t
    BY DEF Tokens
  <2>6. \A p \in P \X {1, 2} : g[p] \in Tokens
    BY DEF Tokens
  <2>7. g \in Surjection(P \X {1, 2}, Tokens)
    <3>1. g \in [P \X {1, 2} -> Tokens]
      <4>1. g = [x \in P \X {1, 2} |-> g[x]]
        OBVIOUS
      <4> HIDE DEF g
      <4>2. QED
        BY <2>6, <4>1
    <3> HIDE DEF g, P
    <3>2. QED
      BY <2>5, <3>1 DEF Surjection
  <2>8. QED
    <3> HIDE DEF g, P
    <3>1. QED
      BY <2>4, <2>7, FS_Surjection
<1>2. ASSUME NEW f, IsBudget(f)
      PROVE  IsFiniteSet(DOMAIN f) /\ \A T \in SUBSET DOMAIN f : Sized(f, T)
  <2>1. IsFiniteSet(DOMAIN f) /\ \A T \in SUBSET DOMAIN f : IsFiniteSet(T)
    BY <1>1, <1>2, FS_Subset DEF IsBudget
  <2>2. QED
    BY <1>2, <2>1 DEF IsBudget, Sized, BudgetEntries
<1>3. ASSUME NEW f, IsCache(f) PROVE IsFiniteSet(DOMAIN f)
  BY <1>3, FS_Subset DEF IsCache, ReadCachesAssumption
<1>4. QED
  BY <1>2, <1>3

LEMMA SizeOfNone == ASSUME NEW f PROVE SizeOf(f, {}) = 0
<1>1. UNION {{t} \X (1..f[t].bytes) : t \in {}} = {}
  OBVIOUS
<1>2. QED
  BY <1>1, FS_EmptySet DEF SizeOf

LEMMA ForgetSums ==
  ASSUME ReadCachesAssumption, NEW b, Sums(b), NEW T
  PROVE  LET f == Forget(b, T)
         IN  BudgetLess(b.entries, f.entries, T) /\ Sums(f) /\ (Fits(b) => Fits(f))
<1> DEFINE B == b.entries
           B2 == Minus(B, T)
           D == DOMAIN B
           f == Forget(b, T)
<1>1. f.entries = B2 /\ f.total = b.total - SizeOf(B, T \cap D)
  BY DEF Forget
<1>2. BudgetLess(B, B2, T) /\ IsBudget(B) /\ IsBudget(B2) /\ DOMAIN B2 = D \ T
  BY BudgetMinus DEF Sums, BudgetLess
<1>3. Sized(B, T \cap D) /\ Sized(B, D \ T) /\ Sized(B2, D \ T)
  BY <1>2, FiniteParts
<1>4. SizeOf(B, D) = SizeOf(B, T \cap D) + SizeOf(B, D \ T)
  <2>1. (T \cap D) \cup (D \ T) = D /\ (T \cap D) \cap (D \ T) = {}
    OBVIOUS
  <2> HIDE DEF B, D
  <2>2. QED
    BY <1>3, <2>1, SizeSplit
<1>5. SizeOf(B2, D \ T) = SizeOf(B, D \ T)
  <2>1. \A t \in D \ T : B2[t].bytes = B[t].bytes
    BY <1>2 DEF BudgetLess, Same
  <2> HIDE DEF B, D, B2
  <2>2. QED
    BY <1>3, <2>1, SizeSame
<1>6. SizeOf(B, T \cap D) \in Nat /\ SizeOf(B, D \ T) \in Nat
  <2> HIDE DEF B, D
  <2>1. QED
    BY <1>3, SizeFinite
<1>7. b.total = SizeOf(B, D)
  BY DEF Sums
<1>8. f.total = SizeOf(B, D \ T) /\ f.total <= b.total /\ f.total \in Nat /\ b.total \in Nat
  <2> DEFINE p == SizeOf(B, T \cap D)
             q == SizeOf(B, D \ T)
  <2>1. b.total = p + q /\ f.total = b.total - p /\ p \in Nat /\ q \in Nat
    BY <1>1, <1>4, <1>6, <1>7
  <2> HIDE DEF p, q, f
  <2>2. f.total = q /\ f.total <= b.total /\ b.total \in Nat
    BY <2>1
  <2>3. QED
    BY <2>1, <2>2 DEF p, q
<1>9. Sums(f)
  BY <1>1, <1>2, <1>5, <1>8 DEF Sums
<1>10. ASSUME Fits(b) PROVE Fits(f)
  <2>1. CASE b.total <= MaxBytes
    BY <1>8, <2>1 DEF Fits, ReadCachesAssumption
  <2>2. ASSUME NEW t, D = {t} PROVE Fits(f)
    <3>1. CASE t \in T
      <4>1. D \ T = {}
        BY <2>2, <3>1
      <4>2. f.total = 0
        BY <1>8, <4>1, SizeOfNone
      <4>3. QED
        BY <4>2 DEF Fits, ReadCachesAssumption
    <3>2. CASE t \notin T
      <4>1. DOMAIN f.entries = {t}
        BY <1>1, <1>2, <2>2, <3>2
      <4>2. QED
        BY <4>1 DEF Fits
    <3>3. QED
      BY <3>1, <3>2
  <2>3. QED
    BY <1>10, <2>1, <2>2 DEF Fits
<1>11. QED
  BY <1>1, <1>2, <1>9, <1>10

LEMMA RegisteredSums ==
  ASSUME ReadCachesAssumption, NEW b, Sums(b), NEW t \in Tokens, t \notin DOMAIN b.entries, NEW x \in BudgetEntries
  PROVE  LET r == Registered(b, t, x)
         IN  BudgetMore(b.entries, r.entries, t, x) /\ Sums(r)
<1> DEFINE B == b.entries
           B2 == Last(B, t, x)
           D == DOMAIN B
           r == Registered(b, t, x)
<1>1. r.entries = B2 /\ r.total = b.total + x.bytes
  BY DEF Registered
<1>2. BudgetMore(B, B2, t, x) /\ IsBudget(B) /\ IsBudget(B2) /\ DOMAIN B2 = D \cup {t}
  <2>1. IsBudget(B)
    BY DEF Sums
  <2> HIDE DEF B
  <2>2. BudgetMore(B, B2, t, x)
    BY <2>1, BudgetLast
  <2> HIDE DEF B2
  <2>3. QED
    BY <2>1, <2>2 DEF BudgetMore
<1>3. Sized(B, D) /\ Sized(B2, D) /\ Sized(B2, {t})
  BY <1>2, FiniteParts
<1>4. SizeOf(B2, D \cup {t}) = SizeOf(B2, D) + SizeOf(B2, {t})
  <2>1. D \cap {t} = {}
    OBVIOUS
  <2> HIDE DEF D, B2
  <2>2. QED
    BY <1>3, <2>1, SizeSplit
<1>5. SizeOf(B2, D) = SizeOf(B, D)
  <2>1. \A u \in D : B2[u].bytes = B[u].bytes
    BY <1>2 DEF BudgetMore, Same
  <2> HIDE DEF B, D, B2
  <2>2. QED
    BY <1>3, <2>1, SizeSame
<1>6. SizeOf(B2, {t}) = x.bytes
  <2>1. B2[t].bytes = x.bytes /\ x.bytes \in Nat
    BY <1>2 DEF BudgetMore, Same, BudgetEntries
  <2> HIDE DEF B2
  <2>2. QED
    BY <2>1, SizeOfOne
<1>7. b.total = SizeOf(B, D)
  BY DEF Sums
<1>8. Sums(r)
  BY <1>1, <1>2, <1>4, <1>5, <1>6, <1>7 DEF Sums
<1>9. QED
  BY <1>1, <1>2, <1>8

(* evictToFit: what stays fits, or is the entry just added alone.  The eldest *)
(* that stays besides it was not surplus, and all before that one left.      *)
LEMMA StayFits ==
  ASSUME ReadCachesAssumption, NEW r, Sums(r), NEW t \in DOMAIN r.entries,
         r.entries[t].older = DOMAIN r.entries \ {t}
  PROVE  Fits(Forget(r, Surplus(r, t)))
<1> DEFINE B == r.entries
           D == DOMAIN B
           E == Surplus(r, t)
           T == (D \ E) \ {t}
           f == Forget(r, E)
<1>1. BudgetLess(B, f.entries, E) /\ Sums(f)
  BY ForgetSums
<1>2. DOMAIN f.entries = D \ E /\ t \notin E
  BY <1>1 DEF BudgetLess, Surplus
<1>3. CASE T = {}
  <2>1. D \ E = {t}
    BY <1>2, <1>3
  <2>2. QED
    BY <1>2, <2>1 DEF Fits
<1>4. CASE T # {}
  <2>1. IsBudget(B) /\ IsFiniteSet(D) /\ \A U \in SUBSET D : Sized(B, U)
    BY FiniteParts DEF Sums
  <2>2. PICK u \in T : B[u].older \cap T = {}
    <3>1. Ordered(B) /\ T \in SUBSET DOMAIN B
      BY <2>1 DEF IsBudget
    <3> HIDE DEF T, B
    <3>2. QED
      BY <1>4, <2>1, <3>1, Eldest DEF D
  <2> DEFINE O == B[u].older
  <2>3. O \subseteq D /\ t \notin O
    <3>1. u \in D /\ u # t /\ Ordered(B)
      BY <2>1 DEF IsBudget
    <3>2. O \subseteq D /\ u \in B[t].older
      BY <3>1 DEF Ordered
    <3>3. t \notin O
      BY <3>1 DEF Ordered
    <3>4. QED
      BY <3>2, <3>3
  <2>4. D \ E \subseteq D \ O
    BY <2>2, <2>3
  <2>5. r.total - SizeOf(B, O) <= MaxBytes
    <3>1. u \in D \ {t} /\ u \notin E
      OBVIOUS
    <3>2. ~ (r.total - SizeOf(B, O) > MaxBytes)
      BY <3>1 DEF Surplus
    <3>3. r.total \in Nat /\ SizeOf(B, O) \in Nat
      <4>1. r.total = SizeOf(B, D) /\ Sized(B, D) /\ Sized(B, O)
        BY <2>1, <2>3 DEF Sums
      <4> HIDE DEF B, D, O
      <4>2. QED
        BY <4>1, SizeFinite
    <3>4. MaxBytes \in Nat
      BY DEF ReadCachesAssumption
    <3> DEFINE p == SizeOf(B, O)
    <3> HIDE DEF p
    <3>5. QED
      BY <3>2, <3>3, <3>4 DEF p
  <2>6. r.total = SizeOf(B, O) + SizeOf(B, D \ O)
    <3>1. O \cup (D \ O) = D /\ O \cap (D \ O) = {} /\ Sized(B, O) /\ Sized(B, D \ O)
      BY <2>1, <2>3
    <3>2. r.total = SizeOf(B, D)
      BY DEF Sums
    <3> HIDE DEF B, D, O
    <3>3. QED
      BY <3>1, <3>2, SizeSplit
  <2>7. f.total <= SizeOf(B, D \ O)
    <3>1. \A v \in D \ E : v \in D \ O /\ f.entries[v].bytes = B[v].bytes
      BY <1>1, <1>2, <2>4 DEF BudgetLess, Same
    <3>2. Sized(f.entries, D \ E) /\ Sized(B, D \ O)
      <4>1. IsBudget(f.entries)
        BY <1>1 DEF Sums
      <4>2. Sized(f.entries, DOMAIN f.entries)
        BY <4>1, FiniteParts
      <4>3. QED
        BY <1>2, <2>1, <4>2
    <3>3. f.total = SizeOf(f.entries, D \ E)
      BY <1>1, <1>2 DEF Sums
    <3> HIDE DEF f, B, D, E, O
    <3>4. QED
      BY <3>1, <3>2, <3>3, SizeMonotone
  <2>8. f.total <= MaxBytes
    <3> DEFINE p == SizeOf(B, O)
               q == SizeOf(B, D \ O)
    <3>1. p \in Nat /\ q \in Nat
      <4>1. Sized(B, O) /\ Sized(B, D \ O)
        BY <2>1, <2>3
      <4> HIDE DEF B, D, O
      <4>2. QED
        BY <4>1, SizeFinite
    <3>2. f.total \in Nat
      <4>1. IsBudget(f.entries) /\ f.total = SizeOf(f.entries, DOMAIN f.entries)
        BY <1>1 DEF Sums
      <4>2. Sized(f.entries, DOMAIN f.entries)
        BY <4>1, FiniteParts
      <4> HIDE DEF f
      <4>3. QED
        BY <4>1, <4>2, SizeFinite
    <3>3. r.total - p <= MaxBytes /\ r.total = p + q /\ f.total <= q /\ MaxBytes \in Nat
      BY <2>5, <2>6, <2>7 DEF ReadCachesAssumption
    <3> HIDE DEF p, q, f
    <3>4. QED
      BY <3>1, <3>2, <3>3
  <2>9. QED
    BY <2>8 DEF Fits
<1>5. QED
  BY <1>3, <1>4

(* evictToFit: with an entry, all before it go.                             *)
LEMMA SurplusLeavesInOrder ==
  ASSUME ReadCachesAssumption, NEW r, Sums(r), NEW t \in DOMAIN r.entries,
         r.entries[t].older = DOMAIN r.entries \ {t}, NEW u \in Surplus(r, t)
  PROVE  r.entries[u].older \subseteq Surplus(r, t)
<1> DEFINE B == r.entries
<1> SUFFICES ASSUME NEW v \in B[u].older PROVE v \in Surplus(r, t)
  OBVIOUS
<1>1. IsBudget(B) /\ Ordered(B) /\ u \in DOMAIN B /\ u # t
  BY DEF Sums, IsBudget, Surplus
<1>2. v \in DOMAIN B /\ B[v].older \subseteq B[u].older /\ B[u].older \subseteq DOMAIN B
  BY <1>1 DEF Ordered
<1>3. v # t
  <2>1. u \in B[t].older
    BY <1>1
  <2>2. QED
    BY <1>1, <2>1 DEF Ordered
<1>4. Sized(B, B[v].older) /\ Sized(B, B[u].older) /\ Sized(B, DOMAIN B)
  BY <1>1, <1>2, FiniteParts
<1>5. SizeOf(B, B[v].older) <= SizeOf(B, B[u].older)
  <2>1. \A w \in B[v].older : w \in B[u].older /\ B[w].bytes = B[w].bytes
    BY <1>2
  <2> HIDE DEF B
  <2>2. QED
    BY <1>4, <2>1, SizeMonotone
<1>6. r.total - SizeOf(B, B[v].older) > MaxBytes
  <2> DEFINE p == SizeOf(B, B[u].older)
             q == SizeOf(B, B[v].older)
  <2>1. p \in Nat /\ q \in Nat /\ r.total \in Nat
    <3>1. r.total = SizeOf(B, DOMAIN B)
      BY DEF Sums
    <3> HIDE DEF B
    <3>2. QED
      BY <1>4, <3>1, SizeFinite
  <2>2. r.total - p > MaxBytes /\ q <= p /\ MaxBytes \in Nat
    BY <1>5 DEF Surplus, ReadCachesAssumption
  <2> HIDE DEF p, q
  <2>3. r.total - q > MaxBytes
    BY <2>1, <2>2
  <2>4. QED
    BY <2>3 DEF q
<1>7. QED
  BY <1>2, <1>3, <1>6 DEF Surplus

--------------------------------------------------------------------------------
(* What holds of the caches S and the budget b between operations.          *)
Counted(S) == \A c \in Caches : Cardinality(DOMAIN S[c]) <= MaxEntries
Sound(S, b) ==
  /\ S = [c \in Caches |-> S[c]]
  /\ InStep(S, b.entries) /\ Sums(b) /\ Fits(b) /\ Counted(S)
CachesIInv == Sound(store, Budget)

LEMMA InitSound == ASSUME ReadCachesAssumption PROVE CachesInit => CachesIInv
<1> SUFFICES ASSUME CachesInit PROVE CachesIInv
  OBVIOUS
<1> DEFINE e == NoEntries
<1>1. DOMAIN e = {} /\ e = [x \in {} |-> e[x]]
  BY DEF NoEntries
<1>2. store = [c \in Caches |-> e] /\ Budget.entries = e /\ Budget.total = 0
  BY DEF CachesInit, Budget
<1> HIDE DEF e
<1>3. IsCache(e) /\ IsBudget(e)
  BY <1>1 DEF IsCache, IsBudget, Ordered
<1>4. SizeOf(e, {}) = 0 /\ Cardinality({}) = 0
  BY SizeOfNone, FS_EmptySet
<1>5. InStep(store, e)
  BY <1>1, <1>2, <1>3 DEF InStep, Linked, Alike, WeightedIn
<1>6. Sums(Budget) /\ Fits(Budget)
  BY <1>1, <1>2, <1>3, <1>4 DEF Sums, Fits, ReadCachesAssumption
<1>7. Counted(store)
  BY <1>1, <1>2, <1>4 DEF Counted, ReadCachesAssumption
<1>8. QED
  BY <1>2, <1>5, <1>6, <1>7 DEF CachesIInv, Sound

(* A Map that lost entries is no longer than it was.                         *)
LEMMA CountedLess ==
  ASSUME ReadCachesAssumption, NEW S, NEW S2, NEW K,
         \A c \in Caches : IsCache(S[c]) /\ CacheLess(S[c], S2[c], K[c]), Counted(S)
  PROVE  Counted(S2)
<1> SUFFICES ASSUME NEW c \in Caches PROVE Cardinality(DOMAIN S2[c]) <= MaxEntries
  BY DEF Counted
<1>1. IsFiniteSet(DOMAIN S[c]) /\ DOMAIN S2[c] \subseteq DOMAIN S[c]
  BY FiniteParts DEF CacheLess
<1>2. /\ Cardinality(DOMAIN S2[c]) <= Cardinality(DOMAIN S[c]) /\ Cardinality(DOMAIN S2[c]) \in Nat
      /\ Cardinality(DOMAIN S[c]) \in Nat /\ Cardinality(DOMAIN S[c]) <= MaxEntries
  BY <1>1, FS_Subset, FS_CardinalityType DEF Counted
<1> DEFINE p == Cardinality(DOMAIN S2[c])
           q == Cardinality(DOMAIN S[c])
<1>3. p <= q /\ q <= MaxEntries /\ p \in Nat /\ q \in Nat /\ MaxEntries \in Nat
  BY <1>2 DEF ReadCachesAssumption
<1> HIDE DEF p, q
<1>4. p <= MaxEntries
  BY <1>3
<1>5. QED
  BY <1>4 DEF p

(* A weighted entry is the only one with its token.                          *)
LEMMA OwnToken ==
  ASSUME NEW S, NEW B, Linked(S, B), NEW c \in Caches, NEW k \in WeightedIn(S[c]),
         NEW d \in Caches, NEW j \in WeightedIn(S[d]), S[c][k].token = S[d][j].token
  PROVE  c = d /\ k = j
BY DEF Linked

(* The entry under a key is released, if there is one.                       *)
LEMMA ReleasedSound ==
  ASSUME ReadCachesAssumption, CachesIInv, NEW c \in Caches, NEW k \in Keys
  PROVE  LET S == Cleared(c, k)
             b == Released(c, k)
         IN  /\ Sound(S, b) /\ k \notin DOMAIN S[c] /\ \A d \in Caches \ {c} : S[d] = store[d]
             /\ \E t : BudgetLess(budget, b.entries, {t})
<1> DEFINE S == Cleared(c, k)
           b == Released(c, k)
           K == [d \in Caches |-> IF d = c THEN {k} ELSE {}]
           g == Minus(store[c], {k})
<1>1. InStep(store, budget) /\ Sums(Budget) /\ Fits(Budget) /\ Counted(store) /\ store = [d \in Caches |-> store[d]]
      /\ Budget.entries = budget /\ NoToken \notin Tokens
  BY DEF CachesIInv, Sound, Budget, ReadCachesAssumption
<1>2. S[c] = g /\ \A d \in Caches \ {c} : S[d] = store[d]
  BY <1>1 DEF Cleared
<1>3. S = [d \in Caches |-> S[d]]
  BY <1>1 DEF Cleared
<1>4. IsCache(store[c]) /\ CacheLess(store[c], g, {k})
  BY <1>1, CacheMinus DEF InStep
<1> HIDE DEF g, S
<1>5. \A d \in Caches : IsCache(store[d]) /\ CacheLess(store[d], S[d], K[d])
  <2>1. \A d \in Caches \ {c} : CacheLess(store[d], S[d], {})
    BY <1>1, <1>2 DEF CacheLess, InStep
  <2>2. CacheLess(store[c], S[c], {k})
    BY <1>2, <1>4
  <2>3. QED
    BY <1>1, <2>1, <2>2 DEF InStep
<1>6. Counted(S)
  <2> HIDE DEF K
  <2>1. QED
    BY <1>1, <1>5, CountedLess
<1>7. k \notin DOMAIN S[c]
  BY <1>2, <1>4 DEF CacheLess
<1>8. ASSUME ~Has(c, k) PROVE Sound(S, b) /\ \E t : BudgetLess(budget, b.entries, {t})
  <2>1. b = Budget
    BY <1>8 DEF Released
  <2>2. BudgetLess(budget, budget, {})
    BY <1>1 DEF BudgetLess, InStep, Same
  <2>3. \A d \in Caches : \A j \in WeightedIn(store[d]) : j \in K[d] <=> store[d][j].token \in {}
    BY <1>8 DEF Has, WeightedIn
  <2>4. InStep(S, budget)
    <3> HIDE DEF K
    <3>1. QED
      BY <1>1, <1>5, <2>2, <2>3, InStepLess
  <2>5. BudgetLess(budget, budget, {NoToken})
    <3>1. \A t \in DOMAIN budget : t # NoToken /\ NoToken \notin budget[t].older
      BY <1>1 DEF InStep, IsBudget, BudgetEntries
    <3>2. QED
      BY <2>2, <3>1 DEF BudgetLess
  <2>6. QED
    BY <1>1, <1>2, <1>3, <1>6, <1>7, <2>1, <2>4, <2>5 DEF Sound
<1>9. ASSUME Has(c, k) PROVE Sound(S, b) /\ \E u : BudgetLess(budget, b.entries, {u})
  <2> DEFINE t == store[c][k].token
  <2>1. b = Forget(Budget, {t})
    BY <1>9 DEF Released
  <2>2. BudgetLess(budget, b.entries, {t}) /\ Sums(b) /\ Fits(b)
    BY <1>1, <2>1, ForgetSums
  <2>3. \A d \in Caches : \A j \in WeightedIn(store[d]) : j \in K[d] <=> store[d][j].token \in {t}
    <3> SUFFICES ASSUME NEW d \in Caches, NEW j \in WeightedIn(store[d])
                 PROVE  (d = c /\ j = k) <=> store[d][j].token = t
      OBVIOUS
    <3>1. ASSUME store[d][j].token = t PROVE d = c /\ j = k
      <4>1. k \in WeightedIn(store[c])
        BY <1>9, <3>1 DEF WeightedIn, Has
      <4>2. Linked(store, budget)
        BY <1>1 DEF InStep
      <4>3. QED
        BY <3>1, <4>1, <4>2, OwnToken
    <3>2. QED
      BY <3>1
  <2>4. InStep(S, b.entries)
    <3> HIDE DEF K, t, b
    <3>1. QED
      BY <1>1, <1>5, <2>2, <2>3, InStepLess
  <2>5. QED
    BY <1>1, <1>2, <1>3, <1>6, <1>7, <2>2, <2>4 DEF Sound
<1>10. QED
  BY <1>2, <1>7, <1>8, <1>9 DEF S

(* The entry of a set, as it is inserted.                                    *)
Placed(t) == [token |-> t, stale |-> FALSE, older |-> {}]

(* The insertion, from where both Maps are in step with the entry in place:   *)
(* the count cap takes the oldest of the cache, and its bytes.               *)
LEMMA InsertSound ==
  ASSUME ReadCachesAssumption, NEW c \in Caches, NEW k \in Keys, NEW t \in Tokens \cup {NoToken},
         NEW S, S = [d \in Caches |-> S[d]], \A d \in Caches : IsCache(S[d]), Counted(S),
         NEW b, Sums(b), Fits(b), InStep([S EXCEPT ![c] = Last(S[c], k, Placed(t))], b.entries),
         Insert(c, k, S, b, t)
  PROVE  /\ CachesIInv' /\ \A d \in Caches \ {c} : store'[d] = S[d]
         /\ \E T : BudgetLess(b.entries, budget', T)
<1> DEFINE s == Last(S[c], k, Placed(t))
           M == [S EXCEPT ![c] = s]
           over == {j \in DOMAIN s : Cardinality(DOMAIN s) > MaxEntries /\ s[j].older = {}}
           T == {s[j].token : j \in over}
           f == Forget(b, T)
           K == [d \in Caches |-> IF d = c THEN over ELSE {}]
           s2 == Minus(s, over)
           S2 == [S EXCEPT ![c] = s2]
<1>1. store' = S2 /\ Budget' = f
  BY DEF Insert, Becomes, Budget, Forget, Placed
<1>2. CacheMore(S[c], s, k, t)
  <2>1. Placed(t) \in CacheEntries /\ Placed(t).token = t
    BY DEF Placed, CacheEntries
  <2>2. QED
    BY <2>1, CacheLast
<1>3. IsCache(s) /\ DOMAIN s = DOMAIN S[c] \cup {k} /\ IsFiniteSet(DOMAIN s) /\ IsFiniteSet(DOMAIN S[c]) /\ Ordered(s)
  BY <1>2, FiniteParts DEF CacheMore, IsCache
<1>4. BudgetLess(b.entries, f.entries, T) /\ Sums(f) /\ Fits(f) /\ f.entries = budget'
  <2>1. BudgetLess(b.entries, f.entries, T) /\ Sums(f) /\ Fits(f)
    BY ForgetSums
  <2>2. f.entries = budget'
    <3> HIDE DEF f
    <3>1. QED
      BY <1>1 DEF Budget
  <2>3. QED
    BY <2>1, <2>2
<1>5. M = [d \in Caches |-> M[d]] /\ M[c] = s /\ \A d \in Caches \ {c} : M[d] = S[d]
  OBVIOUS
<1>6. S2 = [d \in Caches |-> S2[d]] /\ S2[c] = s2 /\ \A d \in Caches \ {c} : S2[d] = S[d]
  OBVIOUS
<1>7. CacheLess(s, s2, over)
  BY <1>3, CacheMinus
<1>8. \A d \in Caches : CacheLess(M[d], S2[d], K[d])
  <2>1. \A d \in Caches \ {c} : CacheLess(S[d], S[d], {})
    BY DEF CacheLess
  <2> HIDE DEF M, S2, s, s2, over
  <2>2. QED
    BY <1>5, <1>6, <1>7, <2>1
<1>9. \A d \in Caches : \A j \in WeightedIn(M[d]) : j \in K[d] <=> M[d][j].token \in T
  <2> SUFFICES ASSUME NEW d \in Caches, NEW j \in WeightedIn(M[d])
               PROVE  (d = c /\ j \in over) <=> M[d][j].token \in T
    BY DEF K
  <2>1. ASSUME M[d][j].token \in T PROVE d = c /\ j \in over
    <3>1. PICK i \in over : M[d][j].token = s[i].token
      BY <2>1
    <3>2. Linked(M, b.entries)
      BY DEF InStep
    <3> HIDE DEF M, s
    <3>3. i \in WeightedIn(M[c]) /\ M[c][i].token = M[d][j].token
      BY <1>5, <3>1 DEF WeightedIn
    <3>4. QED
      BY <3>1, <3>2, <3>3, OwnToken
  <2>2. ASSUME d = c, j \in over PROVE M[d][j].token \in T
    BY <1>5, <2>2
  <2>3. QED
    BY <2>1, <2>2
<1>10. InStep(S2, f.entries)
  <2>1. InStep(M, b.entries) /\ NoToken \notin Tokens
    BY DEF ReadCachesAssumption
  <2> HIDE DEF M, S2, K, T, f
  <2>2. QED
    BY <1>4, <1>8, <1>9, <2>1, InStepLess
<1>11. Cardinality(DOMAIN s2) <= MaxEntries
  <2>1. DOMAIN s2 = DOMAIN s \ over
    BY <1>7 DEF CacheLess
  <2> DEFINE n == Cardinality(DOMAIN s)
             m == Cardinality(DOMAIN s2)
             o == Cardinality(DOMAIN S[c])
  <2>2. n \in Nat /\ o \in Nat /\ o <= MaxEntries /\ MaxEntries \in Nat \ {0}
    BY <1>3, FS_CardinalityType DEF Counted, ReadCachesAssumption
  <2>3. n <= o + 1
    <3>1. n = o \/ n = o + 1
      <4> DEFINE D == DOMAIN S[c]
                 E == DOMAIN s
      <4>1. E = D \cup {k} /\ IsFiniteSet(D)
        BY <1>3
      <4> HIDE DEF D, E
      <4>2. Cardinality(E) = Cardinality(D) \/ Cardinality(E) = Cardinality(D) + 1
        BY <4>1, FS_AddElement
      <4>3. QED
        BY <4>2 DEF D, E
    <3> HIDE DEF n, o
    <3>2. QED
      BY <2>2, <3>1
  <2>4. CASE n <= MaxEntries
    <3>1. over = {}
      <4>1. ~ (n > MaxEntries)
        <5> HIDE DEF n
        <5>1. QED
          BY <2>2, <2>4
      <4>2. QED
        BY <4>1
    <3>2. m = n
      BY <2>1, <3>1
    <3>3. QED
      BY <2>4, <3>2
  <2>5. CASE n > MaxEntries
    <3>1. PICK j \in DOMAIN s : s[j].older \cap DOMAIN s = {}
      <4>1. DOMAIN s \in SUBSET DOMAIN s /\ DOMAIN s # {}
        BY <1>3
      <4> HIDE DEF s
      <4>2. QED
        BY <1>3, <4>1, Eldest
    <3>2. s[j].older \subseteq DOMAIN s
      <4> HIDE DEF s
      <4>1. QED
        BY <1>3, <3>1 DEF Ordered
    <3>3. j \in over
      BY <2>5, <3>1, <3>2
    <3>4. m <= Cardinality(DOMAIN s \ {j}) /\ Cardinality(DOMAIN s \ {j}) = n - 1 /\ m \in Nat
      <4> DEFINE D == DOMAIN s
                 E == DOMAIN s2
      <4>1. E \subseteq D \ {j} /\ j \in D /\ IsFiniteSet(D)
        BY <1>3, <2>1, <3>3
      <4> HIDE DEF D, E
      <4>2. IsFiniteSet(D \ {j}) /\ Cardinality(D \ {j}) = Cardinality(D) - 1
        BY <4>1, FS_RemoveElement
      <4>3. Cardinality(E) <= Cardinality(D \ {j}) /\ Cardinality(E) \in Nat
        BY <4>1, <4>2, FS_Subset, FS_CardinalityType
      <4>4. QED
        BY <4>2, <4>3 DEF D, E
    <3>5. m <= n - 1
      BY <3>4
    <3> HIDE DEF n, m, o
    <3>6. m <= MaxEntries
      BY <2>2, <2>3, <3>4, <3>5
    <3>7. QED
      BY <3>6 DEF m
  <2>6. n <= MaxEntries \/ n > MaxEntries
    <3> HIDE DEF n
    <3>1. QED
      BY <2>2
  <2>7. QED
    BY <2>4, <2>5, <2>6
<1>12. Counted(S2)
  <2> HIDE DEF S2, s2
  <2>1. QED
    BY <1>6, <1>11 DEF Counted
<1>13. CachesIInv'
  <2>1. S2 = [d \in Caches |-> S2[d]]
    BY <1>6
  <2> HIDE DEF S2, f
  <2>2. QED
    BY <1>1, <1>4, <1>10, <1>12, <2>1 DEF CachesIInv, Sound
<1>14. QED
  BY <1>1, <1>4, <1>6, <1>13

(* The registration of a weighted entry, with what it evicts: the entry is    *)
(* the last of the budget, and what leaves is all that was before something  *)
(* that leaves.                                                             *)
LEMMA AddSums ==
  ASSUME ReadCachesAssumption, NEW b, Sums(b), NEW t \in Tokens, t \notin DOMAIN b.entries, NEW x \in BudgetEntries
  PROVE  LET A == Add(b, t, x)
             E == Evicted(b, t, x)
             R == Registered(b, t, x)
         IN  /\ Sums(A) /\ Fits(A)
             /\ E \subseteq DOMAIN b.entries /\ \A u \in E : b.entries[u].older \subseteq E
             /\ BudgetLess(R.entries, A.entries, E) /\ BudgetMore(b.entries, R.entries, t, x)
<1> DEFINE R == Registered(b, t, x)
           E == Surplus(R, t)
           A == Forget(R, E)
<1>1. BudgetMore(b.entries, R.entries, t, x) /\ Sums(R)
  BY RegisteredSums
<1>2. /\ t \in DOMAIN R.entries /\ R.entries[t].older = DOMAIN R.entries \ {t}
      /\ DOMAIN R.entries = DOMAIN b.entries \cup {t}
  BY <1>1 DEF BudgetMore
<1>3. BudgetLess(R.entries, A.entries, E) /\ Sums(A) /\ Fits(A)
  <2> HIDE DEF R
  <2>1. QED
    BY <1>1, <1>2, ForgetSums, StayFits
<1>4. E \subseteq DOMAIN b.entries
  <2> HIDE DEF R
  <2>1. QED
    BY <1>2 DEF Surplus
<1>5. ASSUME NEW u \in E PROVE b.entries[u].older \subseteq E
  <2>1. R.entries[u].older \subseteq E
    <3> HIDE DEF R
    <3>1. QED
      BY <1>1, <1>2, SurplusLeavesInOrder
  <2>2. u \in DOMAIN b.entries /\ u # t
    BY <1>4
  <2>3. R.entries[u].older = b.entries[u].older \ {t}
    <3> HIDE DEF R, E
    <3>1. QED
      BY <1>1, <2>2 DEF BudgetMore
  <2>4. t \notin b.entries[u].older
    BY <2>2 DEF Sums, IsBudget, Ordered
  <2>5. QED
    BY <2>1, <2>3, <2>4
<1>6. QED
  BY <1>1, <1>3, <1>4, <1>5 DEF Add, Evicted

LEMMA AddSound ==
  ASSUME ReadCachesAssumption, NEW c \in Caches, NEW k \in Keys, NEW S, NEW b, Sound(S, b), k \notin DOMAIN S[c],
         NEW t \in Tokens, t \notin DOMAIN b.entries, NEW x \in BudgetEntries, x.cache = c, x.key = k,
         NEW G, NEW S3, S3 = [d \in Caches |-> Minus(S[d], G[d])],
         \A d \in Caches : G[d] = {b.entries[u].key : u \in {v \in Evicted(b, t, x) : b.entries[v].cache = d}}
  PROVE  /\ Counted(S3) /\ \A d \in Caches : IsCache(S3[d]) /\ DOMAIN S3[d] = DOMAIN S[d] \ G[d]
         /\ InStep([S3 EXCEPT ![c] = Last(S3[c], k, Placed(t))], Add(b, t, x).entries)
<1> DEFINE E == Evicted(b, t, x)
           R == Registered(b, t, x).entries
           A == Add(b, t, x).entries
           B == b.entries
           B3 == Minus(B, E)
           S4 == [S3 EXCEPT ![c] = Last(S3[c], k, Placed(t))]
<1>1. InStep(S, B) /\ Sums(b) /\ Counted(S) /\ IsBudget(B) /\ NoToken \notin Tokens /\ \A d \in Caches : IsCache(S[d])
  BY DEF Sound, ReadCachesAssumption, InStep
<1>2. BudgetLess(R, A, E) /\ BudgetMore(B, R, t, x) /\ E \subseteq DOMAIN B
  BY <1>1, AddSums
<1>3. \A d \in Caches : CacheLess(S[d], S3[d], G[d])
  BY <1>1, CacheMinus
<1>4. BudgetLess(B, B3, E)
  BY <1>1, BudgetMinus
<1>5. \A d \in Caches : \A j \in WeightedIn(S[d]) : j \in G[d] <=> S[d][j].token \in E
  <2> SUFFICES ASSUME NEW d \in Caches, NEW j \in WeightedIn(S[d])
               PROVE  j \in G[d] <=> S[d][j].token \in E
    OBVIOUS
  <2>1. Linked(S, B)
    BY <1>1 DEF InStep
  <2>2. ASSUME j \in G[d] PROVE S[d][j].token \in E
    <3>1. PICK u \in E : B[u].cache = d /\ B[u].key = j
      BY <2>2
    <3>2. u \in DOMAIN B
      BY <1>2
    <3>3. S[d][j].token = u
      BY <2>1, <3>1, <3>2 DEF Linked
    <3>4. QED
      BY <3>1, <3>3
  <2>3. ASSUME S[d][j].token \in E PROVE j \in G[d]
    <3>1. B[S[d][j].token].cache = d /\ B[S[d][j].token].key = j
      BY <2>1 DEF Linked
    <3>2. QED
      BY <2>3, <3>1
  <2>4. QED
    BY <2>2, <2>3
<1> HIDE DEF E, R, A, B3
<1>6. InStep(S3, B3)
  BY <1>1, <1>3, <1>4, <1>5, InStepLess
<1>7. BudgetMore(B3, A, t, x)
  <2>1. IsBudget(A) /\ t \notin E
    BY <1>2 DEF BudgetLess
  <2>2. DOMAIN A = DOMAIN B3 \cup {t} /\ A[t].older = DOMAIN B3 \ {t} /\ Same(A[t], x)
    BY <1>2, <1>4, <2>1 DEF BudgetLess, BudgetMore, Same
  <2>3. ASSUME NEW u \in DOMAIN B3 \ {t} PROVE Same(A[u], B3[u]) /\ A[u].older = B3[u].older \ {t}
    <3>1. u \in DOMAIN B \ {t} /\ u \in DOMAIN A
      BY <1>4, <2>2 DEF BudgetLess
    <3>2. Same(R[u], B[u]) /\ R[u].older = B[u].older \ {t} /\ Same(A[u], R[u]) /\ A[u].older = R[u].older \ E
      BY <1>2, <3>1 DEF BudgetLess, BudgetMore
    <3>3. Same(B3[u], B[u]) /\ B3[u].older = B[u].older \ E
      BY <1>4 DEF BudgetLess
    <3>4. QED
      BY <3>2, <3>3 DEF Same
  <2>4. QED
    BY <2>1, <2>2, <2>3 DEF BudgetMore
<1>8. CacheMore(S3[c], Last(S3[c], k, Placed(t)), k, t)
  <2>1. Placed(t) \in CacheEntries /\ Placed(t).token = t
    BY DEF Placed, CacheEntries
  <2>2. IsCache(S3[c])
    BY <1>6 DEF InStep
  <2>3. QED
    BY <2>1, <2>2, CacheLast
<1>9. S4[c] = Last(S3[c], k, Placed(t)) /\ \A d \in Caches \ {c} : S4[d] = S3[d]
  OBVIOUS
<1>10. k \notin DOMAIN S3[c] /\ t \notin DOMAIN B3
  <2>1. DOMAIN S3[c] = DOMAIN S[c] \ G[c]
    BY <1>3 DEF CacheLess
  <2>2. DOMAIN B3 = DOMAIN B \ E
    BY <1>4 DEF BudgetLess
  <2>3. QED
    BY <2>1, <2>2
<1>11. InStep(S4, A)
  <2>1. CacheMore(S3[c], S4[c], k, t) /\ t # NoToken
    BY <1>1, <1>8, <1>9
  <2> HIDE DEF S4
  <2>2. QED
    BY <1>1, <1>6, <1>7, <1>9, <1>10, <2>1, InStepMore
<1>12. Counted(S3)
  BY <1>1, <1>3, CountedLess
<1>13. QED
  BY <1>3, <1>11, <1>12 DEF CacheLess, A

--------------------------------------------------------------------------------
(* The operations.                                                          *)

(* What no operation but a weighted set does to the budget: nothing new is in *)
(* it.                                                                      *)
NothingNew == \A t \in DOMAIN budget' : t \in DOMAIN budget /\ Same(budget'[t], budget[t])

LEMMA NothingNewInOrder == ASSUME NothingNew PROVE EvictsInOrder
<1>1. \A c \in Caches : ~Stored(c)
  BY DEF NothingNew, Stored, Entry, Same
<1>2. QED
  BY <1>1 DEF EvictsInOrder

LEMMA LapseSound ==
  ASSUME ReadCachesAssumption, CachesIInv, NEW c \in Caches, NEW k \in Keys, Lapse(c, k)
  PROVE  CachesIInv' /\ NothingNew
<1> DEFINE s2 == [store[c] EXCEPT ![k].stale = TRUE]
<1>1. InStep(store, budget) /\ Sums(Budget) /\ Fits(Budget) /\ Counted(store) /\ store = [d \in Caches |-> store[d]]
  BY DEF CachesIInv, Sound, Budget
<1>2. store' = [store EXCEPT ![c] = s2] /\ Budget' = Budget /\ budget' = budget /\ k \in DOMAIN store[c]
  BY <1>1 DEF Lapse, Budget, Has
<1>3. IsCache(store[c])
  BY <1>1 DEF InStep
<1>4. DOMAIN s2 = DOMAIN store[c] /\ s2 = [j \in DOMAIN s2 |-> s2[j]]
  OBVIOUS
<1>5. \A j \in DOMAIN store[c] :
        s2[j] \in CacheEntries /\ s2[j].token = store[c][j].token /\ s2[j].older = store[c][j].older
  <2> SUFFICES ASSUME NEW j \in DOMAIN store[c]
               PROVE  s2[j] \in CacheEntries /\ s2[j].token = store[c][j].token /\ s2[j].older = store[c][j].older
    OBVIOUS
  <2>1. store[c][j] \in CacheEntries
    BY <1>3 DEF IsCache
  <2>2. CASE j # k
    BY <2>1, <2>2
  <2>3. CASE j = k
    <3>1. s2[j] = [store[c][j] EXCEPT !.stale = TRUE]
      BY <2>3
    <3> HIDE DEF s2
    <3>2. QED
      BY <2>1, <3>1 DEF CacheEntries
  <2>4. QED
    BY <2>2, <2>3
<1> HIDE DEF s2
<1>6. Ordered(s2)
  BY <1>3, <1>4, <1>5 DEF Ordered, IsCache
<1>7. CacheLess(store[c], s2, {})
  BY <1>3, <1>4, <1>5, <1>6 DEF CacheLess, IsCache
<1> DEFINE K == [d \in Caches |-> {}]
<1>8. \A d \in Caches : IsCache(store[d]) /\ CacheLess(store[d], store'[d], K[d])
  <2>1. \A d \in Caches : CacheLess(store[d], store[d], {})
    BY <1>1 DEF CacheLess, InStep
  <2>2. QED
    BY <1>1, <1>2, <1>7, <2>1 DEF InStep
<1>9. BudgetLess(budget, budget, {}) /\ \A d \in Caches : \A j \in WeightedIn(store[d]) : j \in K[d] <=> store[d][j].token \in {}
  BY <1>1 DEF BudgetLess, InStep, Same
<1> DEFINE S2 == store'
<1>10. InStep(S2, budget) /\ Counted(S2)
  <2>1. NoToken \notin Tokens
    BY DEF ReadCachesAssumption
  <2>2. \A d \in Caches : IsCache(store[d]) /\ CacheLess(store[d], S2[d], K[d])
    BY <1>8
  <2> HIDE DEF K, S2
  <2>3. QED
    BY <1>1, <1>9, <2>1, <2>2, InStepLess, CountedLess
<1>11. store' = [d \in Caches |-> store'[d]]
  BY <1>1, <1>2
<1>12. CachesIInv'
  BY <1>1, <1>2, <1>10, <1>11 DEF CachesIInv, Sound, Budget
<1>13. QED
  BY <1>2, <1>12 DEF NothingNew, Same

(* What was released, with nothing after it, is the whole of a step.         *)
LEMMA ReleaseIsAll ==
  ASSUME ReadCachesAssumption, CachesIInv, NEW c \in Caches, NEW k \in Keys,
         store' = Cleared(c, k), Becomes(Released(c, k))
  PROVE  CachesIInv' /\ NothingNew
<1> DEFINE b == Released(c, k)
<1>1. Sound(Cleared(c, k), b) /\ \E t : BudgetLess(budget, b.entries, {t})
  BY ReleasedSound
<1>2. Budget' = b
  BY DEF Becomes, Budget, Released, Forget
<1>3. b.entries = budget'
  BY DEF Becomes
<1>4. NothingNew
  BY <1>1, <1>3 DEF NothingNew, BudgetLess
<1>5. CachesIInv'
  <2> HIDE DEF b
  <2>1. QED
    BY <1>1, <1>2 DEF CachesIInv
<1>6. QED
  BY <1>4, <1>5

LEMMA DropSound ==
  ASSUME ReadCachesAssumption, CachesIInv, NEW c \in Caches, NEW k \in Keys, Has(c, k), Drop(c, k)
  PROVE  CachesIInv' /\ NothingNew
<1>1. store' = Cleared(c, k) /\ Becomes(Released(c, k))
  BY DEF Drop, Released
<1>2. QED
  BY <1>1, ReleaseIsAll

LEMMA HitSound ==
  ASSUME ReadCachesAssumption, CachesIInv, NEW c \in Caches, NEW k \in Keys, Hit(c, k)
  PROVE  CachesIInv' /\ NothingNew
<1> DEFINE r == store[c][k]
           t == r.token
           s2 == Last(store[c], k, r)
           S2 == [store EXCEPT ![c] = s2]
           b2 == Touch(Budget, t)
<1>1. /\ InStep(store, budget) /\ Sums(Budget) /\ Fits(Budget) /\ Counted(store) /\ store = [d \in Caches |-> store[d]]
      /\ Budget.entries = budget /\ Budget.total = total /\ IsBudget(budget) /\ NoToken \notin Tokens
  BY DEF CachesIInv, Sound, Budget, InStep, ReadCachesAssumption
<1>2. store' = S2 /\ Budget' = b2 /\ budget' = b2.entries /\ k \in DOMAIN store[c]
  BY DEF Hit, Has, Becomes, Budget, Touch
<1>3. IsCache(store[c]) /\ r \in CacheEntries
  BY <1>1, <1>2 DEF InStep, IsCache
<1>4. CacheMore(store[c], s2, k, t)
  <2> HIDE DEF r
  <2>1. QED
    BY <1>3, CacheLast
<1>5. S2 = [d \in Caches |-> S2[d]] /\ S2[c] = s2 /\ \A d \in Caches \ {c} : S2[d] = store[d]
  BY <1>1
<1>6. Counted(S2)
  <2>1. DOMAIN s2 = DOMAIN store[c]
    BY <1>2, <1>4 DEF CacheMore
  <2> HIDE DEF s2, S2
  <2>2. QED
    BY <1>1, <1>5, <2>1 DEF Counted
<1> HIDE DEF s2, S2
<1>7. CASE t \in DOMAIN budget
  <2> DEFINE B2 == Last(budget, t, budget[t])
  <2>1. b2.entries = B2 /\ b2.total = total
    BY <1>1, <1>7 DEF Touch
  <2>2. budget[t] \in BudgetEntries /\ t \in Tokens /\ t # NoToken
    BY <1>1, <1>7 DEF IsBudget
  <2>3. BudgetMore(budget, B2, t, budget[t])
    <3> HIDE DEF t
    <3>1. QED
      BY <1>1, <2>2, BudgetLast
  <2>4. budget[t].cache = c /\ budget[t].key = k
    BY <1>1, <1>2, <2>2 DEF InStep, Linked, WeightedIn
  <2> HIDE DEF t, B2
  <2>5. InStep(S2, B2)
    <3>1. S2[c] = s2 /\ store[c][k].token = t
      BY <1>5 DEF t
    <3>2. QED
      BY <1>1, <1>2, <1>4, <1>5, <2>2, <2>3, <2>4, <3>1, InStepMore
  <2>6. DOMAIN B2 = DOMAIN budget /\ IsBudget(B2) /\ \A u \in DOMAIN budget : Same(B2[u], budget[u])
    BY <1>7, <2>3 DEF BudgetMore
  <2>7. SizeOf(B2, DOMAIN budget) = SizeOf(budget, DOMAIN budget)
    <3>1. Sized(B2, DOMAIN budget) /\ Sized(budget, DOMAIN budget)
      BY <1>1, <2>6, FiniteParts
    <3>2. QED
      BY <2>6, <3>1, SizeSame DEF Same
  <2>8. Sums(b2) /\ Fits(b2)
    BY <1>1, <2>1, <2>6, <2>7 DEF Sums, Fits
  <2>9. CachesIInv'
    <3> HIDE DEF b2
    <3>1. QED
      BY <1>2, <1>5, <1>6, <2>1, <2>5, <2>8 DEF CachesIInv, Sound
  <2>10. NothingNew
    BY <1>2, <2>1, <2>6 DEF NothingNew
  <2>11. QED
    BY <2>9, <2>10
<1>8. CASE t \notin DOMAIN budget
  <2>1. t = NoToken
    BY <1>1, <1>2, <1>8 DEF InStep, Linked, WeightedIn
  <2>2. b2 = Budget
    BY <1>1, <1>8 DEF Touch
  <2>3. InStep(S2, budget)
    <3>1. CacheMore(store[c], S2[c], k, NoToken) /\ store[c][k].token = NoToken
      BY <1>4, <1>5, <2>1
    <3>2. QED
      BY <1>1, <1>5, <3>1, InStepUnweighted
  <2>4. CachesIInv'
    <3> HIDE DEF b2
    <3>1. QED
      BY <1>1, <1>2, <1>5, <1>6, <2>2, <2>3 DEF CachesIInv, Sound
  <2>5. NothingNew
    BY <1>1, <1>2, <2>2 DEF NothingNew, Same
  <2>6. QED
    BY <2>4, <2>5
<1>9. QED
  BY <1>7, <1>8

LEMMA SetUnweightedSound ==
  ASSUME ReadCachesAssumption, CachesIInv, NEW c \in Caches, NEW k \in Keys, SetUnweighted(c, k)
  PROVE  CachesIInv' /\ NothingNew
<1> DEFINE S == Cleared(c, k)
           b == Released(c, k)
           s == Last(S[c], k, Placed(NoToken))
           M == [S EXCEPT ![c] = s]
<1>1. Sound(S, b) /\ k \notin DOMAIN S[c] /\ \E t : BudgetLess(budget, b.entries, {t})
  BY ReleasedSound
<1>2. Insert(c, k, S, b, NoToken) /\ NoToken \notin Tokens
  BY DEF SetUnweighted, ReadCachesAssumption
<1> HIDE DEF S, b
<1>3. InStep(S, b.entries) /\ Sums(b) /\ Fits(b) /\ Counted(S) /\ S = [d \in Caches |-> S[d]] /\ \A d \in Caches : IsCache(S[d])
  BY <1>1 DEF Sound, InStep
<1>4. CacheMore(S[c], s, k, NoToken)
  <2>1. Placed(NoToken) \in CacheEntries /\ Placed(NoToken).token = NoToken
    BY DEF Placed, CacheEntries
  <2>2. QED
    BY <1>3, <2>1, CacheLast
<1>5. M[c] = s /\ \A d \in Caches \ {c} : M[d] = S[d]
  BY <1>3
<1>6. InStep(M, b.entries)
  <2>1. CacheMore(S[c], M[c], k, NoToken)
    BY <1>4, <1>5
  <2> HIDE DEF M
  <2>2. QED
    BY <1>1, <1>2, <1>3, <1>5, <2>1, InStepUnweighted
<1>7. CachesIInv' /\ \E T : BudgetLess(b.entries, budget', T)
  BY <1>2, <1>3, <1>6, InsertSound
<1>8. NothingNew
  BY <1>1, <1>7 DEF NothingNew, BudgetLess, Same
<1>9. QED
  BY <1>7, <1>8

LEMMA SetWeightedSound ==
  ASSUME ReadCachesAssumption, CachesIInv, NEW c \in Caches, NEW k \in Keys, NEW w \in Weights, SetWeighted(c, k, w)
  PROVE  CachesIInv' /\ EvictsInOrder
<1> DEFINE S == Cleared(c, k)
           b == Released(c, k)
           B == b.entries
           x == [bytes |-> w, cache |-> c, key |-> k, older |-> {}]
<1>1. /\ Sound(S, b) /\ k \notin DOMAIN S[c] /\ \A d \in Caches \ {c} : S[d] = store[d]
      /\ \E u : BudgetLess(budget, B, {u})
  BY ReleasedSound
<1>2. PICK t0 : BudgetLess(budget, B, {t0})
  BY <1>1
<1>3. PICK t \in Fresh(b, c, k) :
        LET gone(d) == {B[u].key : u \in {v \in Evicted(b, t, x) : B[v].cache = d}}
        IN  Insert(c, k, [d \in Caches |-> Minus(S[d], gone(d))], Add(b, t, x), t)
  BY DEF SetWeighted
<1>4. t \in Tokens /\ t \notin DOMAIN B
  BY DEF Fresh, Tokens
<1>5. x \in BudgetEntries /\ x.cache = c /\ x.key = k
  BY DEF BudgetEntries, ReadCachesAssumption
<1> HIDE DEF S, x
<1> DEFINE E == Evicted(b, t, x)
           A == Add(b, t, x)
           R == Registered(b, t, x)
           G == [d \in Caches |-> {B[u].key : u \in {v \in E : B[v].cache = d}}]
           S3 == [d \in Caches |-> Minus(S[d], G[d])]
<1>6. Insert(c, k, S3, A, t)
  BY <1>3
<1>7. InStep(S, B) /\ Sums(b) /\ Linked(S, B) /\ Alike(S, B)
  BY <1>1 DEF Sound, InStep
<1> HIDE DEF b
<1>8. /\ Sums(A) /\ Fits(A) /\ E \subseteq DOMAIN B /\ \A u \in E : B[u].older \subseteq E
      /\ BudgetLess(R.entries, A.entries, E) /\ BudgetMore(B, R.entries, t, x)
  BY <1>4, <1>5, <1>7, AddSums
<1>9. S3 = [d \in Caches |-> S3[d]] /\ S3 = [d \in Caches |-> Minus(S[d], G[d])]
  OBVIOUS
<1>10. \A d \in Caches : G[d] = {B[u].key : u \in {v \in E : B[v].cache = d}}
  OBVIOUS
<1>11. /\ Counted(S3) /\ \A d \in Caches : IsCache(S3[d]) /\ DOMAIN S3[d] = DOMAIN S[d] \ G[d]
       /\ InStep([S3 EXCEPT ![c] = Last(S3[c], k, Placed(t))], A.entries)
  <2> HIDE DEF G, S3
  <2>1. QED
    BY <1>1, <1>4, <1>5, <1>9, <1>10, AddSound
<1> HIDE DEF S3, G, A, E, R
<1>12. CachesIInv' /\ (\A d \in Caches \ {c} : store'[d] = S3[d]) /\ \E T : BudgetLess(A.entries, budget', T)
  BY <1>4, <1>6, <1>8, <1>9, <1>11, InsertSound
<1>13. PICK T : BudgetLess(A.entries, budget', T)
  BY <1>12
<1> HIDE DEF B
<1>14. /\ DOMAIN budget' = ((DOMAIN B \cup {t}) \ E) \ T
       /\ \A u \in DOMAIN budget' : u # t => u \in DOMAIN budget /\ Same(budget'[u], budget[u])
       /\ t \in DOMAIN budget' => Same(budget'[t], x) /\ budget'[t].older = DOMAIN budget' \ {t}
  <2>1. DOMAIN budget' = ((DOMAIN B \cup {t}) \ E) \ T
    BY <1>8, <1>13 DEF BudgetLess, BudgetMore
  <2>2. ASSUME NEW u \in DOMAIN budget', u # t PROVE u \in DOMAIN budget /\ Same(budget'[u], budget[u])
    <3>1. Same(budget'[u], A.entries[u]) /\ u \in DOMAIN A.entries
      BY <1>13 DEF BudgetLess
    <3>2. Same(A.entries[u], R.entries[u]) /\ u \in DOMAIN B \ {t}
      BY <1>8, <2>1, <2>2, <3>1 DEF BudgetLess
    <3>3. Same(R.entries[u], B[u])
      BY <1>8, <3>2 DEF BudgetMore
    <3>4. Same(B[u], budget[u]) /\ u \in DOMAIN budget
      BY <1>2, <3>2 DEF BudgetLess
    <3>5. QED
      BY <3>1, <3>2, <3>3, <3>4 DEF Same
  <2>3. ASSUME t \in DOMAIN budget' PROVE Same(budget'[t], x) /\ budget'[t].older = DOMAIN budget' \ {t}
    <3>1. Same(budget'[t], A.entries[t]) /\ budget'[t].older = A.entries[t].older \ T /\ t \in DOMAIN A.entries
      BY <1>13, <2>3 DEF BudgetLess
    <3>2. Same(A.entries[t], R.entries[t]) /\ A.entries[t].older = R.entries[t].older \ E
      BY <1>8, <3>1 DEF BudgetLess
    <3>3. Same(R.entries[t], x) /\ R.entries[t].older = DOMAIN B \ {t}
      BY <1>8 DEF BudgetMore
    <3>4. QED
      BY <2>1, <3>1, <3>2, <3>3 DEF Same
  <2>4. QED
    BY <2>1, <2>2, <2>3
<1>15. ASSUME NEW a \in Caches, NEW d \in Caches, a # d, Stored(a), NEW j \in Leaving(d)
       PROVE  /\ store[d][j].older \cap Weighted(d) \subseteq Leaving(d)
              /\ \A v \in budget[store[d][j].token].older :
                   v \in DOMAIN budget' => budget'[v].older = DOMAIN budget' \ {v}
  <2>1. a = c
    <3>1. PICK u \in DOMAIN budget' : budget'[u].cache = a /\ (u \in DOMAIN budget => Entry(budget[u]) # Entry(budget'[u]))
      BY <1>15 DEF Stored
    <3>2. u = t
      BY <1>14, <3>1 DEF Entry, Same
    <3>3. QED
      BY <1>5, <1>14, <3>1, <3>2 DEF Same
  <2>2. d # c /\ S[d] = store[d] /\ DOMAIN store'[d] = DOMAIN S[d] \ G[d]
    BY <1>1, <1>11, <1>12, <1>15, <2>1
  <2>3. PICK u \in E : B[u].cache = d /\ B[u].key = j
    <3>1. j \in G[d]
      BY <1>15, <2>2 DEF Leaving, Weighted
    <3>2. QED
      BY <1>10, <3>1
  <2>4. u \in DOMAIN B /\ S[d][j].token = u /\ B[u].older \subseteq E /\ j \in WeightedIn(S[d])
    <3>1. j \in WeightedIn(S[d])
      BY <2>2 DEF Leaving, Weighted, WeightedIn
    <3>2. QED
      BY <1>7, <1>8, <2>3, <3>1 DEF Linked
  <2>5. ASSUME NEW i \in store[d][j].older \cap Weighted(d) PROVE i \in Leaving(d)
    <3>1. i \in WeightedIn(S[d]) /\ i \in S[d][j].older
      BY <2>2 DEF Weighted, WeightedIn
    <3>2. S[d][i].token \in B[u].older
      BY <1>7, <2>4, <3>1 DEF Alike
    <3>3. S[d][i].token \in E /\ B[S[d][i].token].cache = d /\ B[S[d][i].token].key = i
      BY <1>7, <2>4, <3>1, <3>2 DEF Linked
    <3>4. i \in G[d]
      BY <1>10, <3>3
    <3>5. QED
      BY <2>2, <3>4 DEF Leaving
  <2>6. ASSUME NEW v \in budget[u].older, v \in DOMAIN budget' PROVE budget'[v].older = DOMAIN budget' \ {v}
    <3>1. v = t
      <4>1. SUFFICES ASSUME v # t PROVE FALSE
        OBVIOUS
      <4>2. v \in DOMAIN B /\ v \notin E
        BY <1>14, <2>6, <4>1
      <4>3. v \in B[u].older
        BY <1>2, <2>4, <4>2 DEF BudgetLess
      <4>4. QED
        BY <2>4, <4>2, <4>3
    <3>2. QED
      BY <1>14, <2>6, <3>1
  <2>7. QED
    BY <2>2, <2>4, <2>5, <2>6
<1>16. EvictsInOrder
  BY <1>15 DEF EvictsInOrder
<1>17. QED
  BY <1>12, <1>16

LEMMA CachesStepSound == ASSUME ReadCachesAssumption PROVE CachesIInv /\ CachesNext => CachesIInv' /\ EvictsInOrder
<1> SUFFICES ASSUME CachesIInv, CachesNext PROVE CachesIInv' /\ EvictsInOrder
  OBVIOUS
<1>1. PICK c \in Caches, k \in Keys :
        \/ Hit(c, k) \/ Expire(c, k) \/ Delete(c, k) \/ Lapse(c, k) \/ SetUnweighted(c, k)
        \/ \E w \in Weights : SetSkipsOversized(c, k, w) \/ SetWeighted(c, k, w)
  BY DEF CachesNext
<1>2. CASE Hit(c, k)
  BY <1>2, HitSound, NothingNewInOrder
<1>3. CASE Expire(c, k)
  BY <1>3, DropSound, NothingNewInOrder DEF Expire
<1>4. CASE Delete(c, k)
  BY <1>4, DropSound, NothingNewInOrder DEF Delete
<1>5. CASE Lapse(c, k)
  BY <1>5, LapseSound, NothingNewInOrder
<1>6. CASE SetUnweighted(c, k)
  BY <1>6, SetUnweightedSound, NothingNewInOrder
<1>7. ASSUME NEW w \in Weights, SetSkipsOversized(c, k, w) PROVE CachesIInv' /\ EvictsInOrder
  BY <1>7, ReleaseIsAll, NothingNewInOrder DEF SetSkipsOversized
<1>8. ASSUME NEW w \in Weights, SetWeighted(c, k, w) PROVE CachesIInv' /\ EvictsInOrder
  BY <1>8, SetWeightedSound
<1>9. QED
  BY <1>1, <1>2, <1>3, <1>4, <1>5, <1>6, <1>7, <1>8

LEMMA CachesIdle == ASSUME UNCHANGED caches, CachesIInv PROVE CachesIInv' /\ EvictsInOrder
<1>1. store' = store /\ budget' = budget /\ Budget' = Budget
  BY DEF caches, Budget
<1>2. CachesIInv'
  BY <1>1 DEF CachesIInv, Sound
<1>3. NothingNew
  BY <1>1 DEF NothingNew, Same
<1>4. QED
  BY <1>2, <1>3, NothingNewInOrder

LEMMA CachesAreSound == ASSUME ReadCachesAssumption PROVE CachesSpec => []CachesIInv
<1>1. CachesInit => CachesIInv
  BY InitSound
<1>2. CachesIInv /\ [CachesNext]_caches => CachesIInv'
  BY CachesStepSound, CachesIdle
<1>3. QED
  BY <1>1, <1>2, PTL DEF CachesSpec

(* The budget knows exactly the weighted entries that are resident, and its   *)
(* running total is their sum (CacheBudget.add, remove; TtlCache.set).       *)
THEOREM AccountsAlwaysAgree == ASSUME ReadCachesAssumption PROVE CachesSpec => []AccountsAgree
<1>1. CachesIInv => AccountsAgree
  <2> SUFFICES ASSUME CachesIInv PROVE AccountsAgree
    OBVIOUS
  <2>1. Linked(store, budget) /\ Sums(Budget)
    BY DEF CachesIInv, Sound, InStep, Budget
  <2>2. total = SizeOf(budget, DOMAIN budget)
    BY <2>1 DEF Sums, Budget
  <2>3. QED
    BY <2>1, <2>2 DEF AccountsAgree, Linked, Weighted, WeightedIn, Has
<1>2. QED
  BY <1>1, CachesAreSound, PTL

(* Both bounds hold between operations, unless one entry alone is too large   *)
(* (CacheBudget.evictToFit; the count cap of TtlCache.set).                  *)
THEOREM AlwaysWithinBounds == ASSUME ReadCachesAssumption PROVE CachesSpec => []WithinBounds
<1>1. CachesIInv => WithinBounds
  <2> SUFFICES ASSUME CachesIInv PROVE WithinBounds
    OBVIOUS
  <2>1. Fits(Budget) /\ Counted(store)
    BY DEF CachesIInv, Sound
  <2>2. total <= MaxBytes \/ Cardinality(DOMAIN budget) = 1
    BY <2>1, FS_Singleton DEF Fits, Budget
  <2>3. QED
    BY <2>1, <2>2 DEF WithinBounds, Counted
<1>2. QED
  BY <1>1, CachesAreSound, PTL

(* A set in one cache takes entries of another only oldest first, in that     *)
(* cache and in the budget (evictToFit, touch).                              *)
THEOREM OldestAlwaysLeaveFirst == ASSUME ReadCachesAssumption PROVE CachesSpec => OldestLeaveFirst
<1>1. CachesIInv /\ [CachesNext]_caches => [EvictsInOrder]_caches
  BY CachesStepSound
<1>2. QED
  BY <1>1, CachesAreSound, PTL DEF CachesSpec, OldestLeaveFirst
==================================================================================
