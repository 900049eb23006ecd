------------------------------ MODULE ReadCaches ------------------------------
(***************************************************************************)
(* The read caches (TtlCache) and the process-wide byte budget they share  *)
(* (CacheBudget).  Each cache is a Map in recency order, bounded by count; *)
(* the budget is another Map in recency order, bounded by bytes, that      *)
(* knows an entry only by the token it gave out.  The two are kept in step *)
(* by calls at every mutation.                                             *)
(*                                                                         *)
(* A Map is a function from its keys to records, of which `older` is the   *)
(* set of the keys before this one.  A token is one that is not in use     *)
(* (the code counts up), here of the cache and the key it is given for.    *)
(***************************************************************************)
EXTENDS Integers, FiniteSets

CONSTANTS Caches, Keys,
          Weights,       \* byteWeight of a value; 0 is not registered
          MaxEntries,    \* entries per cache
          MaxEntryBytes, \* larger values are not kept
          MaxBytes,      \* the budget
          NoToken        \* of an entry that is not registered

Tokens == Caches \X Keys \X {1, 2}

ReadCachesAssumption ==
  /\ Weights \subseteq Nat /\ MaxEntries \in Nat \ {0}
  /\ MaxEntryBytes \in Nat /\ MaxBytes \in Nat
  /\ IsFiniteSet(Caches) /\ IsFiniteSet(Keys) /\ NoToken \notin Tokens

VARIABLES store,  \* cache -> its Map, key -> [token, stale, older]
          budget, \* CacheBudget.entries, token -> [bytes, cache, key, older]
          total   \* runningTotal
caches == <<store, budget, total>>

NoEntries == [x \in {} |-> x]
CachesInit == store = [c \in Caches |-> NoEntries] /\ budget = NoEntries /\ total = 0

--------------------------------------------------------------------------------
(* Map.delete, of each of K; Map.delete and Map.set: to the end.            *)
Minus(f, K) == [x \in DOMAIN f \ K |-> [f[x] EXCEPT !.older = @ \ K]]
Last(f, x, r) ==
  [y \in DOMAIN f \cup {x} |-> IF y = x THEN [r EXCEPT !.older = DOMAIN f \ {x}]
                               ELSE [f[y] EXCEPT !.older = @ \ {x}]]

(* The bytes of a set of entries of the budget, counted one by one.         *)
SizeOf(f, T) == Cardinality(UNION {{t} \X (1..f[t].bytes) : t \in T})

(* The budget as a value: its entries and its running total.                *)
Budget == [entries |-> budget, total |-> total]
Becomes(b) == budget' = b.entries /\ total' = b.total

(* CacheBudget.remove, of each of T, and touch: idempotent on an unknown one. *)
Forget(b, T) == [entries |-> Minus(b.entries, T), total |-> b.total - SizeOf(b.entries, T \cap DOMAIN b.entries)]
(* Mutant: a hit leaves the budget's order.                                 *)
TouchNothing(b, t) == b
Touch(b, t) == IF t \in DOMAIN b.entries THEN [b EXCEPT !.entries = Last(@, t, @[t])] ELSE b

(* evictToFit: the oldest go until the running total fits, but never the    *)
(* entry just added: one goes if with those after it the total is over.     *)
(* Mutant: one eviction, however large the entry.                           *)
SurplusOfOne(b, new) == {t \in DOMAIN b.entries \ {new} : b.total > MaxBytes /\ b.entries[t].older = {}}
Surplus(b, new) ==
  {t \in DOMAIN b.entries \ {new} : b.total - SizeOf(b.entries, b.entries[t].older) > MaxBytes}
Registered(b, t, x) == [entries |-> Last(b.entries, t, x), total |-> b.total + x.bytes]
Evicted(b, t, x) == Surplus(Registered(b, t, x), t)
Add(b, t, x) == Forget(Registered(b, t, x), Evicted(b, t, x))
Fresh(b, c, k) ==
  {t \in {<<c, k, 1>>, <<c, k, 2>>} \ DOMAIN b.entries : t = <<c, k, 2>> => <<c, k, 1>> \in DOMAIN b.entries}

--------------------------------------------------------------------------------
Has(c, k) == k \in DOMAIN store[c]

(* TtlCache.get: a hit moves the entry to the end of both Maps.             *)
Hit(c, k) ==
  /\ Has(c, k) /\ ~store[c][k].stale
  /\ store' = [store EXCEPT ![c] = Last(@, k, @[k])]
  /\ Becomes(Touch(Budget, store[c][k].token))

(* A removal that is not a replacement: lazy expiry, and delete.            *)
Cleared(c, k) == [store EXCEPT ![c] = Minus(@, {k})]
Drop(c, k) == store' = Cleared(c, k) /\ Becomes(Forget(Budget, {store[c][k].token}))
Expire(c, k) == Has(c, k) /\ store[c][k].stale /\ Drop(c, k)
Delete(c, k) == Has(c, k) /\ Drop(c, k)

(* TtlCache.set first releases the entry under the key.                     *)
(* Mutant: the entry replaced stays in the budget.                          *)
ReleasedNot(c, k) == Budget
Released(c, k) == IF Has(c, k) THEN Forget(Budget, {store[c][k].token}) ELSE Budget

SetSkipsOversized(c, k, w) ==
  /\ w > MaxEntryBytes
  /\ store' = Cleared(c, k)
  /\ Becomes(Released(c, k))

(* It ends by inserting the entry; past the count cap the oldest of the     *)
(* cache goes.                                                              *)
Insert(c, k, stores, b, token) ==
  LET s == Last(stores[c], k, [token |-> token, stale |-> FALSE, older |-> {}])
      over == {j \in DOMAIN s : Cardinality(DOMAIN s) > MaxEntries /\ s[j].older = {}}
  IN /\ store' = [stores EXCEPT ![c] = Minus(s, over)]
     /\ Becomes(Forget(b, {s[j].token : j \in over}))

SetUnweighted(c, k) == 0 \in Weights /\ Insert(c, k, Cleared(c, k), Released(c, k), NoToken)

(* The evict callback deletes the key from the entry's own cache.           *)
SetWeighted(c, k, w) ==
  /\ 0 < w /\ w <= MaxEntryBytes
  /\ \E t \in Fresh(Released(c, k), c, k) :
       LET b == Released(c, k)
           x == [bytes |-> w, cache |-> c, key |-> k, older |-> {}]
           gone(d) == {b.entries[u].key : u \in {v \in Evicted(b, t, x) : b.entries[v].cache = d}}
       IN  Insert(c, k, [d \in Caches |-> Minus(Cleared(c, k)[d], gone(d))], Add(b, t, x), t)

(* An entry passes its TTL: it stays until it is looked up.                 *)
Lapse(c, k) ==
  /\ Has(c, k) /\ ~store[c][k].stale
  /\ store' = [store EXCEPT ![c][k].stale = TRUE]
  /\ UNCHANGED <<budget, total>>

CachesNext ==
  \E c \in Caches, k \in Keys :
    \/ Hit(c, k) \/ Expire(c, k) \/ Delete(c, k) \/ Lapse(c, k) \/ SetUnweighted(c, k)
    \/ \E w \in Weights : SetSkipsOversized(c, k, w) \/ SetWeighted(c, k, w)
CachesSpec == CachesInit /\ [][CachesNext]_caches
--------------------------------------------------------------------------------
(* Properties.                                                              *)

(* "budget.total() == sum of live weights": the budget knows exactly the    *)
(* weighted entries that are resident, each under its own token, and its    *)
(* running total is their sum.                                              *)
Weighted(c) == {k \in DOMAIN store[c] : store[c][k].token # NoToken}
AccountsAgree ==
  /\ \A c \in Caches : \A k \in Weighted(c) :
       LET t == store[c][k].token IN t \in DOMAIN budget /\ budget[t].cache = c /\ budget[t].key = k
  /\ \A t \in DOMAIN budget :
       LET c == budget[t].cache  k == budget[t].key IN c \in Caches /\ Has(c, k) /\ store[c][k].token = t
  /\ total = SizeOf(budget, DOMAIN budget)

(* Both bounds hold at rest: a cache keeps at most MaxEntries, and the       *)
(* caches together stay within the byte budget unless a single entry alone  *)
(* exceeds it.                                                              *)
WithinBounds ==
  /\ \A c \in Caches : Cardinality(DOMAIN store[c]) <= MaxEntries
  /\ total <= MaxBytes \/ Cardinality(DOMAIN budget) = 1

(* Global LRU: when a set in one cache evicts a weighted entry of another,  *)
(* everything used less recently goes too: the weighted entries before it   *)
(* in its own cache and all before it in the budget.  (A token that is still *)
(* there after all is the one given to the entry that was set.)             *)
Entry(x) == <<x.cache, x.key, x.bytes>>
Stored(c) == \E t \in DOMAIN budget' :
               budget'[t].cache = c /\ (t \in DOMAIN budget => Entry(budget[t]) # Entry(budget'[t]))
Leaving(c) == {k \in Weighted(c) : k \notin DOMAIN store'[c]}
EvictsInOrder ==
  \A c, d \in Caches : c # d /\ Stored(c) =>
    \A k \in Leaving(d) :
      /\ store[d][k].older \cap Weighted(d) \subseteq Leaving(d)
      /\ \A t \in budget[store[d][k].token].older :
           t \in DOMAIN budget' => budget'[t].older = DOMAIN budget' \ {t}
OldestLeaveFirst == [][EvictsInOrder]_caches
================================================================================
