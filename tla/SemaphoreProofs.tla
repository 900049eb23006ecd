---------------------------- MODULE SemaphoreProofs ----------------------------
(***************************************************************************)
(* Semaphore, for any finite set of calls and any limit: the slot count    *)
(* stays exact, and the code implements the FIFO pool of SlotPool.         *)
(*                                                                         *)
(* SlotsAccounted is inductive with the types: that the queue is exactly   *)
(* the queued tasks, each once, makes the hand-over reach a task that does *)
(* wait and leaves the number of holders as it was.                        *)
(***************************************************************************)
EXTENDS Semaphore, FiniteSetTheorems, TLAPS

Constants == IsFiniteSet(Tasks) /\ Limit \in Nat \ {0}
IInv      == TypeOK /\ SlotsAccounted

(* The holders are finitely many.                                           *)
LEMMA HoldersFinite == Constants => IsFiniteSet(Holders) /\ Cardinality(Holders) \in Nat
  BY FS_Subset, FS_CardinalityType DEF Constants, Holders

(* The pool counts as this module does.                                     *)
LEMMA PoolCardinality == Pool!Cardinality(Holders) = Cardinality(Holders)
  BY DEF Pool!Cardinality, Cardinality

(* Nobody runs at first.                                                    *)
LEMMA InitIInv == Constants /\ Init => IInv
<1> SUFFICES ASSUME Constants, Init PROVE IInv
  OBVIOUS
<1>1. Holders = {}
  BY DEF Init, Holders
<1>2. QED
  BY <1>1, FS_EmptySet DEF Constants, Init, IInv, TypeOK, SlotsAccounted

(* What each step does to the holders and the queue; a hand-over moves the  *)
(* slot from one holder to the task that heads the queue.                   *)
LEMMA AcquireKeeps ==
  ASSUME Constants, IInv, NEW t \in Tasks, Acquire(t)
  PROVE  /\ IInv'
         /\ t \notin Holders /\ Holders' = Holders \cup {t}
         /\ Cardinality(Holders) < Limit /\ waiters = <<>> /\ waiters' = waiters
<1> USE DEF IInv, TypeOK
<1>1. Holders' = Holders \cup {t} /\ t \notin Holders
  BY DEF Acquire, Holders
<1>2. Cardinality(Holders') = Cardinality(Holders) + 1
  BY <1>1, HoldersFinite, FS_AddElement
<1>3. waiters = <<>> /\ waiters' = waiters /\ active < Limit /\ active' = active + 1
  BY DEF Acquire, SlotsAccounted, Constants
<1>4. TypeOK'
  BY <1>3 DEF Acquire, Constants
<1>5. SlotsAccounted'
  BY <1>2, <1>3 DEF Acquire, SlotsAccounted, Constants
<1>6. QED
  BY <1>1, <1>3, <1>4, <1>5 DEF SlotsAccounted

LEMMA QueueKeeps ==
  ASSUME Constants, IInv, NEW t \in Tasks, Queue(t)
  PROVE  /\ IInv'
         /\ t \notin Holders /\ Holders' = Holders
         /\ Cardinality(Holders) = Limit /\ waiters' = Append(waiters, t)
         /\ \A i \in 1..Len(waiters) : waiters[i] # t
<1> USE DEF IInv, TypeOK
<1>1. Holders' = Holders /\ t \notin Holders
  BY DEF Queue, Holders
<1>2. active = Limit /\ active' = active /\ waiters' = Append(waiters, t)
  BY DEF Queue, SlotsAccounted, Constants
<1>3. \A i \in 1..Len(waiters) : waiters[i] # t
  BY DEF Queue, SlotsAccounted
<1>4. TypeOK'
  BY <1>2 DEF Queue
<1>5. /\ Len(waiters') = Len(waiters) + 1 /\ waiters'[Len(waiters) + 1] = t
      /\ \A i \in 1..Len(waiters) : waiters'[i] = waiters[i]
  BY <1>2
<1>6. \A u \in Tasks : phase'[u] = "queued" <=> \E i \in 1..Len(waiters') : waiters'[i] = u
  <2> TAKE u \in Tasks
  <2>1. CASE u = t
    BY <1>5, <2>1 DEF Queue
  <2>2. CASE u # t
    BY <1>5, <2>2 DEF Queue, SlotsAccounted
  <2>3. QED
    BY <2>1, <2>2
<1>7. \A i, j \in 1..Len(waiters') : waiters'[i] = waiters'[j] => i = j
  BY <1>3, <1>5 DEF SlotsAccounted
<1>8. SlotsAccounted'
  BY <1>1, <1>2, <1>6, <1>7 DEF SlotsAccounted
<1>9. QED
  BY <1>1, <1>2, <1>3, <1>4, <1>8 DEF SlotsAccounted

LEMMA ResumeKeeps ==
  ASSUME Constants, IInv, NEW t \in Tasks, Resume(t)
  PROVE  IInv' /\ Holders' = Holders /\ waiters' = waiters
<1>1. Holders' = Holders
  BY DEF Resume, Holders, IInv, TypeOK
<1>2. QED
  BY <1>1 DEF Resume, IInv, TypeOK, SlotsAccounted

LEMMA HandOverKeeps ==
  ASSUME Constants, IInv, NEW t \in Tasks, HandOver(t)
  PROVE  /\ IInv'
         /\ t \in Holders /\ Holders' = (Holders \ {t}) \cup {Head(waiters)}
         /\ waiters # <<>> /\ waiters' = Tail(waiters)
<1> USE DEF IInv, TypeOK
<1> DEFINE w == Head(waiters)
<1>1. waiters # <<>> /\ waiters' = Tail(waiters) /\ active' = active
  BY DEF HandOver
<1>2. w \in Tasks /\ w = waiters[1] /\ 1 \in 1..Len(waiters)
  BY <1>1
<1>3. phase[w] = "queued" /\ phase[t] = "running" /\ w # t
  BY <1>2 DEF HandOver, SlotsAccounted
<1>4. phase' = [phase EXCEPT ![t] = "out", ![w] = "granted"]
  BY DEF HandOver
<1>5. t \in Holders /\ w \notin Holders /\ Holders' = (Holders \ {t}) \cup {w}
  BY <1>2, <1>3, <1>4 DEF Holders
<1>6. Cardinality(Holders') = Cardinality(Holders)
  <2>1. IsFiniteSet(Holders \ {t}) /\ Cardinality(Holders \ {t}) = Cardinality(Holders) - 1
    BY <1>5, HoldersFinite, FS_RemoveElement
  <2>2. Cardinality((Holders \ {t}) \cup {w}) = Cardinality(Holders \ {t}) + 1
    BY <1>5, <2>1, FS_AddElement
  <2>3. QED
    BY <1>5, <2>1, <2>2, HoldersFinite
<1>7. TypeOK'
  BY <1>1, <1>2, <1>4
<1>8. /\ Len(waiters') = Len(waiters) - 1
      /\ \A i \in 1..Len(waiters') : waiters'[i] = waiters[i + 1] /\ i + 1 \in 1..Len(waiters)
  BY <1>1
<1>9. \A u \in Tasks : phase'[u] = "queued" <=> \E i \in 1..Len(waiters') : waiters'[i] = u
  <2> TAKE u \in Tasks
  <2>1. CASE u \in {t, w}
    <3>1. phase'[u] # "queued"
      BY <1>2, <1>4, <2>1
    <3>2. ASSUME NEW i \in 1..Len(waiters'), waiters'[i] = u PROVE FALSE
      <4>1. waiters[i + 1] = u /\ i + 1 \in 1..Len(waiters) /\ i + 1 # 1
        BY <1>8, <3>2
      <4>2. u # w
        BY <1>2, <4>1 DEF SlotsAccounted
      <4>3. u # t
        BY <1>3, <4>1 DEF SlotsAccounted
      <4>4. QED
        BY <2>1, <4>2, <4>3
    <3>3. QED
      BY <3>1, <3>2
  <2>2. CASE u \notin {t, w}
    <3>1. phase'[u] = phase[u]
      BY <1>4, <2>2
    <3>2. ASSUME NEW i \in 1..Len(waiters), waiters[i] = u
          PROVE  \E j \in 1..Len(waiters') : waiters'[j] = u
      <4>1. i # 1
        BY <1>2, <2>2, <3>2
      <4>2. i - 1 \in 1..Len(waiters') /\ waiters'[i - 1] = waiters[(i - 1) + 1]
        BY <1>8, <4>1
      <4>3. QED
        BY <3>2, <4>2
    <3>3. ASSUME NEW i \in 1..Len(waiters'), waiters'[i] = u
          PROVE  \E j \in 1..Len(waiters) : waiters[j] = u
      BY <1>8, <3>3
    <3>4. QED
      BY <3>1, <3>2, <3>3 DEF SlotsAccounted
  <2>3. QED
    BY <2>1, <2>2
<1>10. \A i, j \in 1..Len(waiters') : waiters'[i] = waiters'[j] => i = j
  BY <1>8 DEF SlotsAccounted
<1>11. active' = Limit
  BY <1>1 DEF SlotsAccounted
<1>12. SlotsAccounted'
  BY <1>1, <1>6, <1>9, <1>10, <1>11 DEF SlotsAccounted
<1>13. QED
  BY <1>1, <1>5, <1>7, <1>12

LEMMA FreeKeeps ==
  ASSUME Constants, IInv, NEW t \in Tasks, Free(t)
  PROVE  /\ IInv'
         /\ t \in Holders /\ Holders' = Holders \ {t}
         /\ waiters = <<>> /\ waiters' = waiters
<1> USE DEF IInv, TypeOK
<1>1. t \in Holders /\ Holders' = Holders \ {t}
  BY DEF Free, Holders
<1>2. Cardinality(Holders') = Cardinality(Holders) - 1
  BY <1>1, HoldersFinite, FS_RemoveElement
<1>3. active' = active - 1 /\ waiters = <<>> /\ waiters' = waiters
  BY DEF Free
<1>4. active' \in 0..Limit
  <2>1. Cardinality(Holders') \in Nat
    BY <1>1, HoldersFinite, FS_RemoveElement, FS_CardinalityType
  <2>2. QED
    BY <1>2, <1>3, <2>1 DEF SlotsAccounted, Constants
<1>5. TypeOK'
  BY <1>4, <1>3 DEF Free
<1>6. SlotsAccounted'
  BY <1>2, <1>3, <1>4 DEF Free, SlotsAccounted, Constants
<1>7. QED
  BY <1>1, <1>3, <1>5, <1>6

(* A task that leaves wakes at most one other, which was queued.            *)
LEMMA LeaveWakes ==
  ASSUME IInv, NEW t \in Tasks, Leave(t)
  PROVE  /\ phase[t] = "running" /\ phase'[t] = "out"
         /\ \A u \in Tasks \ {t} :
              \/ phase'[u] = phase[u]
              \/ phase[u] = "queued" /\ phase'[u] = "granted"
<1>1. CASE Free(t)
  BY <1>1 DEF Free, IInv, TypeOK
<1>2. CASE HandOver(t)
  <2>1. Head(waiters) \in Tasks /\ phase[Head(waiters)] = "queued"
    <3>1. Head(waiters) = waiters[1] /\ 1 \in 1..Len(waiters) /\ waiters[1] \in Tasks
      BY <1>2 DEF HandOver, IInv, TypeOK
    <3>2. QED
      BY <3>1 DEF IInv, SlotsAccounted
  <2>2. QED
    BY <1>2, <2>1 DEF HandOver, IInv, TypeOK
<1>3. QED
  BY <1>1, <1>2 DEF Leave

(* The invariant is inductive.                                              *)
LEMMA NextIInv == Constants /\ IInv /\ [Next]_vars => IInv'
<1> SUFFICES ASSUME Constants, IInv, [Next]_vars PROVE IInv'
  OBVIOUS
<1>1. CASE Next
  BY <1>1, AcquireKeeps, QueueKeeps, ResumeKeeps, HandOverKeeps, FreeKeeps DEF Next, Enter, Leave
<1>2. CASE UNCHANGED vars
  BY <1>2 DEF vars, IInv, TypeOK, SlotsAccounted, Holders
<1>3. QED
  BY <1>1, <1>2

LEMMA SpecIInv == ASSUME Constants PROVE Spec => []IInv
  BY InitIInv, NextIInv, PTL DEF Spec

(* The count, the queue and the phases keep their types.                    *)
THEOREM SemaphoreTypeOK == ASSUME Constants PROVE Spec => []TypeOK
<1>1. IInv => TypeOK
  BY DEF IInv
<1>2. QED
  BY <1>1, SpecIInv, PTL

(* Through every hand-over the count is the number of slots held, at most   *)
(* Limit, and the queue is exactly the tasks that wait.                     *)
THEOREM SlotsAlwaysAccounted == ASSUME Constants PROVE Spec => []SlotsAccounted
<1>1. IInv => SlotsAccounted
  BY DEF IInv
<1>2. QED
  BY <1>1, SpecIInv, PTL

(* run() is a pool of Limit slots lent in arrival order: each step of the   *)
(* code takes, lines up, gives back or passes on a slot, or resumes a task  *)
(* that has been passed one (a stutter of the pool).                        *)
THEOREM SemaphoreIsAPool == ASSUME Constants PROVE Spec => Pool!Spec
<1>1. Init => Pool!Init
  BY DEF Init, Pool!Init, Holders
<1>2. IInv /\ [Next]_vars => [Pool!Next]_Pool!vars
  <2> SUFFICES ASSUME IInv, [Next]_vars PROVE [Pool!Next]_Pool!vars
    OBVIOUS
  <2> USE DEF Pool!vars, Pool!Next
  <2>1. ASSUME NEW t \in Tasks, Acquire(t) PROVE Pool!Take(t)
    <3>1. /\ t \notin Holders /\ Holders' = Holders \cup {t} /\ UNCHANGED waiters
          /\ Cardinality(Holders) < Limit /\ waiters = <<>>
      BY <2>1, AcquireKeeps
    <3>2. ~Pool!Waiting(t)
      BY <3>1 DEF Pool!Waiting
    <3>3. QED
      BY <3>1, <3>2, PoolCardinality DEF Pool!Take
  <2>2. ASSUME NEW t \in Tasks, Queue(t) PROVE Pool!LineUp(t)
    <3>1. /\ t \notin Holders /\ Holders' = Holders /\ Cardinality(Holders) = Limit
          /\ waiters' = Append(waiters, t) /\ \A i \in 1..Len(waiters) : waiters[i] # t
      BY <2>2, QueueKeeps
    <3>2. ~Pool!Waiting(t)
      BY <3>1 DEF Pool!Waiting
    <3>3. QED
      BY <3>1, <3>2, PoolCardinality DEF Pool!LineUp
  <2>3. ASSUME NEW t \in Tasks, HandOver(t) \/ Free(t) PROVE Pool!GiveBack(t)
    BY <2>3, HandOverKeeps, FreeKeeps DEF Pool!GiveBack
  <2>4. ASSUME NEW t \in Tasks, Resume(t) PROVE UNCHANGED Pool!vars
    BY <2>4, ResumeKeeps
  <2>5. CASE UNCHANGED vars
    BY <2>5 DEF vars, Holders
  <2>6. QED
    BY <2>1, <2>2, <2>3, <2>4, <2>5 DEF Next, Enter, Leave
<1>3. QED
  BY <1>1, <1>2, SpecIInv, PTL DEF Spec, Pool!Spec
================================================================================
