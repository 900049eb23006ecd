------------------------------- MODULE Semaphore -------------------------------
(***************************************************************************)
(* Semaphore.run: at most Limit wrapped operations run at once, the others *)
(* wait in arrival order.  A finished operation hands its slot to the      *)
(* first waiter by resolving its promise: from then on the slot is taken,  *)
(* although the waiter itself resumes in a later microtask.                *)
(***************************************************************************)
EXTENDS Integers, Sequences, FiniteSets

CONSTANTS Tasks, \* calls of run(), finitely many
          Limit  \* max, at least 1

VARIABLES active,  \* slots taken
          waiters, \* tasks whose promise is pending, oldest first
          phase    \* where each task stands in run()

vars == <<active, waiters, phase>>

TypeOK ==
  /\ active \in 0..Limit
  /\ waiters \in Seq(Tasks)
  /\ phase \in [Tasks -> {"out", "queued", "granted", "running"}]

Init ==
  /\ active = 0 /\ waiters = <<>>
  /\ phase = [t \in Tasks |-> "out"]

Acquire(t) ==
  /\ phase[t] = "out" /\ active < Limit
  /\ active' = active + 1
  /\ phase' = [phase EXCEPT ![t] = "running"]
  /\ UNCHANGED waiters

Queue(t) ==
  /\ phase[t] = "out" /\ active >= Limit
  /\ waiters' = Append(waiters, t)
  /\ phase' = [phase EXCEPT ![t] = "queued"]
  /\ UNCHANGED active

Enter(t) == Acquire(t) \/ Queue(t)

Resume(t) ==
  /\ phase[t] = "granted"
  /\ phase' = [phase EXCEPT ![t] = "running"]
  /\ UNCHANGED <<active, waiters>>

(* The finally of run(): hand the slot over, or free it.                    *)
(* Mutants: the slot is freed as well; the last comer is served first; the  *)
(* waiter is not woken.                                                     *)
HandOverFrees(t) ==
  /\ phase[t] = "running" /\ waiters # <<>>
  /\ waiters' = Tail(waiters)
  /\ phase' = [phase EXCEPT ![t] = "out", ![Head(waiters)] = "granted"]
  /\ active' = active - 1
HandOverLast(t) ==
  /\ phase[t] = "running" /\ waiters # <<>>
  /\ waiters' = SubSeq(waiters, 1, Len(waiters) - 1)
  /\ phase' = [phase EXCEPT ![t] = "out", ![waiters[Len(waiters)]] = "granted"]
  /\ UNCHANGED active
HandOverUnheard(t) ==
  /\ phase[t] = "running" /\ waiters # <<>>
  /\ phase' = [phase EXCEPT ![t] = "out"]
  /\ active' = active - 1
  /\ UNCHANGED waiters
HandOver(t) ==
  /\ phase[t] = "running" /\ waiters # <<>>
  /\ waiters' = Tail(waiters)
  /\ phase' = [phase EXCEPT ![t] = "out", ![Head(waiters)] = "granted"]
  /\ UNCHANGED active

Free(t) ==
  /\ phase[t] = "running" /\ waiters = <<>>
  /\ active' = active - 1
  /\ phase' = [phase EXCEPT ![t] = "out"]
  /\ UNCHANGED waiters

Leave(t) == HandOver(t) \/ Free(t)

Next == \E t \in Tasks : Enter(t) \/ Resume(t) \/ Leave(t)
Spec == Init /\ [][Next]_vars
--------------------------------------------------------------------------------
(* Properties.                                                              *)

Holders == {t \in Tasks : phase[t] \in {"granted", "running"}}

(* The slot count is exact across every hand-over: it is the number of      *)
(* tasks that hold a slot and never exceeds Limit, a queued task waits once *)
(* and for a reason, and nobody else is in the queue.                       *)
SlotsAccounted ==
  /\ active = Cardinality(Holders) /\ active <= Limit
  /\ \A t \in Tasks : phase[t] = "queued" <=> \E i \in 1..Len(waiters) : waiters[i] = t
  /\ \A i, j \in 1..Len(waiters) : waiters[i] = waiters[j] => i = j
  /\ waiters # <<>> => active = Limit

(* What run() promises: a pool of Limit slots lent in arrival order.        *)
Pool == INSTANCE SlotPool WITH holders <- Holders, line <- waiters
================================================================================
