-------------------------------- MODULE SlotPool --------------------------------
(***************************************************************************)
(* What a FIFO semaphore promises: Limit slots, lent in arrival order; a   *)
(* slot given back goes to whoever has waited longest, in the same step.   *)
(***************************************************************************)
EXTENDS Integers, Sequences, FiniteSets

CONSTANTS Tasks, Limit

VARIABLES holders, \* tasks that have a slot
          line     \* tasks that wait for one, oldest first

vars == <<holders, line>>

Init == holders = {} /\ line = <<>>

Waiting(t) == \E i \in 1..Len(line) : line[i] = t

(* A slot is taken on arrival only if one is free, else the task lines up.  *)
Take(t) ==
  /\ t \notin holders /\ ~Waiting(t) /\ line = <<>>
  /\ Cardinality(holders) < Limit
  /\ holders' = holders \cup {t}
  /\ UNCHANGED line

LineUp(t) ==
  /\ t \notin holders /\ ~Waiting(t)
  /\ Cardinality(holders) = Limit
  /\ line' = Append(line, t)
  /\ UNCHANGED holders

(* A slot given back passes to the head of the line, or becomes free.       *)
GiveBack(t) ==
  /\ t \in holders
  /\ IF line = <<>>
     THEN holders' = holders \ {t} /\ UNCHANGED line
     ELSE holders' = (holders \ {t}) \cup {Head(line)} /\ line' = Tail(line)

Next == \E t \in Tasks : Take(t) \/ LineUp(t) \/ GiveBack(t)
Spec == Init /\ [][Next]_vars
=================================================================================
