---- MODULE MCStores ----
(* What the caching adapter keeps: a file's variables and the failures to read   *)
(* them; the reads that are cached while a file is edited; the raw frames.  They  *)
(* share no state, so a behaviour is of one of them.                             *)
EXTENDS MCVariablesCache, VersionedReads, FrameHydration

CONSTANTS f1, f2, g1, c1, c2
VARIABLE used

(* Where nobody reads, the readers ask for nothing.                             *)
StoresInit ==
  /\ used \in {"variables", "reads", "frames"} /\ Init /\ FramesInit
  /\ IF used = "reads" THEN ReadsInit ELSE NothingRead /\ reader = [c \in Readers |-> NoRead(None, None)]

(* The last moment of the clock: nothing need follow.                          *)
TimeIsUp == used = "reads" /\ clock = MaxNow

StoresNext ==
  \/ used = "variables" /\ Next /\ UNCHANGED <<used, reads, frames>>
  \/ used = "reads" /\ ReadsNext /\ UNCHANGED <<used, vars, frames>>
  \/ used = "frames" /\ FramesNext /\ UNCHANGED <<used, vars, reads>>
  \/ TimeIsUp /\ UNCHANGED <<used, vars, reads, frames>>
StoresSpec == StoresInit /\ [][StoresNext]_<<used, vars, reads, frames>>

(* The parts have their model values in common, so that a small symmetry does.   *)
(* Two frames of one owner and one of another; a tenant may hold one deep raw and *)
(* one shallow, and all tenants together one more.                               *)
MCOwnerOf  == (f1 :> "f") @@ (f2 :> "f") @@ (g1 :> "g")
MCResident == (2 :> 1) @@ (3 :> 2)
Alike == Permutations({c1, c2}) \cup Permutations({f1, f2})
====
