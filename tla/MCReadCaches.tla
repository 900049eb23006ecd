----------------------------- MODULE MCReadCaches -----------------------------
(* What the server keeps within a budget of bytes, the least recently used    *)
(* leaving first: its read caches and the snapshots that browsers upload.    *)
(* The two share no state, so a behaviour is of one of them.                  *)
(* Two caches of two entries over three keys; a budget of three bytes; values  *)
(* of no weight, of one and two bytes, of four, which alone is more than the   *)
(* budget and is kept, and of five, which is too large to keep.               *)
(* Two owners, each with room for two or three refs, and less room for both.  *)
EXTENDS SnapshotStore, ReadCaches, TLC

CONSTANTS k1, k2, k3, o1, o2
VARIABLE kept

ASSUME SnapshotStoreAssumption /\ ReadCachesAssumption

KeptInit == kept \in {"reads", "snapshots"} /\ Init /\ CachesInit

KeptNext ==
  \/ kept = "reads" /\ CachesNext /\ UNCHANGED <<kept, vars>>
  \/ kept = "snapshots" /\ Next /\ UNCHANGED <<kept, caches>>
  \/ kept = "snapshots" /\ now = MaxNow /\ UNCHANGED <<kept, vars, caches>>
KeptSpec == KeptInit /\ [][KeptNext]_<<kept, vars, caches>>

Alike == Permutations({k1, k2, k3}) \cup Permutations({o1, o2})
===============================================================================
