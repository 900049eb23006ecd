---------------------------- MODULE MCLibrarySync ----------------------------
(* Two instances: two teams with a project each, so that a file may move    *)
(* between teams; and one team with two projects and two files, so that one *)
(* listing or fetch may fail while another succeeds.                        *)
EXTENDS LibrarySync, TLC

CONSTANTS t1, t2, p1, p2, f1, f2
TwoTeams == (p1 :> t1) @@ (p2 :> t2)
OneTeam  == (p1 :> t1) @@ (p2 :> t1)
Alike    == Permutations({p1, p2}) \cup Permutations({f1, f2})
==============================================================================
