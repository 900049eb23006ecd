------------------------------- MODULE MCTenants -------------------------------
(* Three tables of one user of the multi-tenant server, which share nothing: the *)
(* library registry with one team of two projects and two files, so that one     *)
(* listing or fetch may fail while another succeeds; the tokens; an uploaded     *)
(* table.  A behaviour is of one of them.                                        *)
EXTENDS LibrarySync, Accounts, Uploads, TLC

VARIABLE used

AllAnswered == (\A u \in Uploads : up[u].at \in {"stored", "refused", "failed"}) /\ UNCHANGED uploads
TenantsInit == /\ used \in {"library", "tokens", "upload"} /\ Init /\ AccountsInit /\ UploadsInit
               /\ used = "library" \/ (pub = NoRows /\ \A f, g \in Files : home[f] = home[g])
TenantsNext ==
  \/ used = "library" /\ Next /\ UNCHANGED <<used, accounts, uploads>>
  \/ used = "tokens" /\ AccountsNext /\ UNCHANGED <<used, vars, uploads>>
  \/ used = "upload" /\ (UploadsNext \/ AllAnswered) /\ UNCHANGED <<used, vars, accounts>>
TenantsSpec == TenantsInit /\ [][TenantsNext]_<<used, vars, accounts, uploads>>

(* The parts have their model values in common: one small group of permutations *)
(* does for all of them.                                                        *)
CONSTANTS t1, a1, a2, b1, b2, c1, c2, d1, d2
OneTeam == (a1 :> t1) @@ (a2 :> t1)
Alike   == Permutations({a1, a2}) \cup Permutations({b1, b2}) \cup Permutations({c1, c2})
           \cup Permutations({d1, d2})
================================================================================
