--------------------------- MODULE MCVariablesCache ---------------------------
(* Three adapters: compare (20 s), design context (25 s, with a deadline)    *)
(* and get_variables escalated (120 s), scaled to caps 1, 2 and 3.           *)
EXTENDS VariablesCache, TLC
CONSTANTS compare, context, escalated
MCCap == (compare :> 1) @@ (context :> 2) @@ (escalated :> 3)
==============================================================================
