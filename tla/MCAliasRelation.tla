---- MODULE MCAliasRelation ----
(* Two variables of the compared file, two of one library, one of another.  *)
EXTENDS AliasRelation
MCFileOf == [button |-> "page", accent |-> "page", brand |-> "A", red |-> "A", base |-> "B"]
MCMayAlias == [button |-> {"accent", "brand"}, accent |-> {"brand", "base"}, brand |-> {"red", "base"},
               red |-> {"base"}, base |-> {}]
====
