CONSTANTS
  Variables = {"button", "accent", "brand", "red", "base"}
  FileOf <- MCFileOf
  Here = "page"
  MayAlias <- MCMayAlias
  Cap = 3
  Unset = Unset
SPECIFICATION RelationSpec
INVARIANTS NonRelationIsProven
