CONSTANTS
  Nodes = {1, 2, 3, 4, 5, 6, 7}
  Parent <- MCParent
  Area <- MCArea
  MaxCalls = 7
  Affine = {2, 6}
  Anchors <- MCAnchors
  Scope = "s"
  File <- MCFile
  TypeOf <- MCTypeOf
  Wanted = "FRAME"
  FirstDepth = 2
  BatchSize = 2
  CallCap = 6
  None = None
  NotYet = NotYet
  Unset = Unset
  Nothing = Nothing
  Colls = {"theme", "size", "page", "base"}
  ModesOf <- MCModesOf
  Default <- MCDefault
  Suffix <- MCSuffix
  LocalId <- MCLocalId
  Own = {"page"}
  NodePins <- MCNodePins
  Vars = {"accent", "brand", "gap", "local", "copy", "red"}
  CollOf <- MCCollOf
  Val <- MCVal
  Index = {"local", "copy"}
  Synced = {"accent", "brand", "gap", "copy", "red"}
  NodeLevel = 2
  Depth = 2
  Attempts = 2
  MaxHops = 1
  MaxLocalHops = 0
  Plain = Plain
  Unmapped = Unmapped
  Variables = {"button", "link", "brand", "red", "base"}
  FileOf <- MCFileOf
  Here = "page"
  MayAlias <- MCMayAlias
  Cap = 3
  Contents <- MCContents
  Moded = {"brand"}
  Components = {"c1", "c2"}
  TimeBudget = 3
  VariablesGate = 3
  Gate = 2
  Reserve = 1
  Sizes <- MCSizes
  SizeBudget = 6
SPECIFICATION WalksSpec
INVARIANTS AnswerIsSound SilenceIsComplete ResultIsTrue  RelationIsProven
  PaintsAreDefault AnswerAccounts
PROPERTIES EveryWalkReturns
