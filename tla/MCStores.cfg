CONSTANTS
  compare = compare  context = context  escalated = escalated
  Callers = {compare, context, escalated}
  Cap <- MCCap
  WithDeadline = {context}
  PosTTL = 4
  ErrTTL = 5
  SoftTTL = 2
  Readers = {c1, c2}
  Adapters = {f1, f2}
  VersionTTL = 2
  StructureTTL = 1
  Timeout = 1
  LastRevision = 2
  MaxNow = 4
  None = None
  f1 = f1  f2 = f2  g1 = g1  c1 = c1  c2 = c2
  Hydrators = {c1, c2}
  Slots = {f1, f2, g1}
  OwnerOf <- MCOwnerOf
  Depths = {1, 2}
  Resident <- MCResident
  PerTenant = 3
  Global = 4
SYMMETRY Alike
SPECIFICATION StoresSpec
INVARIANTS NotResurrected ReadsAreBounded NeverUnderReports WithinBudgets
PROPERTIES DenialIsWarranted NeverRegresses HydratedMeansHeld
