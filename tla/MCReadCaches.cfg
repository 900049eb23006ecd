CONSTANTS
  k1 = k1  k2 = k2  k3 = k3
  o1 = o1  o2 = o2
  Caches = {nodes, variables}
  Keys = {k1, k2, k3}
  Weights = {0, 1, 2, 4, 5}
  MaxEntries = 2
  MaxEntryBytes = 4
  MaxBytes = 3
  NoToken = NoToken
  Owners = {o1, o2}
  TTL = 2
  HardCap = 3
  MaxOwnerBytes = 3
  MaxStoreBytes = 4
  Overhead = 1
  Sizes = {0, 1}
  MaxMints = 2
  MaxUploads = 3
  MaxNow = 4
SYMMETRY Alike
SPECIFICATION KeptSpec
INVARIANTS SessionOutlivesRefs AccountsAgree WithinBounds
PROPERTIES OnlyPressureEvicts OldestLeaveFirst
