CONSTANTS
  t1 = t1  a1 = a1  a2 = a2  b1 = b1  b2 = b2  c1 = c1  c2 = c2  d1 = d1  d2 = d2
  Teams = {t1}
  Projects = {a1, a2}
  Files = {b1, b2}
  TeamOf <- OneTeam
  Readers = {}
  MaxRev = 1
  None = None
  Nil = Nil
  Unwritten = Unwritten
  Pats = {d1, d2}
  Labels = {b1, b2}
  Clients = {c1, c2}
  MaxRequests = 4
  Keys = {b1, b2}
  Uploads = {"u", "v", "w"}
SYMMETRY Alike
SPECIFICATION TenantsSpec
INVARIANTS OneDefault VerdictsAreTheirs
PROPERTIES EvictionNeedsEvidence DefaultKept StoredReplaces
