CONSTANTS
  t1 = t1  t2 = t2  p1 = p1  p2 = p2  f1 = f1  f2 = f2
  Teams = {t1, t2}
  Projects = {p1, p2}
  Files = {f1}
  TeamOf <- TwoTeams
  Readers = {r1}
  MaxRev = 1
  None = None
SPECIFICATION Spec
INVARIANTS UnregisteredLeavesNoGraph
