CONSTANTS
  Callers = {c1, c2}
  Libs = {l1, l2}
  TTL = 3
  Retry = 2
  N = 12
  Parent <- MCParent
  Content = {2, 8, 10}
  SameBox = {3, 6}
  Decor = {4, 5, 11, 12}
  Stack = {0, 1, 7}
  Sig <- MCSig
  Caps <- MCCaps
  Ceiling = 3
  Exclusions <- MCExcl
  FirstPairs <- MCFirst
  None = None
  Unread = Unread
  f1 = f1  f2 = f2  f3 = f3  s1 = s1
  Frames = {f1, f2, f3}
  Subtrees = {s1}
  Cap <- MCCap
  WithDeadline = {f2}
  MaxDeadline = 2
  GovernorLimit = 2
  HeavyLimit = 1
  Labels = {"l"}
  Pats = {"p", "q"}
  Clients = {"r"}
  MaxRequests = 3
  Nil = Nil
SPECIFICATION LoopsSpec
INVARIANTS PublishedTogether ReceiptIsHonest SlotsExact SlotsFollowCalls NeverLate
PROPERTIES StaleGoodRetained CallersReturn GraphRecovers LoopEnds HeavyIsAPool EveryCallReturns RevokedEndInvalid
