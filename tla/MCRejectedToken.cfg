CONSTANTS
  Labels = {"l"}
  Pats = {"p"}
  Clients = {"r"}
  MaxRequests = 2
  Nil = Nil
SPECIFICATION AccountsSpec
INVARIANTS RejectionNeedsRevocation
