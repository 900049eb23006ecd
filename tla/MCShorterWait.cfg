CONSTANTS
  compare = compare  context = context  escalated = escalated
  Callers = {compare, context, escalated}
  Cap <- MCCap
  WithDeadline = {context}
  PosTTL = 4
  ErrTTL = 5
  SoftTTL = 2
SPECIFICATION Spec
PROPERTIES ShorterWaitNeverDenies
