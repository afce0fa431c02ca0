CONSTANTS
  Nodes = {n1, n2, n3}
  Commands = {c1, c2}
  None = None
  MaxTerm = 2
  MaxEarlyTerm = 1
  MaxDisruptions = 1
  MaxInbox = 1
SPECIFICATION Spec
INVARIANTS
  TypeOK
  ElectedOncePerTerm
  SafeUnlessStrayed
  NobodyForgottenUnlessKept
CHECK_DEADLOCK FALSE
SYMMETRY Symmetry
