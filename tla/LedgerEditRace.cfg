SPECIFICATION Spec

CONSTANTS
  Clients = {c1, c2}
  Editors = {c1, c2}
  Accounts = {a1, a2}
  Txns = {t1}
  SentTypes = {"income", "expense", "transfer"}
  Amounts = {1}
  Openings = {0}
  None = None

INVARIANTS
  Balanced

SYMMETRY
  MCSymmetry
