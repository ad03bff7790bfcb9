SPECIFICATION Spec

CONSTANTS
  Clients = {c1, c2}
  Editors = {c1}
  Accounts = {a1, a2}
  Txns = {t1, t2}
  SentTypes = {"income", "expense", "transfer"}
  Amounts = {1}
  Openings = {0, 3}
  None = None

INVARIANTS
  Balanced

PROPERTIES
  OpeningSettles
  ImplementsAtomicLedger

SYMMETRY
  MCSymmetry
