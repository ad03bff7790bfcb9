SPECIFICATION Spec

CONSTANTS
  Devices = {d1}
  Calls = {c1, c2, c3}
  TokenIds = {t1, t2, t3}
  None = None

SYMMETRY Symmetry

CHECK_DEADLOCK FALSE

INVARIANTS
  OneUsable
  SignedOut
