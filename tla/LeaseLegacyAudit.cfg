SPECIFICATION Spec
CONSTANTS
  Client = {c1, c2}
  Token = {t1, t2, t3, t4, t5}
  NoToken = NoToken
  LeaseInterval = 1
  Backend = "legacy"
SYMMETRY Symmetry
INVARIANTS AuditMatchesTakeover
