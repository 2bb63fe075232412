SPECIFICATION FairSpec
CONSTANTS
  Client = {c1, c2}
  Token = {t1, t2, t3, t4, t5, t6}
  NoToken = NoToken
  LeaseInterval = 1
  Backend = "returning"
ACTION_CONSTRAINT FirstFreshToken
INVARIANTS TypeOK AtMostOneHolder ReloadTellsHit AuditMatchesTakeover
PROPERTIES ImplementsLeaseSpec OrphanRecovered
