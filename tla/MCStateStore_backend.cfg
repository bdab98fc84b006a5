SPECIFICATION FairSpec
CONSTANTS
  backend = backend
  redeem = redeem
  Thread = {th1, th2, th3}
  Process = {backend}
  ProcessOf <- OneProcess
  Tables = 4
  Update = {redeem, u2, u3}
  Touches <- MCTouches
  NoUpdate = NoUpdate
  Nobody = Nobody
INVARIANTS
  NoLostUpdate
  WholeUpdates
  WholeReads
PROPERTIES
  AtomicSpec
  LockReleased
