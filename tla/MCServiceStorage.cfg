CONSTANTS
  Nil = Nil
  k1 = k1
  k2 = k2
  k3 = k3
  k4 = k4
  alice = alice
  bob = bob
  fp1 = fp1
  fp2 = fp2
  r1 = r1
  r2 = r2
  d1 = d1
  d2 = d2
  CommandIds = {k1, k2, k3, k4}
  Actors = {alice, bob}
  Fingerprints = {fp1, fp2}
  Resources = {r1, r2}
  Documents = {d1, d2}
  Commands <- MCCommands
  Conns = {t1, t2}
  Calls = {x1, x2, x3}
  PoolConns = {c1, c2}
  None = None
SPECIFICATION StorageSpec
INVARIANT NoStorageConflict
PROPERTY CommittedIsNeverRefused
PROPERTY ImplementsLedger
PROPERTY LockIsReleased
INVARIANT PoolConserved
PROPERTY EveryCallerAnswered
PROPERTY PermitsComeBack
