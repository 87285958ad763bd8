CONSTANTS
  Nil = Nil
  k1 = k1
  k2 = k2
  alice = alice
  bob = bob
  fp = fp
  shared = shared
  private = private
  d1 = d1
  CommandIds = {k1, k2}
  Actors = {alice, bob}
  Fingerprints = {fp}
  Resources = {shared, private}
  Documents = {d1}
  Commands <- MCCommands
  Audience <- MCAudience
  Pullers = {p1, p2}
  Profiles = {bob}
  Limit = 1
  MaxEpoch = 2
SPECIFICATION FairResSpec
INVARIANT RestoredIsProjection
PROPERTY RestoredPullCovers
PROPERTY PullsEnd
