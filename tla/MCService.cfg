CONSTANTS
  Nil = Nil
  alice = alice
  bob = bob
  carol = carol
  s1 = s1
  h1 = h1
  x1 = x1
  f1 = f1
  c1 = c1
  c2 = c2
  kSession = kSession
  kFact = kFact
  kContext = kContext
  kSend = kSend
  kSendAgain = kSendAgain
  kAccept1 = kAccept1
  kAccept2 = kAccept2
  kBeat = kBeat
  kReturn = kReturn
  kFail = kFail
  Actors = {alice, bob, carol}
  Writers = {alice, bob}
  Sessions = {s1}
  Handoffs = {h1}
  Contexts = {x1}
  Facts = {f1}
  Claims = {c1, c2}
  CommandIds = {kSession, kFact, kContext, kSend, kSendAgain, kAccept1, kAccept2, kBeat, kReturn, kFail}
  Lease = 1
  MaxAttempts = 2
  MaxClock = 1
  Deployments <- MCDeployments
  Calls = {q1, q2}
SPECIFICATION FairSvcSpec
INVARIANT CompletedHasEvidence
PROPERTY ImplementsHandoff
PROPERTY LiveClaimExclusive
PROPERTY RefusedHadNoEffect
PROPERTY EveryCallAnswered
CHECK_DEADLOCK FALSE
