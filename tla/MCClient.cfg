CONSTANTS
  Nil = Nil
  h1 = h1
  h2 = h2
  h3 = h3
  alice = alice
  bob = bob
  src = src
  l1 = l1
  Handoffs = {h1, h2, h3}
  Actors = {alice, bob}
  Sources = {src}
  Queries <- MCQueries
  Routes <- MCRoutes
  OldLedgers <- MCOldLedgers
  Listers = {l1}
  Limit = 1
  MaxSeq = 5
  Processes = {w1, w2}
  Payloads = {packet1, packet2}
  MaxOps = 3
  Torn = Torn
  Identities = {alice, bob}
  Absent = Absent
  Captures = {e1, e2}
  Reviews = {r1, r2}
  Slashes = {s1}
  NoFile = NoFile
  home = home
  work = work
  us = us
  them = them
  port1 = port1
  port2 = port2
  ours = ours
  theirs = theirs
  c1 = c1
  c2 = c2
  m1 = m1
  m2 = m2
  Stores = {home, work}
  SourceIds = {us, them}
  Ports = {port1, port2}
  Calls = {c1, c2}
  Managers = {m1, m2}
  Seeds <- MCSeeds
  Requests <- MCRequests
  Orders <- MCOrders
  Foreign <- MCForeign
  MaxServers = 2
  None = None
CHECK_DEADLOCK FALSE
SPECIFICATION ClientSpec
INVARIANT IndexAgrees
INVARIANT ListingMissesOnlyMoved
INVARIANT NothingListedTwice
INVARIANT OutboxAccounts
INVARIANT RetriesReuseOperations
INVARIANT EntriesAccounted
INVARIANT ReportsAreTrue
PROPERTY BoundCallsStayInSource
