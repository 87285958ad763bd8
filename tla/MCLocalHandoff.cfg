SPECIFICATION LocalSpec
CONSTANTS
  Handoffs = {h1}
  Sessions = {session}
  Actors = {codex, claude}
  Claims = {lane1, lane2}
  Lanes = {lane1, lane2}
  People = {person}
  Facts = {result, note}
  Nil = Nil
  MaxClock = 1
  MaxRevision = 4
SYMMETRY Symmetry
INVARIANT ClaimsAreExclusive
INVARIANT LanesReportTruth
PROPERTY ImplementsAssignments
