CONSTANTS
  Nil = Nil
  Paths = {p1}
  Requests = {r1, r2}
  Contents = {b1, b2}
  Calls = {k1}
  Adapters = {"local", "s3"}
  MaxGen = 2
  Ttl = 1
  Grace = 1
  GcLease = 1
  Retention = 1
  Batch = 1
  MaxFailures = 1
  MaxCrashes = 1
SPECIFICATION FairSpec
INVARIANT ReadersFindBody
INVARIANT NothingLeaks
PROPERTY PublishAnswersAgree
PROPERTY UnpublishedIsDeleted
