CONSTANTS
  Captures = {e1, e2}
  Reviews = {r1}
  Slashes = {}
  NoFile = NoFile
CHECK_DEADLOCK FALSE
SPECIFICATION ReviewSpec
INVARIANT UntouchedEntriesStay
