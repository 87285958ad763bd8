CONSTANTS
  EntityIds = {1, 2}
  FactIds = {1, 2}
  Contents = {nx}
  MemoIds = {1, 2, 3}
  Threads = {t1}
  nx = nx
  ny = ny
  pa = pa
  pb = pb
  pc = pc
  Names = {nx, ny}
  Phrases = {pa, pb, pc}
  Decisions = {pa, pb}
  Fleeting = {pc}
  Alike <- AlikePairs
  Expired = Expired
  Scenes <- OnlyDecision
  Nil = Nil
SPECIFICATION RecallSpec
INVARIANT OneDecisionIsCurrent
CHECK_DEADLOCK FALSE
