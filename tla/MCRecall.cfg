CONSTANTS
  EntityIds = {1, 2}
  FactIds = {1, 2}
  Contents = {nx}
  MemoIds = {1, 2, 3}
  Threads = {t1, t2}
  nx = nx
  ny = ny
  pa = pa
  pb = pb
  pc = pc
  Names = {nx, ny}
  Phrases = {pa, pb, pc}
  Decisions = {pa, pb}
  Fleeting = {pc}
  Alike <- AlikePairs
  Expired = Expired
  Scenes <- AllScenes
  Nil = Nil
SPECIFICATION RecallSpec
 
INVARIANT CachesFollow
INVARIANT HistoriesEnd
CHECK_DEADLOCK FALSE
