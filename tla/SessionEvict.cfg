SPECIFICATION Spec
CONSTANTS
  Threads = {loop, w1}
  Loop = loop
  w1 = w1
  w2 = w2
  Serves <- ServesChanges
  Markers = {loop}
  Ids = {i1, i2}
  Objs = {o1, o2, o3, o4, o5}
  NoId = NoId
  NoObj = NoObj
  Cap = 1
  MaxUpdates = 2
  MaxFail = 1
  MaxAge = 1
  MaxCrash = 0
INVARIANTS MemoryBounded AloneTracked AloneKept QuietDeleteFinal
PROPERTIES NoEntryReplaced EvictionIsDurable
SYMMETRY IdSymmetry
CHECK_DEADLOCK FALSE
