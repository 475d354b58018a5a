SPECIFICATION Spec
CONSTANTS
  Threads = {loop, w1, w2}
  Loop = loop
  w1 = w1
  w2 = w2
  Serves <- ServesUpdates
  Markers = {loop}
  Ids = {i1}
  Objs = {o1, o2, o3, o4, o5}
  NoId = NoId
  NoObj = NoObj
  Cap = 1
  MaxUpdates = 2
  MaxFail = 1
  MaxAge = 0
  MaxCrash = 1
INVARIANT AckedRecoverable
CHECK_DEADLOCK FALSE
