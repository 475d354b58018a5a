SPECIFICATION FairSpec
CONSTANTS
  Tasks = {t1}
  Callers = {c1, c2}
  None = None
INVARIANTS TypeOK NoOrphanClaim ReservedKept TaskKept
PROPERTIES LeaseHeld EveryCallReturns
CHECK_DEADLOCK FALSE
