SPECIFICATION Spec
CONSTANTS
  Tasks = {t1}
  Callers = {c1, c2}
  None = None
PROPERTY ReservedNeverRemoved
CHECK_DEADLOCK FALSE
