SPECIFICATION Spec
CONSTANTS
  Questions = {q1, q2, q3}
  Workers = 2
  None = None
INVARIANTS TypeOK TurnsKept NoGhost
PROPERTY LeavesNoTrace
SYMMETRY QuestionSymmetry
CONSTRAINT MarksWithTwo
