SPECIFICATION Spec
CONSTANTS
  Concepts = {c1, c2}
PROPERTY FailureLeavesWhole
