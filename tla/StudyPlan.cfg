SPECIFICATION Spec
CONSTANTS
  Concepts = {c1, c2, c3}
INVARIANTS TypeOK PlanWhole ReportAgrees FileWhole
PROPERTY PlanSpec
SYMMETRY ConceptSymmetry
CONSTRAINT NotHurt
