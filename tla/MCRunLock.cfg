SPECIFICATION Spec
CONSTANTS
  p1 = p1
  p2 = p2
  p3 = p3
  q1 = q1
  f1 = f1
  f2 = f2
  f3 = f3
  f4 = f4
  Procs = {p1, p2, p3}
  Probers = {q1}
  Files = {f1, f2, f3, f4}
  Attempts = 2
  NONE = NONE
SYMMETRY Symmetry
INVARIANTS TypeOK MutualExclusion ProbeTruth FilesAreLeftovers
CHECK_DEADLOCK FALSE
