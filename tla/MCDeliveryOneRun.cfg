SPECIFICATION Spec
CONSTANTS
  r1 = r1
  i1 = i1
  i2 = i2
  Runs = {r1}
  Records = {i1, i2}
  Keys = {i1, i2}
  KeyOf <- OwnKey
  Conc = 2
  Attests = TRUE
  NONE = NONE
  DryModes = {FALSE, TRUE}
SYMMETRY OwnKeySymmetry
INVARIANTS TypeOK PassedMeansHandled
CHECK_DEADLOCK FALSE
