SPECIFICATION Spec
CONSTANTS
  r1 = r1
  r2 = r2
  i1 = i1
  Runs = {r1, r2}
  Records = {i1}
  Keys = {i1}
  KeyOf <- OwnKey
  Conc = 1
  Attests = TRUE
  NONE = NONE
  DryModes = {FALSE}
SYMMETRY OwnKeySymmetry
INVARIANTS NoDoubleSend NothingForgotten HeldIsReleasable
PROPERTY Promise
CHECK_DEADLOCK FALSE
