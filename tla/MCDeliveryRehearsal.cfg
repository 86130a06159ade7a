SPECIFICATION Spec
CONSTANTS
  r1 = r1
  i1 = i1
  Runs = {r1}
  Records = {i1}
  Keys = {i1}
  KeyOf <- OwnKey
  Conc = 1
  Attests = FALSE
  NONE = NONE
  DryModes = {FALSE, TRUE}
PROPERTY ArmedSends
CHECK_DEADLOCK FALSE
