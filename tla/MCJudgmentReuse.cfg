SPECIFICATION Spec
CONSTANTS
  Roles = {"compose"}
  Questions = {"q1", "q2"}
  Facts = {"f1", "f2"}
  Provides = {"p1", "p2"}
  Cache = 1
  MaxClock = 2
  MaxChanges = 2
  MaxEvents = 2
  MaxRows = 3
INVARIANT FieldsAreCurrent
CHECK_DEADLOCK FALSE
