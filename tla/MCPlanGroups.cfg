SPECIFICATION Spec
CONSTANTS
  Types = {"person", "company"}
  Signals = {}
  Fields = {"f", "g", "h"}
  Uses = {"group", "people", "enrich", "judge", "write", "firms", "known", "send", "post", "handoff", "gone"}
  Manifest <- Adapters
  Texts <- TwoDeliveries
  Terminus = ""
  Groups = {"typed", "blind", "new", "touched"}
  GroupTypes <- GroupsBefore
  MaxSteps = 5
INVARIANT GroupsAdmit
CHECK_DEADLOCK FALSE
