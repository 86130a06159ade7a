SPECIFICATION Spec
CONSTANTS
  Bindings <- ADelivery
  Replies <- Webhook
  Items <- OneRecord
  PageDefault = 1
  MaxSessions = 2
INVARIANT AtMostOneCopy
CHECK_DEADLOCK FALSE
