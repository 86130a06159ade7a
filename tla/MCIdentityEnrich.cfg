SPECIFICATION Spec
CONSTANTS
  email1 = email1
  email2 = email2
  slug1 = slug1
  slug2 = slug2
  hash1 = hash1
  hash2 = hash2
  i1 = i1
  i2 = i2
  Ids = {i1, i2}
  Keys = {email1, slug1, hash1}
  Tiers = 3
  Strength <- PersonTiers
  NONE = NONE
INVARIANT EnrichmentAddsNobody
CHECK_DEADLOCK FALSE
