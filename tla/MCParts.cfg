SPECIFICATION Spec
INVARIANTS TypeOK OnceWhileKeyed PoolAccounts BookHolds WindowHolds JudgmentIsReused
  PaidOncePerWindow SegmentHolds PlanHolds FetchHolds AnswersArePaid ReceiptHolds
  RegistryHolds InstallHolds IntakeHolds SqlHolds BundleHolds FileHolds InstantlyHolds
PROPERTIES KnownKeysStand Returns ProcessEnds AnswersAreCollected SessionEnds
CHECK_DEADLOCK FALSE
