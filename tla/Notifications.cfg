SPECIFICATION NotifyFairSpec
CONSTANTS
  Dispatchers = {d1, d2}
  Nobody = Nobody
  breach = breach
  outage = outage
  Fingerprints <- MCFingerprints
  Source <- MCSource
  Severity <- MCSeverity
  Choices <- MCChoices
  Outcomes = {"delivered", "unavailable"}
  DayLength = 2
  Window = 1
  LastTick = 3
  MaxEvents = 2
INVARIANTS DeliveredOnce
PROPERTIES OnlyOwnerSets DispatchesEnd
