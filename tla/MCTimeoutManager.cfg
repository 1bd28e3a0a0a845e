SPECIFICATION Spec
CONSTANTS
  MaxIds = 2
  Delays <- MCDelays
  MaxTime = 4
INVARIANTS
  TypeOK
  QueueMatchesMap
  CancelIsFinal
  OneShotFiresOnce
PROPERTIES
  ArmedFires
