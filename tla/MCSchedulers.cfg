SPECIFICATION Spec
CONSTANTS
  Kinds = {"Quota", "CFS", "EDF", "Hybrid"}
  VMs = {1, 2}
  Priorities <- MCPriorities
  MaxVruntime = 1000
  MaxSlices = 1
  MaxTime = 2
CONSTRAINT
  MCUntilRace
ACTION_CONSTRAINT
  MCStopBetweenRounds
INVARIANTS
  TypeOK
  ReadyIsQueued
  ClassesAgree
PROPERTIES
  VruntimeNeverFalls
