SPECIFICATION Spec
CONSTANTS
  VMs <- MCOneVM
  MODULE_VM_MANAGER = 1
  Kinds = {"WRITE"}
  MAX_QUEUE_SIZE = 2
  Removable = {2}
  MaxRequests = 2
  MaxAnswers = 1
  MaxOverlaps = 1
  MaxTimers = 2
ACTION_CONSTRAINT
  MCStopped
INVARIANTS
  TypeOK
  BlockedHasWaker
  SuspendedHasAnswer
PROPERTIES
  SuspendedIsResumed
  BlockedIsWoken
  PendingIsCleared
