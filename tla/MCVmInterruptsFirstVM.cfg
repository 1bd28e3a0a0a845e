SPECIFICATION Spec
CONSTANTS
  VMs <- MCFirstVM
  MODULE_VM_MANAGER = 1
  Kinds = {"SYSTEM"}
  MAX_QUEUE_SIZE = 3
  Removable = {}
  MaxRequests = 2
  MaxOverlaps = 0
  MaxTimers = 2
  MaxAnswers = 0
PROPERTY
  NoEndlessWait
