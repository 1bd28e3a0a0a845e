SPECIFICATION Spec
CONSTANTS
  VMs = {1, 2}
  Priorities <- MCPriorities
  MaxVruntime = 2
  MaxSlices = 2
  MaxTime = 0
PROPERTIES
  AllReadyGetQuota
