SPECIFICATION LifecycleSpec
CONSTANTS
  w1 = w1  w2 = w2  c1 = c1  c2 = c2  t1 = t1  t2 = t2  s1 = s1  s2 = s2
  Workers = {w1, w2}
  Clients = {c1, c2}
  Tasks = {t1, t2}
  Closers = {s1, s2}
  NoTask = NoTask
  NoThread = NoThread
  MaxVms = 2
  VmOf <- MCVmOf
INVARIANTS
  TypeOK
  LifecycleTypeOK
  TakenInOrder
  ActiveCounts
  
  TableIsExact

  
CHECK_DEADLOCK FALSE
