SPECIFICATION Spec
CONSTANTS
  w1 = w1  w2 = w2  c1 = c1  c2 = c2  t1 = t1  t2 = t2  s1 = s1  s2 = s2
  Workers = {w1}
  Clients = {c1}
  Tasks = {t1}
  Closers = {s1}
  NoTask = NoTask
  NoThread = NoThread
PROPERTY
  ShutdownReturns
CHECK_DEADLOCK FALSE
