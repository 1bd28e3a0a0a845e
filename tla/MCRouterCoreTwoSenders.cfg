SPECIFICATION Spec
CONSTANTS
  p1 = p1  p2 = p2  m1 = m1  m2 = m2  m3 = m3
  t1 = t1  t2 = t2  s1 = s1  s2 = s2  c1 = c1  c2 = c2
  Producers = {p1, p2}
  Msgs = {m1, m2, m3}
  MAX_QUEUE_SIZE = 3
  NoMsg = NoMsg
  Types = {t1, t2}
  TypeOf <- MCTypeOf
  Senders = {s1, s2}
  SenderOf <- MCSenderOf
  Callbacks = {c1}
  SIZE_MODULUS = 8
INVARIANT
  NothingLost
