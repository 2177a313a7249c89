SPECIFICATION Spec
CONSTANTS
  t1 = t1  t2 = t2  t3 = t3  a1 = a1  a2 = a2  n1 = n1  n2 = n2
  Threads = {t1, t2, t3}
  Addrs = {a1, a2}
  Nics = {n1, n2}
  Qps = {1, 2}
  MaxHandshakes = 3
CHECK_DEADLOCK FALSE
INVARIANTS OneHandshake NoStraySessions OwnSessions
PROPERTY HandshakesEnd
