SPECIFICATION ScenarioSpec
CONSTANTS
  r1 = r1  r2 = r2  r3 = r3  u1 = u1
  e1 = e1  e2 = e2  e3 = e3  x1 = x1  x2 = x2
  p = p  q = q  n1 = n1  n2 = n2  w1 = w1  w2 = w2
  Request = {r1, r2, r3}
  Worker = {w1, w2}
  Calls <- SomeCalls
  Email = {e1, e2, e3}
  Word = {x1, x2}
  Password = {p, q}
  FullName = {n1, n2}
  Seeded <- OneUser
  Configured = FALSE
  MaxRestarts = 0
  Horizon = 2
  AccessLife = 0
  RefreshLife = 1
CHECK_DEADLOCK FALSE
INVARIANT HonouredUntilExpiry
