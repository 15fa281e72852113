SPECIFICATION Spec
CONSTANTS
  n1 = n1
  n2 = n2
  n3 = n3
  t1 = t1
  t2 = t2
  t3 = t3
  m1 = m1
  m2 = m2
  m3 = m3
  c1 = c1
  c2 = c2
  c3 = c3
  s1 = s1
  s2 = s2
  d1 = d1
  d2 = d2
  a1 = a1
  a2 = a2
  a3 = a3
  a4 = a4
  JsonJobs = {n1, n2, n3}
  TextJobs = {t1, t2, t3}
  ClaudeJobs = {m1, m2, m3}
  Changes = {c1, c2, c3}
  Sends = {s1, s2}
  Drains = {d1, d2}
  Adds = {a1, a2, a3, a4}
  Unlimited = {a4}
  Workloads = {{n1, n2, n3}, {t1, t2, t3}, {m1, m2, m3}, {c1, c2, c3}, {s1, s2, d1, d2}, {a1, a2, a3}, {a1, a2, a4}}
  MaxParallel = 2
  MaxCrashes = 1
INVARIANTS
  TypeOK
  UpdatesAreKept
  ConfigIsCoherent
  
  LimitNeedsOverlap
CHECK_DEADLOCK FALSE
