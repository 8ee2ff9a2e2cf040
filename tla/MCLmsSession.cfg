SPECIFICATION Spec
CONSTANTS
  Conn = {c1, c2}
  l1 = l1
  l2 = l2
  l3 = l3
  m1 = m1
  m2 = m2
  Launch <- MCLaunch
  Lms = {m1, m2}
  LmsOf <- MCLmsOf
  Session = {s1, s2}
  None = None
INVARIANTS
  TypeOK
  InstanceIsOfTheLms
  ReportIsLinked
PROPERTY
  CookiesAreOfTheLaunch
