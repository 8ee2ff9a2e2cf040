SPECIFICATION Spec
CONSTANTS
  t = t
  s = s
  User = {t, s}
  Everyone = Everyone
  hA = hA
  hP = hP
  Host = {hA, hP, local}
  Localhost = local
  PortHost = {hP}
  c1 = c1
  c2 = c2
  NoCourse = c0
  Course = {c0, c1, c2}
  v = v
  Volume = {v}
  x = x
  Name = {x}
  Text = {zero, lab}
  NoAmount = zero
  LabPage = lab
  Blank = Blank
  Bad = Bad
  others = others
  Group = {others}
  Account <- MCAccount
  HostGroup <- MCHostGroup
  default_group = others
  default_gid = 100
  base_id = 3
  teacher_gid = 7
  SiteTraits <- MCSiteTraits
  Posts <- MCPosts
  Port = {8001, 8002}
  Id = {1, 2}
  NoId = NoId
INVARIANTS
  TypeOK
  LiveIsKnown
  HomeIsFree
PROPERTIES
  StopEndsContainer
  StartIsAnswered
