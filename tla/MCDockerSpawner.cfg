SPECIFICATION Spec
CONSTANTS
  t = t
  s = s
  User = {t, s}
  Everyone = Everyone
  hA = hA
  hB = hB
  hP = hP
  Host = {hA, hB, hP, local}
  Localhost = local
  PortHost = {hP}
  c1 = c1
  NoCourse = c0
  Course = {c0, c1}
  v = v
  Volume = {v}
  y = y
  dot = dot
  here = here
  Name = {y, dot, here}
  Here = here
  Dotted = {dot, here}
  image = image
  FileName <- MCFileName
  Text = {zero, lab, image}
  NoAmount = zero
  LabPage = lab
  Blank = Blank
  Bad = Bad
  others = others
  Group = {others}
  Account <- MCAccount
  HostGroup <- MCHostGroup
  default_group = others
  default_gid = 100
  base_id = 3
  teacher_gid = 7
  Posts <- MCPosts
  SiteTraits <- MCSiteTraits
INVARIANTS
  TypeOK
  HomeIsUsers
  SharersDiffer
  LinksLeadToMounts
  MountsAreLinked
  
  ClosedOnlyInBetween
  SubmitIsOpen
  TeachersShareTask
PROPERTY
  StartIsAnswered
