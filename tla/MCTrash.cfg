SPECIFICATION Spec
CONSTANTS
  t1 = t1
  t2 = t2
  Proc = {t1, t2}
  h1 = h1
  h2 = h2
  submit = submit
  Mount = {h1, h2, submit}
  d1 = d1
  d2 = d2
  Dev = {d1, d2}
  p1 = p1
  p2 = p2
  p3 = p3
  d = d
  Path = {p1, p2, p3}
  Folder = {d}
  inside <- MCinside
  x = x
  y = y
  z = z
  Base = {x, y, z}
  basename <- MCbasename
  mount <- MCmount
  dev <- MCdev
  home <- MChome
  writable <- MCwritable
  sticky <- MCsticky
  open <- MCopen
  MaxNew <- MCMaxNew
  MaxCount <- MCMaxCount
  None = None
  Partial = Partial
INVARIANTS
  NothingIsLost
  InfoTellsOrigin
CHECK_DEADLOCK FALSE
