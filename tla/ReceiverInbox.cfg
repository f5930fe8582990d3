SPECIFICATION Spec
CONSTANTS
  t1 = t1
  t2 = t2
  g1 = g1
  g2 = g2
  y = y
  n = n
  i1 = i1
  j1 = j1
  b = b
  u = u
  alice = alice
  grp = grp
  grp2 = grp2
  k0 = k0
  k1 = k1
  k2 = k2
  Messages = {u, g2, n, j1}
  Kind <- KindOf
  Chats = {alice, grp, grp2}
  Chat <- ChatOf
  Groups = {grp, grp2}
  Keys = {k0, k1, k2}
  KeyGroup <- GroupOfKey
  Key <- KeyOf
  NoKey = nokey
  Known = {k0}
  MaxAttempts = 3
  LateLimit = 1
  MayFail = TRUE
  MayMerge = FALSE
  MayCrash = TRUE
CHECK_DEADLOCK FALSE
PROPERTY ImplementsDurableInbox
