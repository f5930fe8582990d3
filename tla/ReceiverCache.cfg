SPECIFICATION FairSpec
CONSTANTS
  t1 = t1
  t2 = t2
  g1 = g1
  g2 = g2
  y = y
  n = n
  i1 = i1
  j1 = j1
  b = b
  u = u
  alice = alice
  grp = grp
  grp2 = grp2
  k0 = k0
  k1 = k1
  k2 = k2
  Messages = {t1, g1, y}
  Kind <- KindOf
  Chats = {alice, grp}
  Chat <- ChatOf
  Groups = {grp}
  Keys = {k1}
  KeyGroup <- GroupOfKey
  Key <- KeyOf
  NoKey = nokey
  Known = {}
  MaxAttempts = 3
  LateLimit = 0
  MayFail = FALSE
  MayMerge = TRUE
  MayCrash = TRUE
CHECK_DEADLOCK FALSE
INVARIANT TypeOK
INVARIANT StoredOnce
INVARIANT NoRowStranded
PROPERTY EveryTextIsHandled
PROPERTY NoRowStaysForEver
