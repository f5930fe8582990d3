SPECIFICATION FairSpec
CONSTANTS
  t1 = t1
  t2 = t2
  g1 = g1
  g2 = g2
  y = y
  n = n
  i1 = i1
  j1 = j1
  b = b
  u = u
  alice = alice
  grp = grp
  grp2 = grp2
  k0 = k0
  k1 = k1
  k2 = k2
  Messages = {g1, y, t1}
  Kind <- KindOf
  Chats = {alice, grp, grp2}
  Chat <- ChatOf
  Groups = {grp, grp2}
  Keys = {k0, k1, k2}
  KeyGroup <- GroupOfKey
  Key <- KeyOf
  NoKey = nokey
  Known = {k0}
  MaxAttempts = 3
  LateLimit = 0
  MayFail = FALSE
  MayMerge = FALSE
  MayCrash = FALSE
CHECK_DEADLOCK FALSE
PROPERTY DecryptedOnceTheKeyComes
