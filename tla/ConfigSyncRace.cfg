SPECIFICATION Spec
CONSTANTS
  g1 = g1
  g2 = g2
  c1 = c1
  r1 = r1
  r2 = r2
  Groups = {g1, g2}
  Contacts = {c1}
  RunIds = {r1, r2}
  OtherKeys = {g1, c1}
  MaxChanges = 1
  MaxOther = 1
  MaxFaults = 1
CHECK_DEADLOCK FALSE
PROPERTY OnlyLeftGroupsAreDeleted
