SPECIFICATION FairSpec
CONSTANTS
  us = us
  group = group
  c1 = c1
  g1 = g1
  g2 = g2
  n1 = n1
  n2 = n2
  none = none
  Us = us
  Groups = {group}
  Messages = {c1, g1, g2}
  ConfigMessages = {c1}
  KeyOf <- MCKeyOf
  Swarm <- MCSwarm
  Stored <- MCStored
  None = none
  PageSize = 1
  MaxFaults = 1
  MaxChanges = 1
CHECK_DEADLOCK FALSE
INVARIANT TypeOK
INVARIANT NothingSkipped
INVARIANT HandedOnce
 
PROPERTY PollingGoesOn
PROPERTY EveryMessageArrives
