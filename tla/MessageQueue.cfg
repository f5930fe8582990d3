SPECIFICATION FairSpec
CONSTANTS
  c1 = c1
  g1 = g1
  g2 = g2
  k1 = k1
  alice = alice
  group = group
  us = us
  none = none
  Messages <- AllMessages
  Dest <- AllDest
  FollowUp <- AllRotation
  Contacts <- OnlyAlice
  Us = us
  NoMessage = none
  Attempts = 2
  CallbackMayThrow = TRUE
  MayCrash = TRUE
CHECK_DEADLOCK FALSE
INVARIANT TypeOK
INVARIANT TasksFollowCache
INVARIANT NoMessageForgotten
 
PROPERTY FollowedUpBeforeForgotten
PROPERTY EveryMessageLeaves
