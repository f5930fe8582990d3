SPECIFICATION GroupSpec
CONSTANTS
  Us = us
  Admin = admin
  People = {us, admin, bob, carol}
  LastUpdate = 3
  Tolerance = 3
  MaxConfigs = 1
  MaxKills = 1
SYMMETRY Others
INVARIANT GroupTypeOK
 
INVARIANT OursAndAdminStay
CHECK_DEADLOCK FALSE
