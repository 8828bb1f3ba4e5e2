SPECIFICATION Spec
CONSTANTS
  root = root
  head = head
  user = user
  d1 = d1
  r = r
  System = System
  Users <- MCUsers
  Departments = {d1, System}
  Resources = {r}
  Contexts <- MCContexts
  Threads = {t1}
  Offers <- MCOffers
  SeedGrants <- MCNoGrants
  Sessions = {s1, s2}
  RequestIds = {q1}
  Profiles <- MCProfiles
  SeedProfile <- MCSeedProfile
  SeedManageable <- MCSeedManageable
  GlobalQueue = GlobalQueue
  NoCheck = NoCheck
  None = None
INVARIANTS
  StaleIsExplained
  AdminInv
PROPERTIES
  DecisionIsFinal
  ApprovedIsGranted
  StaysInDepartment
SYMMETRY MCSymmetry
