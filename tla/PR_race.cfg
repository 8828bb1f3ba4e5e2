SPECIFICATION Spec
CONSTANTS
  root = root
  head = head
  user = user
  d1 = d1
  r = r
  System = System
  Users <- MCUsers
  Departments = {d1, System}
  Resources = {r}
  Contexts <- MCContexts
  Threads = {t1}
  Offers <- MCOffers
  SeedGrants <- MCAllowed
  Sessions = {s1}
  RequestIds = {q1}
  Profiles <- MCProfiles
  SeedProfile <- MCSeedProfile
  SeedManageable <- MCSeedManageable
  GlobalQueue = GlobalQueue
  NoCheck = NoCheck
  None = None
INVARIANTS
  Coherent
