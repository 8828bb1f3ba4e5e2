SPECIFICATION FairSpec
CONSTANTS
  u1 = u1
  u2 = u2
  Workers = {w1, w2}
  Users = {u1}
  Ids = {c1}
  Ops = {"insert", "delete"}
  Dialect = "mysql"
  SeedPerms <- MCSeedPerms
  Grantable <- MCNoGrants
  MaxRows = 1
  TTL = 1
  MaxTime = 1
  OutsideWriters = TRUE
  ThreadedChecks = FALSE
  Losable = {"confirmation_confirmed"}
  NoRecord = NoRecord
  NoRows = NoRows
INVARIANTS
  AtMostOnce
  ExecutedIsTrue
  AppliedWasAudited
  IInv
PROPERTIES
  ImplementsOneShot
  ExecutingSettles
