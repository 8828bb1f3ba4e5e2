SPECIFICATION Spec
CONSTANTS
  u1 = u1
  u2 = u2
  Workers = {w1}
  Users = {u1, u2}
  Ids = {c1, c2}
  Ops = {"update"}
  Dialect = "sqlite"
  SeedPerms <- MCSeedPerms
  Grantable <- MCGrantable
  MaxRows = 1
  TTL = 1
  MaxTime = 1
  OutsideWriters = FALSE
  ThreadedChecks = TRUE
  Losable = {}
  NoRecord = NoRecord
  NoRows = NoRows
INVARIANTS
  UnexecutedIsTrue
  PreviewHonoured
PROPERTIES
  TerminalIsFinal
  PermittedWhenApplied
SYMMETRY IdSymmetry
