SPECIFICATION Spec
CONSTANTS
  p = p
  q = q
  s = s
  t = t
  a = a
  server = server
  cli = cli
  Procs = {server, cli}
  Ids = {p, q, s, t, a}
  Summaries = {s, t}
  Atoms = {a}
  Clash <- MCClash
  Same <- MCSame
  None = None
  MaxOps = 5
SYMMETRY Symmetry
CHECK_DEADLOCK FALSE
INVARIANTS
  MInv
  OneVersion
  DeprecatedAll
PROPERTIES
  TransitionsAreLegal
