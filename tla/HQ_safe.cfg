SPECIFICATION Spec
CONSTANTS
  Docs = {d1, d2, d3}
  Threads = {t1, t2}
  MaxQueue = 2
  MaxIndexings = 3
  Flaggable = {d1}
  NoDoc = NoDoc
  NoResult = NoResult
SYMMETRY Symmetry
INVARIANTS
  Bounded
  OneCheckPerDoc
  VerdictsAdvance
  QInv
