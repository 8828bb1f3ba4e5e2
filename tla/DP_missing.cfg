SPECIFICATION Spec
CONSTANTS
  p1 = p1
  m1 = m1
  m2 = m2
  Docs = {m1, m2}
  Plain = {}
  Blank = {}
  Api = Api
  Workers = {w1}
  Directory <- NoDirectory
  BatchJob = BatchJob
  NoDoc = NoDoc
  Torn = Torn
  MaxUploads = 2
  MaxBatches = 0
  MaxFaults = 0
INVARIANTS
  JobFindsDocument
CHECK_DEADLOCK FALSE
