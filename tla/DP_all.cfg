SPECIFICATION FairSpec
CONSTANTS
  p1 = p1
  m1 = m1
  m2 = m2
  Docs = {p1, m1}
  Plain = {p1}
  Blank = {}
  Api = Api
  Workers = {w1}
  Directory <- OneFile
  BatchJob = BatchJob
  NoDoc = NoDoc
  Torn = Torn
  MaxUploads = 2
  MaxBatches = 1
  MaxFaults = 1
INVARIANTS
  CopyInv
  RowInv
  IndexedHasChunks
  PlainNeverParsed
  VerdictHasRows
  RowsBounded
PROPERTIES
  EveryJobEnds
CHECK_DEADLOCK FALSE
