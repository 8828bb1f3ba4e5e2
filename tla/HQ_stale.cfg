SPECIFICATION FairSpec
CONSTANTS
  Docs = {d1}
  Threads = {t1, t2}
  MaxQueue = 2
  MaxIndexings = 2
  Flaggable = {}
  NoDoc = NoDoc
  NoResult = NoResult
PROPERTIES
  IndexedGetsVerdict
CHECK_DEADLOCK FALSE
