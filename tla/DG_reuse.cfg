SPECIFICATION Spec
CONSTANTS
  Diagnoses = {a, b}
  Sessions = {s1}
  log = log
  metric = metric
  Tools = {log, metric}
  Required <- MCRequired
  StepLimit = 3
  ReplanLimit = 2
  LongestPlan = 3
  None = None
INVARIANTS
  EvidenceBeforeAnswer
CHECK_DEADLOCK FALSE
