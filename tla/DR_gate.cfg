SPECIFICATION Spec
CONSTANTS
  Requests = {q1, q2}
  Tasks = {t1, t2}
  Reviews = {r1, r2}
  Goals <- MCGoals
  MaxRuns = 2
  None = None
INVARIANTS
  DInv
  RanWasCleared
  PendingIsReviewable
  StraysOnlyByReplan
PROPERTIES
  ImplementsGate
SYMMETRY MCSymmetry
