SPECIFICATION Spec
CONSTANTS
  Requests = {q1, q2}
INVARIANT
  OneAdvance
CHECK_DEADLOCK FALSE
