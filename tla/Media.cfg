SPECIFICATION MediaSpec
CONSTANTS
  Streams = {s1, s2}
  Completions = {c1, c2}
  Sizes = {1, 2}
INVARIANT
  NotFoundMeansMissing
CHECK_DEADLOCK FALSE
