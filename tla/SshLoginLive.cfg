SPECIFICATION FairSpec
CONSTANTS
  Attempts = {a1, a2}
  Subjects = {s1}
  Nobody = Nobody
  JIT = TRUE
  TTL = 2
  Skews <- LevelOrAhead
  MaxTime = 3
CHECK_DEADLOCK FALSE
PROPERTIES
  LoginConcludes
