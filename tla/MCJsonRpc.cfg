\* Three requests with or without one key, a restart of the caller, moving time.
SPECIFICATION Spec
CONSTANTS
  Requests = {q1, q2, q3}
  Keys = {k1}
  NoKey = NoKey
  Bodies = {b1, b2}
  Keyed = {b1}
  MaxRestarts = 1
  ProfileTTL = 1
  IdemTTL = 2
  MaxDelay = 1
  MaxTime = 2
SYMMETRY RequestSymmetry
INVARIANTS
  AnswerFitsRequest
PROPERTIES
  RunsOnlyWhenForgotten
  RetiredKeyExpires
CHECK_DEADLOCK FALSE
