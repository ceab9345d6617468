SPECIFICATION FairSpec
CONSTANTS
  u1 = u1
  u2 = u2
  k = k
  NoKey = NoKey
  Posts = {1, 2}
  Users = {u1, u2}
  Author <- OneAuthor
  Key <- OneKey
  Creator = u1
  Members = {u2}
  Window = 1
  Consumers = {c1, c2}
  None = None
  MaxTroubles = 1
INVARIANTS
  AnswerIsStored
  RetryFindsFirst
PROPERTY MembersNotified
CHECK_DEADLOCK FALSE
