SPECIFICATION Spec
CONSTANTS
  NoSecret = NoSecret
  Users = {u1}
  Handlers = {h1, h2}
  Secrets = {s1, s2}
  Thresholds <- MCThresholds
  MaxFails = 4
INVARIANTS LockoutHolds NoLoginPastLock SecretMeansEnabled
CHECK_DEADLOCK FALSE
