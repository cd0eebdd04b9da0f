SPECIFICATION SessionsSpec
CONSTANTS
  Users = {a, b}
  Founders = {a}
  Handlers = {h1, h2}
  MaxPairs = 2
INVARIANTS TokensFollowTheirLogin LogoutIsImmediate
PROPERTIES AccountsAreMinded
SYMMETRY MCSymmetry
CHECK_DEADLOCK FALSE
