SPECIFICATION Spec
CONSTANTS
  Requests = {r1, r2}
  Browsers = {b1, b2}
  Names <- MCNames
  NoBrowser = NoBrowser
  NoToken = NoToken
  Client0 = {}
  MaxFaults = 0
INVARIANT NameLocked
\* Every upload has ended.
CHECK_DEADLOCK FALSE
