SPECIFICATION Spec
CONSTANTS
  Requests = {r1, r2}
  Browsers = {b1}
  Names <- MCNames
  NoBrowser = NoBrowser
  NoToken = NoToken
  Client0 = {"_connection", "_channel", "_events_exchange"}
  MaxFaults = 0
INVARIANT ClaimerHasCookie
\* Every upload has ended.
CHECK_DEADLOCK FALSE
