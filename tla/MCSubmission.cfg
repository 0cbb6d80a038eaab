SPECIFICATION FairSpec
CONSTANTS
  Requests = {r1, r2, r3}
  Browsers = {b1, b2}
  Names <- MCNames
  NoBrowser = NoBrowser
  NoToken = NoToken
  Client0 = {}
  MaxFaults = 1
INVARIANTS TypeOK VersionsContiguous ConflictOnlyInFamily CookieBacked BuildsHaveRows SomeoneConnects
PROPERTIES OwnersFixed EveryUploadEnds
\* Every upload has ended.
CHECK_DEADLOCK FALSE
