SPECIFICATION FairSpec
CONSTANTS
  Bots = {a, b}
  NoBot = NoBot
  Declared0 = {"matches.build", "matches.schedule", "matches.ondeck"}
  Faults = {"kill_scheduler", "web"}
  MaxFaults = 1
  MaxClosings = 0
PROPERTIES EveryPairPlays
CHECK_DEADLOCK FALSE
