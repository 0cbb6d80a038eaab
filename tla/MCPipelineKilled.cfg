SPECIFICATION FairSpec
CONSTANTS
  Bots = {a, b}
  NoBot = NoBot
  Declared0 = {"matches.build", "matches.schedule", "matches.ondeck"}
  Faults = {"kill_dispatcher"}
  MaxFaults = 1
  MaxClosings = 0
PROPERTY ReadyBotsArePaired
CHECK_DEADLOCK FALSE
