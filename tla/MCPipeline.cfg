SPECIFICATION Spec
CONSTANTS
  Bots = {a, b}
  NoBot = NoBot
  Declared0 = {"matches.build"}
  Faults = {"web", "kill_dispatcher", "kill_scheduler", "pod_build", "dispatcher_error", "scheduler_error", "pod_lost"}
  MaxFaults = 1
  MaxClosings = 1
SYMMETRY BotSymmetry
CONSTRAINT OneMishap
INVARIANTS TypeOK SchedulingBounded MatchesAccounted StopsBounded PairsCovered
PROPERTY PlaysTournament
CHECK_DEADLOCK FALSE
