SPECIFICATION FairSpec
CONSTANTS
  Turns = {t1, t2}
  NoTurn = NoTurn
  Outputs <- MCOutputs
  Clicks <- Choices
  MaxLoads = 2
  MaxMatchTurns = 1
  MaxFaults = 1
INVARIANTS TypeOK PendingTurnIsCurrent SameJudgement
PROPERTIES PageIsGame TurnEnds
CHECK_DEADLOCK FALSE
