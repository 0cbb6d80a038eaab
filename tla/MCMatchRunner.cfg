SPECIFICATION FairSpec
CONSTANT Outputs <- AllOutputs
INVARIANTS TypeOK RecordIsAGame WinnerMadeLastMove NeverFallsOff
PROPERTIES PlaysTicTacToe Terminates
\* A match ends.
CHECK_DEADLOCK FALSE
