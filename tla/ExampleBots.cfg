SPECIFICATION Spec
INVARIANTS PerfectNeverLoses LosesAsMeant
CHECK_DEADLOCK FALSE
