SPECIFICATION Spec
CONSTANT Outputs <- AllOutputs
INVARIANT OffencesForfeit
CHECK_DEADLOCK FALSE
