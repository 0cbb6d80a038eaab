SPECIFICATION FairSpec
CONSTANTS
  Probes = {p1}
  Running0 = {"pod_builder", "ondeck_handler"}
  Working = {"pod_builder"}
  MaxFaults = 1
INVARIANTS TypeOK HealthyWasHealthy ResolvedOnce
PROPERTY ProbeAnswered
CHECK_DEADLOCK FALSE
