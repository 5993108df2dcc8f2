SPECIFICATION FairSpec
CONSTANTS
  Proc = {p1, p2}
  CPU = {c1, c2}
  PmcUser = {p1}
  DISABLED = DISABLED
  STARTING = STARTING
  STOPPING = STOPPING
  Nobody = Nobody
  StartsMayFail = TRUE
  OnlyMonitorStops = FALSE
INVARIANTS OneSession QuietWhenDisabled SetupUndisturbed DeliversToMonitor
PROPERTIES ImplementsSession StopCompletes KeepsDelivering
CHECK_DEADLOCK FALSE
