SPECIFICATION Spec
CONSTANTS
  Proc = {p1, p2}
  CPU = {c1, c2}
  PmcUser = {p1}
  DISABLED = DISABLED
  STARTING = STARTING
  STOPPING = STOPPING
  Nobody = Nobody
  StartsMayFail = FALSE
  OnlyMonitorStops = FALSE
INVARIANT RefusalReturns
CHECK_DEADLOCK FALSE
