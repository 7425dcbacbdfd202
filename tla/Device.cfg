SPECIFICATION Spec
CONSTANTS
  base = base
  m1 = m1
  m2 = m2
  Program = {base, m1, m2}
  NoProgram = NoProgram
  Factory = base
  PROBATION_HEALTHY_TICKS = 2
  LOCAL_FAILURE_LIMIT = 2
  MAX_LEASE_SECONDS = 3
  TickSeconds = 1
  MaxSeq = 2
  MaxTime = 1
  LeaseOffers = {0, 3}
  Contract <- MCContract
  Beating = {base, m1}
  Idling = {m2}
  IdleFallback = {m1}
  LOCAL_HEARTBEAT_MISS_LIMIT = 1
INVARIANTS TypeOK NeverAcceptedTwice ControllerIsRunningArtifact NothingForgotten
PROPERTIES TrialLeavesActiveIntact FallbackNeverLost
