SPECIFICATION Spec
CONSTANTS
  base = base
  heat = heat
  crash = crash
  w1 = w1
  w2 = w2
  Deployment = {1, 2, 3}
  Worker = {w1, w2}
  ContextEvents = {heat}
  CrashEvents = {crash}
  Nobody = Nobody
  MaxRaises = 1
  Program = {base, 1, 2, 3}
  NoProgram = NoProgram
  Factory = base
  PROBATION_HEALTHY_TICKS = 1
  LOCAL_FAILURE_LIMIT = 1
  MAX_LEASE_SECONDS = 1
  TickSeconds = 1
  MaxSeq = 3
  MaxTime = 0
  LeaseOffers = {1}
INVARIANTS TypeOK NumbersAreSpentOnce OneLivePerEvent ExpiryClosesTheRow
PROPERTY ImplementsLifecycle
CHECK_DEADLOCK FALSE
