SPECIFICATION Spec
CONSTANTS
  base = base
  m1 = m1
  m2 = m2
  Program = {base, m1}
  NoProgram = NoProgram
  Factory = base
  PROBATION_HEALTHY_TICKS = 2
  LOCAL_FAILURE_LIMIT = 2
  MAX_LEASE_SECONDS = 3
  TickSeconds = 1
  MaxSeq = 2
  MaxTime = 1
  LeaseOffers = {0, 3}
  Contract <- MCLongContract
  Beating = {base}
  Idling = {}
  IdleFallback = {}
  LOCAL_HEARTBEAT_MISS_LIMIT = 1
PROPERTY KnownGoodNotOverwritten
