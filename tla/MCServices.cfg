\* The requests and sessions are few; times are just long enough for every expiry.
CONSTANTS
  MaxTime = 3
  Requests = {"r1", "r2"}
  Files = {"r1"}
  GrantTTL = 1
  Grace = 1
  Threads = {h1, h2}
  Tokens = {t1}
  Passwords = {p1}
  TTL = 2
  Lag = 1
  MaxMishaps = 1
  Capacity = 2
  Window = 3
  IdleEviction = 4
  MaxBurst = 4
  MaxInstant = 8
  Settings <- MCSettings
  TagTTL = 1
  MaxLaunches = 2
  MaxEdits = 2
  MaxFaults = 1
  LaneCap = 4
  TombstoneTTL = 1
  MaxChanges = 2
  MaxInstalls = 2
  MaxExits = 1
  MaxLosses = 1
  NormalInterval = 2
  BackoffSteps <- MCBackoffSteps
  GenerateTimeout = 1
  MaxMoment = 3
  Fingerprints = {m1, m2}
  Editors = {e1, e2}
  Attempts = {a1, a2}
  MaxTreeEdits = 2
  MaxNameCommands = 2
  AgentSessions = {i1, i2}
  Namers = {n1, n2}
  Savers = {s1}
  MaxPrompts = 2
  MaxHappenings = 3
SPECIFICATION ServicesSpec
INVARIANTS
  ServicesTypeOK RequestsInv LoginInv BurstBounded SchedulerInv SharedInv SupervisorInv NamingInv NamesInv
PROPERTY LastCopyKept
\* A subject stops when its bounds are used up.
CHECK_DEADLOCK FALSE
