SPECIFICATION FairSpec
CONSTANTS
  Callers = {c1, c2, c3}
  Dropped = {c1}
  Names = {n1}
  Addrs = {a1}
  None = None
  QueryTimeout = 2
  GuardExtra = 1
  PositiveTTL = 3
  NegativeTTL = 1
INVARIANTS SingleFlight GuardOutlivesFlight
PROPERTIES FailureIsRecent ResolveReturns
