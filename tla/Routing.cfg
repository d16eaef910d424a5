SPECIFICATION Spec
CONSTANTS
  h1 = h1
  lit = lit
  fakelit = fakelit
  a1 = a1
  fake = fake
  t1 = t1
  t2 = t2
  Hosts <- MCHosts
  Addrs <- MCAddrs
  LiteralIp <- MCLiteralIp
  FakeDomain <- MCFakeDomain
  Tags <- MCTags
  Rules <- MCRules
  Absent = Absent
  None = None
  MaxRules = 3
INVARIANTS FirstMatch NoBypassByDnsFailure ResolvesOnlyIfNeeded ResolveTargetAgrees
CHECK_DEADLOCK FALSE
