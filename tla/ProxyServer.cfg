SPECIFICATION FairSpec
CONSTANTS
  n1 = n1
  n2 = n2
  Conns = {c1, c2}
  Kinds = {"socks", "udp", "http", "redirect"}
  Nodes <- MCNodes
  None = None
  Routes <- MCRoutes
  MaxConns = 1
  HandshakeTimeout = 2
  ConnectTimeout = 1
  Attempts = 2
  Versions = 2
INVARIANTS EndingsAddUp DialsAsRouted
PROPERTIES HangingClientLeaves
CHECK_DEADLOCK FALSE
