--------------------------- MODULE MCProxyServer ---------------------------
(***************************************************************************)
(* Instance of ProxyServer: an engine that blocks, one that sends through  *)
(* the only node, and one with a rule's node and a default node to fall    *)
(* back to (the shapes act_full returns, up to the names of the nodes).    *)
(***************************************************************************)
EXTENDS ProxyServer

CONSTANTS n1, n2

MCNodes == {n1, n2}

MCRoutes ==
  { [node |-> None, fallback |-> None],
    [node |-> n1, fallback |-> None],
    [node |-> n1, fallback |-> n2] }
=============================================================================
