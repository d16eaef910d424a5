---------------------------- MODULE MCNetstack ----------------------------
(* Instances of Netstack for TLC. *)
EXTENDS Netstack

Flow(p, s, d) == [proto |-> p, src |-> s, dst |-> d]

\* two sources at one TCP destination; a port that is used again; two sources
\* at one UDP destination; one source at two; replies that fill the buffer;
\* both protocols, which share the slots; some over an outbound that may stall
MCLoads ==
    { [flows |-> Flow("tcp", "a", "x") :> 1 @@ Flow("tcp", "b", "x") :> 1, faults |-> 0, replies |-> 0, stalls |-> FALSE],
      [flows |-> Flow("tcp", "a", "x") :> 2, faults |-> 2, replies |-> 0, stalls |-> FALSE],
      [flows |-> Flow("udp", "a", "x") :> 1 @@ Flow("udp", "b", "x") :> 1, faults |-> 0, replies |-> 1, stalls |-> FALSE],
      [flows |-> Flow("udp", "a", "x") :> 2 @@ Flow("udp", "a", "y") :> 1, faults |-> 0, replies |-> 0, stalls |-> TRUE],
      [flows |-> Flow("udp", "a", "x") :> 2, faults |-> 0, replies |-> 2, stalls |-> FALSE],
      [flows |-> Flow("tcp", "a", "x") :> 1 @@ Flow("udp", "a", "x") :> 1, faults |-> 0, replies |-> 1, stalls |-> TRUE] }
===========================================================================
