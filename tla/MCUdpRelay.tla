---------------------------- MODULE MCUdpRelay ----------------------------
(* Instances of UdpRelay for TLC. *)
EXTENDS UdpRelay

MCFlows == 1..5
To(k, n) == [src |-> "client", form |-> "datagram", key |-> k, size |-> n]

\* fragments of two flows at a time; a packet that takes too many fragments;
\* other programs that send to the relay socket
MCScripts ==
    { <<To("a", 2), To("b", 2)>>,
      <<To("a", 3), To("a", 0)>>,
      <<[To("a", 1) EXCEPT !.src = "here", !.form = "fragment"], To("a", 1),
        [To("a", 1) EXCEPT !.src = "here"]>> }

\* a queue that overflows
MCOverflow == <<To("a", 1), To("a", 1), To("a", 1)>>

\* a flow that ends while its answers wait, and ids that come round at once
MCReuse == <<To("a", 1), To("a", 1), To("a", 3), To("b", 3), To("b", 3)>>

\* breaking connections with all but the last, other users of the tunnel with
\* the short ones
MCCases ==
    UNION { [kind : Kinds, script : MCScripts, faults : {0}, dials : {0}],
            [kind : Kinds \ {"tuic"}, script : {MCOverflow}, faults : {0}, dials : {MaxDials}],
            [kind : Kinds \intersect {"tuic"}, script : {MCReuse}, faults : {MaxFaults}, dials : {MaxDials}] }
===========================================================================
