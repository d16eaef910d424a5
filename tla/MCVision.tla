------------------------------ MODULE MCVision -----------------------------
(* Dialogues of the instance: inner TLS 1.3 with and without a cipher that *)
(* allows XTLS, TLS 1.2, data that are not TLS, TLS behind a prefix, data  *)
(* that are no TLS after TLS, and data that only look like the start of a  *)
(* hello: awaited by the peer, at the end, twice in a row, in front of a   *)
(* hello, and behind TLS.                                                  *)
EXTENDS Vision

Say(kind, after) == [kind |-> kind, after |-> after]
Talk(c, s) == [e \in Ends |-> IF e = "client" THEN c ELSE s]

Tls13(hello) ==
    Talk(<<Say("CH", 0), Say("AD", 4)>>,
         <<Say(hello, 2), Say("AD", 2), Say("AD", 2)>>)
Tls12 ==
    Talk(<<Say("CH", 0), Say("CCS", 2), Say("AD", 4)>>,
         <<Say("SH12", 2), Say("CCS", 2), Say("AD", 4)>>)
NotTls ==
    Talk(<<Say("U", 0), Say("U", 0), Say("U", 1)>>, <<Say("U", 1), Say("U", 2)>>)
Chained ==
    Talk(<<Say("U", 0), Say("CH", 0), Say("AD", 1)>>, <<Say("U", 1), Say("AD", 3)>>)
Broken ==
    Talk(<<Say("CH", 0), Say("U", 0), Say("U", 0)>>, <<Say("U", 2)>>)
LooksLikeTls ==
    {Talk(<<Say("L", 0)>>, <<Say("U", 1)>>),
     Talk(<<Say("U", 0), Say("L", 0), Say("U", 1)>>, <<Say("U", 1), Say("L", 1)>>),
     Talk(<<Say("U", 0), Say("U", 0), Say("L", 0), Say("L", 0)>>, <<Say("U", 2)>>),
     Talk(<<Say("L", 0), Say("CH", 0), Say("L", 0)>>, <<Say("L", 1), Say("L", 1)>>)}

MCDialogues ==
    {Tls13("SH13"), Tls13("SH13ccm"), Tls13("HRR"), Tls12, NotTls, Chained, Broken}
       \cup LooksLikeTls
MCLayers == {"reality", "encryption"}
=============================================================================
