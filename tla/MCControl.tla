------------------------------ MODULE MCControl -----------------------------
(* The starts are interchangeable; the marked listener is not on 127.0.0.1 *)
(* and its accept can fail, the other one is there and does not.           *)
EXTENDS ProxyControl, TLC

StartSymmetry == Permutations(Starts)
=============================================================================
