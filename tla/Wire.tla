-------------------------------- MODULE Wire --------------------------------
(***************************************************************************)
(* What travels on the TCP connection to a proxy server.  A frame is the   *)
(* unit a layer seals or parses: a salt, a sealed chunk, a record header,  *)
(* a TLS record, a piece of plaintext.  It occupies n cells of the         *)
(* connection, and TCP may deliver any number of cells at a time, so that  *)
(* a frame arrives in pieces.  Cryptography is symbolic: a sealed frame    *)
(* opens only under the key and with the nonce it was sealed with.         *)
(***************************************************************************)
EXTENDS Integers, Sequences

Smaller(a, b) == IF a < b THEN a ELSE b

\* a piece of plaintext: what it is, which one, and what it vouches for
Item(t, v) == [t |-> t, v |-> v, w |-> <<>>]
Data(v) == Item("data", v)
IsData(item) == item.t = "data"
Values(items) == [i \in 1..Len(items) |-> items[i].v]

Frame(k, n, key, nonce, in, pt) ==
    [k |-> k, n |-> n, key |-> key, nonce |-> nonce, in |-> in, pt |-> pt]

Cells(f) == [i \in 1..f.n |-> [f |-> f, i |-> i]]

\* plaintext goes as it is, a cell for each item
Plain(items) ==
    [i \in 1..Len(items) |-> [f |-> Frame("plain", 1, <<>>, 0, "", <<items[i]>>), i |-> 1]]
Text(cells) == [i \in 1..Len(cells) |-> cells[i].f.pt[1]]

\* the cells are one whole frame, from its first cell to its last
Whole(cells) ==
    /\ cells # <<>>
    /\ Len(cells) = cells[1].f.n
    /\ \A i \in DOMAIN cells : cells[i] = [f |-> cells[1].f, i |-> i]

Take(q, n) == SubSeq(q, 1, Smaller(n, Len(q)))
Drop(q, n) == SubSeq(q, n + 1, Len(q))
=============================================================================
