------------------------------ MODULE Packets ------------------------------
(***************************************************************************)
(* Datagrams on the wire of the UDP outbounds: the fragments of TUIC and   *)
(* Hysteria2 (tuic/proto.rs, hysteria2/proto.rs) and how they are put      *)
(* together (reassemble), the replay window of Shadowsocks 2022            *)
(* (shadowsocks/ss2022_udp.rs), and the framing of datagrams in the        *)
(* streams of VLESS and Trojan.  A payload is a sequence of pieces, each   *)
(* of which names its message and its place in it.                         *)
(***************************************************************************)
EXTENDS Integers, Sequences, FiniteSets, FiniteSetsExt

CONSTANTS MaxDatagram,   \* pieces a QUIC datagram carries
          MaxFragments,  \* most fragments of a packet (u8::MAX)
          MaxReasm,      \* most packets that are put together at a time
          ReplayWindow   \* width of the replay window

ASSUME PacketsAssumption ==
    /\ MaxDatagram \in Nat \ {0} /\ MaxFragments \in Nat \ {0}
    /\ MaxReasm \in Nat \ {0} /\ ReplayWindow \in Nat \ {0}

Pieces(m, n) == [i \in 1..n |-> [m |-> m, i |-> i]]
\* what a destination answers: the pieces it was sent, in its own name
Echo(target, payload) == [i \in DOMAIN payload |-> [payload[i] EXCEPT !.m.key = target]]

(***************************************************************************)
(* Fragments.                                                              *)
(***************************************************************************)
FragTotal(payload) ==
    IF payload = <<>> THEN 1 ELSE (Len(payload) + MaxDatagram - 1) \div MaxDatagram

encode_packet_one(assoc, pkt, total, frag, data) ==
    [assoc |-> assoc, pkt |-> pkt, total |-> total, frag |-> frag, data |-> data]

\* the datagrams of a packet; none if it takes too many
encode_packets(assoc, pkt, payload) ==
    LET total == FragTotal(payload)
        least(a, b) == IF a < b THEN a ELSE b
        chunk(i) == SubSeq(payload, i * MaxDatagram + 1,
                           least((i + 1) * MaxDatagram, Len(payload)))
    IN  IF total > MaxFragments THEN {}
        ELSE {encode_packet_one(assoc, pkt, total, i, chunk(i)) : i \in 0..(total - 1)}

\* a header that makes no sense is refused
decode_packet(dg) == dg.total >= 1 /\ dg.frag < dg.total

PacketKey(dg) == <<dg.assoc, dg.pkt>>

\* the partial packets, each with the number of its first arrival
Oldest(map) == CHOOSE k \in DOMAIN map : \A o \in DOMAIN map : map[k].created <= map[o].created
Without(map, keys) == [k \in DOMAIN map \ keys |-> map[k]]
With(map, key, value) == [k \in DOMAIN map \union {key} |-> IF k = key THEN value ELSE map[k]]

\* room for the key: a full map gives up its oldest packet
Evicted(map, key) ==
    IF Cardinality(DOMAIN map) >= MaxReasm /\ key \notin DOMAIN map
    THEN Without(map, {Oldest(map)}) ELSE map

Stamp(map) == IF DOMAIN map = {} THEN 1 ELSE 1 + Max({map[k].created : k \in DOMAIN map})
Entry(map, dg) ==
    IF PacketKey(dg) \in DOMAIN map THEN map[PacketKey(dg)]
    ELSE [total |-> dg.total, frags |-> [i \in {} |-> <<>>], created |-> Stamp(map)]

\* a fragment that comes again changes nothing
Added(frags, dg) == IF dg.frag \in DOMAIN frags THEN frags ELSE With(frags, dg.frag, dg.data)

\* the fragments 0, 1, ... in their order
Joined(frags) ==
    LET total == Cardinality(DOMAIN frags)
        from[i \in 0..total] == IF i = total THEN <<>> ELSE frags[i] \o from[i + 1]
    IN  from[0]

\* Defect: fragments are told apart by the packet's number alone
ReassembleAnyAssoc(map, dg) ==
    LET same == {k \in DOMAIN map : k[2] = dg.pkt}
        key == IF same # {} THEN CHOOSE k \in same : TRUE ELSE PacketKey(dg)
        room == Evicted(map, key)
        e == IF same # {} THEN map[key] ELSE Entry(room, dg)
        next == [e EXCEPT !.frags = Added(@, dg)]
    IN  IF Cardinality(DOMAIN next.frags) = dg.total
        THEN [map |-> Without(room, {key}), full |-> TRUE, data |-> Joined(next.frags)]
        ELSE [map |-> With(room, key, next), full |-> FALSE, data |-> <<>>]

\* one fragment more: the whole payload once all are there
reassemble(map, dg) ==
    LET room == Evicted(map, PacketKey(dg))
        e == Entry(room, dg)
        next == [e EXCEPT !.frags = Added(@, dg)]
    IN  IF e.total # dg.total
        THEN [map |-> With(room, PacketKey(dg), e), full |-> FALSE, data |-> <<>>]
        ELSE IF Cardinality(DOMAIN next.frags) = dg.total
        THEN [map |-> Without(room, {PacketKey(dg)}), full |-> TRUE, data |-> Joined(next.frags)]
        ELSE [map |-> With(room, PacketKey(dg), next), full |-> FALSE, data |-> <<>>]

(***************************************************************************)
(* Shadowsocks: the destination is in every packet, under a key of its own *)
(* (a fresh salt).                                                         *)
(***************************************************************************)
encrypt_packet(target, payload) == [target |-> target, data |-> payload]
decrypt_packet(p) == p.data

(***************************************************************************)
(* Shadowsocks 2022: a packet names the session of its sender and its      *)
(* number in it, an answer also the session it answers.                    *)
(***************************************************************************)
NoReplay == [sid |-> 0, highest |-> 0, window |-> {}]

\* Defect: the window forgets that the highest number was seen
AcceptForgetful(w, sid, pid) ==
    IF w.sid # sid THEN [ok |-> TRUE, w |-> [sid |-> sid, highest |-> pid, window |-> {}]]
    ELSE IF pid > w.highest THEN [ok |-> TRUE, w |-> [w EXCEPT !.highest = pid]]
    ELSE [ok |-> w.highest - pid < ReplayWindow /\ (w.highest - pid) \notin w.window,
          w |-> [w EXCEPT !.window = @ \union {w.highest - pid}]]

\* the bits of the window are the distances to the highest number
accept(w, sid, pid) ==
    LET shift == pid - w.highest
        diff == w.highest - pid
    IN  IF w.sid # sid
        THEN [ok |-> TRUE, w |-> [sid |-> sid, highest |-> pid, window |-> {0}]]
        ELSE IF pid > w.highest
        THEN [ok |-> TRUE,
              w |-> [w EXCEPT !.highest = pid,
                       !.window = {0} \union {b + shift : b \in {x \in @ : x + shift < ReplayWindow}}]]
        ELSE IF diff >= ReplayWindow \/ diff \in w.window THEN [ok |-> FALSE, w |-> w]
        ELSE [ok |-> TRUE, w |-> [w EXCEPT !.window = @ \union {diff}]]

request(session, pid, target, payload) ==
    [session |-> session, pid |-> pid, target |-> target, data |-> payload]
response(sid, pid, client, data) == [sid |-> sid, pid |-> pid, client |-> client, data |-> data]
parse_response_body(session, p) == p.client = session
\* the window is moved only by a packet that is valid otherwise
decrypt(session, w, p) ==
    IF parse_response_body(session, p) THEN accept(w, p.sid, p.pid) ELSE [ok |-> FALSE, w |-> w]

(***************************************************************************)
(* Datagrams in a stream: a head with the length, then the payload.        *)
(***************************************************************************)
encode_udp_packet(data) == <<[head |-> TRUE, len |-> Len(data), piece |-> [m |-> <<>>, i |-> 0]]>>
    \o [i \in 1..Len(data) |-> [head |-> FALSE, len |-> 0, piece |-> data[i]]]

\* what a reader has of a packet: the length it read and the pieces after it
NoPart == [len |-> -1, data |-> <<>>]
=============================================================================
