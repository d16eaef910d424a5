------------------------------- MODULE Dialer -------------------------------
(***************************************************************************)
(* From a profile to the first bytes of a connection (from_profile.rs,     *)
(* outbound.rs, vless.rs, trojan.rs, vless_encryption/): which outbound a  *)
(* profile makes, the steps of its dial, and what each step says.          *)
(***************************************************************************)
EXTENDS Framing, Reality

CONSTANT HeadMax     \* most of an HTTP answer's head (8192)

(***************************************************************************)
(* outbound_from_profile.                                                  *)
(***************************************************************************)
Profile(protocol, security, encryption, flow, method, keys) ==
    [protocol |-> protocol, security |-> security, encryption |-> encryption,
     flow |-> flow, method |-> method, keys |-> keys]

Outbound(kind, transport, encryption, flow, method, keys) ==
    [kind |-> kind, transport |-> transport, encryption |-> encryption,
     flow |-> flow, method |-> method, keys |-> keys]
NoOutbound == Outbound("error", "", "", "", "", <<>>)

Methods == {"aes-256-gcm", "2022-blake3-aes-256-gcm"}
is_2022(method) == method = "2022-blake3-aes-256-gcm"

shadowsocks_from_profile(p) ==
    IF p.method \notin Methods \/ p.keys = <<>> THEN NoOutbound
    ELSE Outbound("shadowsocks", IF p.security = "tls" THEN "tls" ELSE "tcp",
                  "none", "", p.method, p.keys)
vless_from_profile(p) ==
    IF p.keys = <<>> THEN NoOutbound
    ELSE Outbound("vless", IF p.security = "reality" THEN "reality" ELSE "tcp",
                  IF p.encryption \in {"", "none"} THEN "none" ELSE p.encryption,
                  p.flow, "", p.keys)
trojan_from_profile(p) ==
    IF p.keys = <<>> THEN NoOutbound ELSE Outbound("trojan", "tcp", "none", "", "", p.keys)
proxy_from_profile(p) == Outbound(p.protocol, "tcp", "none", "", "", p.keys)

outbound_from_profile(p) ==
    CASE p.protocol = "shadowsocks" -> shadowsocks_from_profile(p)
      [] p.protocol = "vless"       -> vless_from_profile(p)
      [] p.protocol = "trojan"      -> trojan_from_profile(p)
      [] p.protocol \in {"socks5", "http"} -> proxy_from_profile(p)
      [] p.protocol = "direct"      -> Outbound("direct", "tcp", "none", "", "", <<>>)

(***************************************************************************)
(* The steps of a dial, in the order in which they are awaited.            *)
(***************************************************************************)
parse_encryption(desc) ==
    CASE desc = "none" -> "off"
      [] desc \in {"native", "xorpub", "random"} -> desc
      [] OTHER -> "unknown"

TransportSteps(ob) == IF ob.transport = "reality" THEN <<"reality">> ELSE <<>>
EncryptionSteps(ob) ==
    IF parse_encryption(ob.encryption) = "off" THEN <<>>
    ELSE <<"enc hello", "flush", "enc answer">>
is_vision(ob) == ob.flow = "xtls-rprx-vision"

\* Defect: the request is not flushed
VlessUnflushed(ob) ==
    TransportSteps(ob) \o EncryptionSteps(ob) \o <<"request">>
        \o (IF is_vision(ob) THEN <<"vision">> ELSE <<>>)

vless_connect(ob) ==
    IF \/ parse_encryption(ob.encryption) = "unknown"
       \/ is_vision(ob) /\ parse_encryption(ob.encryption) = "off" /\ ob.transport # "reality"
    THEN <<"refuse">>
    ELSE TransportSteps(ob) \o EncryptionSteps(ob) \o <<"request", "flush">>
            \o (IF is_vision(ob) THEN <<"vision">> ELSE <<>>)
shadowsocks_connect(ob) == IF is_2022(ob.method) THEN <<"flush">> ELSE <<"request">>
trojan_connect(ob) == TransportSteps(ob) \o <<"request">>
socks5_connect(ob) == <<"greeting", "method", "connect", "reply">>
http_connect(ob) == <<"CONNECT", "status">>

connect_tcp(ob) ==
    CASE ob.kind = "direct"      -> <<>>
      [] ob.kind = "socks5"      -> socks5_connect(ob)
      [] ob.kind = "http"        -> http_connect(ob)
      [] ob.kind = "vless"       -> vless_connect(ob)
      [] ob.kind = "shadowsocks" -> shadowsocks_connect(ob)
      [] ob.kind = "trojan"      -> trojan_connect(ob)
      [] ob.kind = "error"       -> <<"refuse">>

\* a chain of keys: the last is the session's, those before it name the user
parse_ss2022_psks(keys) == [psk |-> keys[Len(keys)], ipsks |-> SubSeq(keys, 1, Len(keys) - 1)]

(***************************************************************************)
(* What is said.  A request carries the credential and the target.         *)
(***************************************************************************)
encode_ss_address(target) == <<[t |-> "address", v |-> 0, w |-> <<"", target>>]>>
encode_vless_request(uuid, flow, target) ==
    <<[t |-> "vless", v |-> 0, w |-> <<uuid, target, flow>>]>>
encode_trojan_request(password, target) ==
    <<[t |-> "trojan", v |-> 0, w |-> <<password, target>>]>>
SocksGreeting(ob) == <<Item("greeting", IF ob.keys = <<>> THEN 0 ELSE 2)>>
SocksAuth(ob) == <<[t |-> "auth", v |-> 0, w |-> ob.keys]>>
SocksConnect(target) == <<[t |-> "connect", v |-> 0, w |-> <<"", target>>]>>
HttpConnect(ob, target) == <<[t |-> "CONNECT", v |-> 0, w |-> <<IF ob.keys = <<>> THEN "" ELSE ob.keys[1], target>>]>>

Said(ob, step, target) ==
    CASE step = "greeting" -> SocksGreeting(ob)
      [] step = "auth"     -> SocksAuth(ob)
      [] step = "connect"  -> SocksConnect(target)
      [] step = "CONNECT"  -> HttpConnect(ob, target)
      [] step = "request" /\ ob.kind = "vless" ->
            encode_vless_request(ob.keys[1], ob.flow, target)
      [] step = "request" /\ ob.kind = "trojan" -> encode_trojan_request(ob.keys[1], target)
      [] step = "request" /\ ob.kind = "shadowsocks" -> encode_ss_address(target)

(***************************************************************************)
(* The handshake of VLESS encryption: a hello sealed for the server's      *)
(* static key, an answer sealed with the same secret, a ticket and the     *)
(* length of the padding that follows.                                     *)
(***************************************************************************)
nfs_key(pk) == <<"nfs", pk>>
united_key(pk) == <<"pfs", "nfs", pk>>
write_aead(pk) == Aead("client pfs", united_key(pk))
peer_aead(pk) == Aead("server pfs", united_key(pk))
Raised(cr, n) == [cr EXCEPT !.nonce = n]

client_hello(pk) ==
    LET nfs == Aead("iv", nfs_key(pk))
    IN  Cells(Frame("relays", 1, <<"iv">>, 0, "", <<>>))
            \o seal(Raised(nfs, 1), <<Item("len", 2)>>) \o seal(Raised(nfs, 2), <<Item("pfs", 0)>>)
            \o seal(Raised(nfs, 3), <<Item("len", 1)>>) \o seal(Raised(nfs, 4), <<>>)
\* the three blocks of the answer, one read_exact each
AnswerKeys(pk) ==
    << Raised(Aead("iv", nfs_key(pk)), MaxNonce), Raised(peer_aead(pk), 1), Raised(peer_aead(pk), 2) >>
AnswerBlock == 1 + Tag
EncState(ob, pk, padding) ==
    [write |-> write_aead(pk), peer |-> Raised(peer_aead(pk), 2), padding |-> padding,
     random |-> ob.encryption = "random"]

(***************************************************************************)
(* The answers a dial waits for.  hand is what it has read of them.        *)
(* The result is the number of cells still needed, or -1 for a refusal.    *)
(***************************************************************************)
Needed(n, hand) == n - Len(hand)
method_needs(hand) ==
    IF hand = <<>> THEN 1 ELSE IF hand[1].v \in {0, 2} THEN 0 ELSE -1
auth_needs(hand) == IF hand = <<>> THEN 1 ELSE IF hand[1].v = 0 THEN 0 ELSE -1
\* VER REP RSV ATYP, for a name its length, then address and port
reply_needs(hand) ==
    IF hand = <<>> THEN 1
    ELSE IF hand[1].v # 0 THEN -1
    ELSE IF hand[1].w[1] = "ip" THEN Needed(2, hand)
    ELSE IF hand[1].w[1] = "domain" THEN Needed(3, hand)
    ELSE -1
\* up to the empty line, a byte at a time
read_http_status(hand) ==
    IF hand # <<>> /\ hand[Len(hand)].t = "end"
    THEN IF hand[1].v \in 200..299 THEN 0 ELSE -1
    ELSE IF Len(hand) > HeadMax THEN -1 ELSE 1
AnswerNeeds(step, hand) ==
    CASE step = "method"     -> method_needs(hand)
      [] step = "auth reply" -> auth_needs(hand)
      [] step = "reply"      -> reply_needs(hand)
      [] step = "status"     -> read_http_status(hand)
=============================================================================
