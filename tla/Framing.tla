------------------------------ MODULE Framing ------------------------------
(***************************************************************************)
(* The streams that cut the plaintext into sealed frames: Shadowsocks      *)
(* (shadowsocks/stream.rs), Shadowsocks 2022 (shadowsocks/ss2022.rs) and   *)
(* VLESS encryption (vless_encryption/stream.rs, with the masked headers   *)
(* of its mode "random").  They share their shape: a buffer of sealed      *)
(* bytes that the socket has not taken yet, and a reader that goes from    *)
(* stage to stage, each of which waits for a number of bytes.              *)
(***************************************************************************)
EXTENDS Wire

CONSTANTS MaxChunk,     \* most plaintext of a chunk (MAX_CHUNK, MAX_DATA)
          MaxNonce      \* nonce at which VLESS encryption makes a new key

ASSUME FramingAssumption == MaxChunk \in Nat \ {0} /\ MaxNonce \in Nat \ {0}

Tag == 1

(***************************************************************************)
(* Keys and nonces.                                                        *)
(***************************************************************************)
session_subkey(master, salt) == <<"ss-subkey", master, salt>>
session_subkey_2022(psk, salt) == <<"session subkey", psk, salt>>
\* the identity header of each iPSK names the next key of the chain
build_identity_headers(ipsks, psk, salt) ==
    [i \in 1..Len(ipsks) |->
        [f |-> Frame("identity", 1, <<"identity subkey", ipsks[i], salt>>, 0, "",
                     <<[t |-> "psk", v |-> 0,
                        w |-> <<IF i < Len(ipsks) THEN ipsks[i + 1] ELSE psk>>]>>),
         i |-> 1]]

Crypto(key) == [key |-> key, nonce |-> 0]
NoCrypto == Crypto(<<>>)

seal(cr, pt) == Cells(Frame("sealed", Len(pt) + Tag, cr.key, cr.nonce, "", pt))
incr_nonce(cr) == [cr EXCEPT !.nonce = @ + 1]
opens(cr, cells) ==
    /\ Whole(cells)
    /\ cells[1].f.k = "sealed"
    /\ cells[1].f.key = cr.key
    /\ cells[1].f.nonce = cr.nonce

\* VLESS encryption: the nonce is raised before it is used, and the record
\* that finds it at its maximum is the last of its key
at_max(cr) == cr.nonce = MaxNonce
increase(cr) == [cr EXCEPT !.nonce = IF at_max(cr) THEN 0 ELSE @ + 1]
Aead(ctx, key) == Crypto(<<ctx>> \o key)
Rekeyed(used, was) == IF at_max(was) THEN Crypto(Append(was.key, "rekey")) ELSE used

(***************************************************************************)
(* The stream.                                                             *)
(***************************************************************************)
Stream(layer, stage) ==
    [layer |-> layer, stage |-> stage, len |-> 0, rtmp |-> <<>>, plain |-> <<>>,
     wbuf |-> <<>>, send |-> NoCrypto, recv |-> NoCrypto, secret |-> "", salt |-> "",
     xor |-> FALSE, in_skip |-> 0, in_ctr |-> 0, out_ctr |-> 0,
     state |-> "open"]

ShadowsocksStream(master, salt) ==
    [Stream("ss", "salt") EXCEPT !.secret = master, !.salt = salt]

\* the request header waits in the buffer from the start
Ss2022Stream(psk, ipsks, salt, addr) ==
    LET cr == Crypto(session_subkey_2022(psk, salt))
        fixed == seal(cr, <<Item("request", Len(addr))>>)
        variable == seal(incr_nonce(cr), addr)
        head == Cells(Frame("salt", 1, <<salt>>, 0, "", <<>>))
                    \o build_identity_headers(ipsks, psk, salt)
    IN  [Stream("ss2022", "salt") EXCEPT !.secret = psk, !.salt = salt,
            !.send = incr_nonce(incr_nonce(cr)), !.wbuf = head \o fixed \o variable]

VlessEncStream(st) ==
    [Stream("enc", IF st.padding > 0 THEN "padding" ELSE "header") EXCEPT
        !.send = st.write, !.recv = st.peer, !.len = st.padding,
        !.xor = st.random, !.in_skip = st.padding]

(***************************************************************************)
(* Writing: what the stream puts into its buffer for up to MaxChunk items. *)
(***************************************************************************)
Chunk(cr, pt) == seal(cr, <<Item("len", Len(pt))>>) \o seal(incr_nonce(cr), pt)

ss_write(c, pt) ==
    LET cr == IF c.send = NoCrypto THEN Crypto(session_subkey(c.secret, c.salt))
                                   ELSE c.send
        first == IF c.send = NoCrypto
                 THEN Cells(Frame("salt", 1, <<c.salt>>, 0, "", <<>>)) ELSE <<>>
    IN  [c EXCEPT !.wbuf = @ \o first \o Chunk(cr, pt), !.send = incr_nonce(incr_nonce(cr))]

ss2022_write(c, pt) ==
    [c EXCEPT !.wbuf = @ \o Chunk(c.send, pt), !.send = incr_nonce(incr_nonce(@))]

Header(len, mask) == Cells(Frame("header", 2, <<>>, mask, "", <<Item("len", len)>>))

\* the mask of header number i is i, and 0 is no mask
transform_write(c) == IF c.xor THEN c.out_ctr + 1 ELSE 0

\* Defect: the key is renewed before the record that exhausts it is sealed
RekeyEarly(c, pt) ==
    LET used == increase(c.send)
    IN  [c EXCEPT !.wbuf = @ \o Header(Len(pt) + Tag, transform_write(c)) \o seal(used, pt),
                  !.send = Rekeyed(used, used), !.out_ctr = transform_write(c)]

enc_write(c, pt) ==
    LET used == increase(c.send)
    IN  [c EXCEPT !.wbuf = @ \o Header(Len(pt) + Tag, transform_write(c)) \o seal(used, pt),
                  !.send = Rekeyed(used, c.send), !.out_ctr = transform_write(c)]

(***************************************************************************)
(* Reading: stages.                                                        *)
(***************************************************************************)
Need(c) ==
    CASE c.stage = "salt"    -> 1
      [] c.stage = "resp"    -> 1 + Tag
      [] c.stage = "len"     -> 1 + Tag
      [] c.stage = "header"  -> 2
      [] c.stage = "padding" -> c.len
      [] c.stage \in {"first", "data"} -> c.len

\* random: the headers are unmasked as the bytes come, what lies between is skipped
transform_read(c, cells) ==
    LET at(i) == i > c.in_skip
        cell(i) == IF at(i) /\ cells[i].f.k = "header" /\ cells[i].f.nonce = c.in_ctr + 1
                   THEN [cells[i] EXCEPT !.f.nonce = 0] ELSE cells[i]
    IN  IF c.xor THEN [i \in 1..Len(cells) |-> cell(i)] ELSE cells

Skipped(c, n) == [c EXCEPT !.in_skip = IF @ > n THEN @ - n ELSE 0]

\* what is there is taken, but never more than the stage needs
fill(c, q) ==
    LET got == Take(q, Need(c) - Len(c.rtmp))
    IN  [Skipped(c, Len(got)) EXCEPT !.rtmp = @ \o transform_read(c, got)]

Fail(c) == [c EXCEPT !.state = "failed"]
Next2(c, stage, len) == [c EXCEPT !.stage = stage, !.len = len, !.rtmp = <<>>]
Delivered(c, stage) ==
    [Next2(c, stage, 0) EXCEPT !.plain = c.rtmp[1].f.pt, !.recv = incr_nonce(@)]

ServerSalt(c) ==
    LET salt == c.rtmp[1].f.key[1]
    IN  IF c.layer = "ss"
        THEN [Next2(c, "len", 0) EXCEPT !.recv = Crypto(session_subkey(c.secret, salt))]
        ELSE [Next2(c, "resp", 0) EXCEPT !.recv = Crypto(session_subkey_2022(c.secret, salt))]

\* an answer of this server, to this request, and no older than 30 seconds
RespHeader(c) ==
    LET item == c.rtmp[1].f.pt[1]
    IN  IF /\ opens(c.recv, c.rtmp)
           /\ item.t = "response"
           /\ item.w = <<c.salt, "now">>
        THEN [Next2(c, "first", item.v + Tag) EXCEPT !.recv = incr_nonce(@)]
        ELSE Fail(c)

ChunkLen(c) ==
    LET item == c.rtmp[1].f.pt[1]
    IN  IF opens(c.recv, c.rtmp) /\ item.v \in 1..MaxChunk
        THEN [Next2(c, "data", item.v + Tag) EXCEPT !.recv = incr_nonce(@)]
        ELSE Fail(c)

ChunkData(c) == IF opens(c.recv, c.rtmp) THEN Delivered(c, "len") ELSE Fail(c)

EncPadding(c) ==
    IF opens(increase(c.recv), c.rtmp)
    THEN [Next2(c, "header", 0) EXCEPT !.recv = increase(@)]
    ELSE Fail(c)

EncHeader(c) ==
    IF Whole(c.rtmp) /\ c.rtmp[1].f.k = "header" /\ c.rtmp[1].f.nonce = 0
    THEN LET len == c.rtmp[1].f.pt[1].v
         IN  [Next2(c, "data", len) EXCEPT !.in_skip = len, !.in_ctr = @ + 1]
    ELSE Fail(c)

EncData(c) ==
    LET used == increase(c.recv)
    IN  IF opens(used, c.rtmp)
        THEN [Next2(c, "header", 0) EXCEPT !.plain = c.rtmp[1].f.pt,
                                           !.recv = Rekeyed(used, c.recv)]
        ELSE Fail(c)

\* what a stage does with the bytes it waited for
Stage(c) ==
    CASE c.stage = "salt"    -> ServerSalt(c)
      [] c.stage = "resp"    -> RespHeader(c)
      [] c.stage = "len"     -> ChunkLen(c)
      [] c.stage = "padding" -> EncPadding(c)
      [] c.stage = "header"  -> EncHeader(c)
      [] c.stage = "first"   -> ChunkData(c)
      [] c.stage = "data" /\ c.layer = "enc" -> EncData(c)
      [] c.stage = "data" /\ c.layer # "enc" -> ChunkData(c)

\* the end of the connection is the end of the stream only between frames
AtEnd(c) ==
    IF c.rtmp = <<>> /\ c.stage \notin {"first", "data"}
    THEN [c EXCEPT !.state = "ended"] ELSE Fail(c)

\* poll_read up to the first plaintext: q is what the socket has, fin its end
RECURSIVE ReadFrames(_, _, _)
ReadFrames(c, q, fin) ==
    LET k == Smaller(Need(c) - Len(c.rtmp), Len(q))
        f == fill(c, q)
    IN  IF c.state # "open" \/ c.plain # <<>> THEN [c |-> c, q |-> q]
        ELSE IF Len(f.rtmp) = Need(c) THEN ReadFrames(Stage(f), Drop(q, k), fin)
        ELSE [c |-> IF fin THEN AtEnd(f) ELSE f, q |-> Drop(q, k)]
=============================================================================
