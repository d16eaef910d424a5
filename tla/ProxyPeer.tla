----------------------------- MODULE ProxyPeer -----------------------------
(***************************************************************************)
(* The other end of the tunnel: a proxy server, which is not part of the   *)
(* repository.  It is modelled by what the client relies on: it speaks the *)
(* protocol its configuration names, and with REALITY it shows a client it *)
(* cannot authenticate the handshake of an ordinary web site.              *)
(***************************************************************************)
EXTENDS Dialer

\* what the server does in a scenario: its answer to a request, the partition
\* of its flight into records, the key that signs the transcript, its clock,
\* the addon of its VLESS answer
Server(ob, conf) ==
    [ob |-> ob, conf |-> conf, raw |-> <<>>, sin |-> <<>>, pin |-> <<>>, out |-> <<>>,
     tls |-> IF ob.transport = "reality" THEN "hello" ELSE "off",
     suite |-> "", transcript |-> <<>>, shared |-> <<>>, acc |-> <<>>, honest |-> FALSE,
     rkey |-> <<>>, wkey |-> <<>>, rseq |-> 0, wseq |-> 0,
     session |-> IF ob.encryption # "none" THEN "enc hello"
                 ELSE IF ob.kind = "shadowsocks" /\ is_2022(ob.method) THEN "head" ELSE "open",
     s |-> IF ob.kind = "shadowsocks" THEN ShadowsocksStream(conf.key, "server salt")
           ELSE Stream("none", "data"),
     stage |-> IF ob.kind = "direct" THEN "relay" ELSE "request",
     req |-> IF ob.kind = "direct" THEN "target" ELSE "", owes |-> ob.kind = "vless",
     dead |-> FALSE, eof |-> FALSE]

Dead(s) == [s EXCEPT !.dead = TRUE, !.raw = <<>>, !.sin = <<>>, !.pin = <<>>]

(***************************************************************************)
(* REALITY.                                                                *)
(***************************************************************************)
RECURSIVE Partition(_, _, _, _)
Partition(key, seq, msgs, sizes) ==
    IF msgs = <<>> THEN <<>>
    ELSE encrypt_handshake(key, seq, Take(msgs, sizes[1]))
            \o Partition(key, seq + 1, Drop(msgs, sizes[1]), Tail(sizes))

Authenticates(s, hello) ==
    LET auth == derive_auth_key(perform_ecdh("pbk", extract_client_public_key(hello)), "client random")
        zeroed == [hello EXCEPT !.w[1] = <<>>]
    IN  decrypt_session_id(extract_session_id_slice(hello), auth, zeroed) = "sid"

ServerFlight(s, hello) ==
    LET known == Authenticates(s, hello)
        honest == known /\ s.conf.signer = "cert key"
        auth == derive_auth_key(perform_ecdh("pbk", extract_client_public_key(hello)), "client random")
        share == IF s.conf.site = "tls12" /\ ~known THEN "" ELSE "server"
        answer == construct_server_hello(s.conf.suite, share)
        hellos == <<hello, answer>>
        shared == perform_ecdh("server", "client")
        noise == s.conf.noise
        cert == construct_encrypted_extensions(noise)
                  \o construct_certificate("cert key", IF known THEN auth ELSE <<>>, noise)
        signed == cert \o construct_certificate_verify(s.conf.signer, hellos \o cert, noise)
        key == derive_handshake_keys(s.conf.suite, shared, hellos, "server")
        all == signed \o construct_finished(
                            compute_finished_verify_data(key, hellos \o signed), noise)
    IN  [s EXCEPT !.tls = "finished", !.honest = honest, !.raw = Drop(@, RecordCells),
            !.suite = s.conf.suite, !.shared = shared, !.transcript = hellos, !.acc = all,
            !.rkey = derive_handshake_keys(s.conf.suite, shared, hellos, "client"),
            !.out = @ \o PlainRecord("handshake", <<answer>>)
                      \o PlainRecord("change_cipher_spec", <<Item("ccs", 0)>>)
                      \o Partition(key, 0, all, s.conf.flight)]

\* the client's Finished
ServerFinished(s) ==
    LET f == s.raw[1].f
        all == s.transcript \o s.acc
        ticket == IF s.conf.ticket
                  THEN encrypt_handshake(derive_application_secrets(s.suite, s.shared, all, "server"),
                                         0, <<Item("ticket", 0)>>)
                  ELSE <<>>
    IN  IF /\ s.honest
           /\ decrypts(s.rkey, 0, f)
           /\ f.pt = construct_finished(compute_finished_verify_data(s.rkey, all), 0)
        THEN [s EXCEPT !.tls = "app", !.raw = Drop(@, RecordCells),
                !.rkey = derive_application_secrets(s.suite, s.shared, all, "client"),
                !.wkey = derive_application_secrets(s.suite, s.shared, all, "server"),
                !.out = @ \o ticket, !.wseq = IF s.conf.ticket THEN 1 ELSE 0]
        ELSE Dead(s)

ServerRecord(s) ==
    LET f == s.raw[1].f
        rest == [s EXCEPT !.raw = Drop(@, RecordCells), !.rseq = @ + 1]
    IN  CASE ~decrypts(s.rkey, s.rseq, f) -> Dead(s)
          [] decrypts(s.rkey, s.rseq, f) /\ f.in = "data" -> [rest EXCEPT !.sin = @ \o f.pt]
          [] decrypts(s.rkey, s.rseq, f) /\ f.in = "alert" -> [rest EXCEPT !.eof = TRUE]

RECURSIVE ServerTls(_)
ServerTls(s) ==
    IF s.tls = "off" THEN [s EXCEPT !.sin = @ \o s.raw, !.raw = <<>>]
    ELSE IF s.dead \/ ~HasRecord(s.raw) THEN s
    ELSE ServerTls(CASE s.tls = "hello"    -> ServerFlight(s, s.raw[1].f.pt[1])
                     [] s.tls = "finished" -> ServerFinished(s)
                     [] s.tls = "app"      -> ServerRecord(s))

(***************************************************************************)
(* Sending.                                                                *)
(***************************************************************************)
Below(s, cells) ==
    IF s.tls = "off" THEN [s EXCEPT !.out = @ \o cells]
    ELSE [s EXCEPT !.out = @ \o encrypt_fragmented(s.wkey, s.wseq, cells),
                   !.wseq = @ + Fragments(cells)]

Wrapped(s, items) ==
    LET c == CASE s.s.layer = "ss"  -> ss_write(s.s, items)
               [] s.s.layer = "enc" -> enc_write(s.s, items)
               [] s.s.layer = "ss2022" -> ss2022_write(s.s, items)
               [] s.s.layer = "none" -> [s.s EXCEPT !.wbuf = Plain(items)]
    IN  Below([s EXCEPT !.s = [c EXCEPT !.wbuf = <<>>]], c.wbuf)

\* the answer of Shadowsocks 2022 names the request it answers
FirstAnswer2022(s, items) ==
    LET cr == Crypto(session_subkey_2022(s.conf.key, "server salt"))
        head == [t |-> "response", v |-> Len(items), w |-> <<s.s.salt, s.conf.clock>>]
    IN  Below([s EXCEPT !.owes = FALSE, !.s.send = incr_nonce(incr_nonce(cr))],
              Cells(Frame("salt", 1, <<"server salt">>, 0, "", <<>>))
                 \o seal(cr, <<head>>) \o seal(incr_nonce(cr), items))

VlessAnswer(s) == <<Item("resp", s.conf.addon)>> \o [i \in 1..s.conf.addon |-> Item("addon", i)]

Say(s, items) ==
    IF s.owes /\ s.s.layer = "ss2022" THEN FirstAnswer2022(s, items)
    ELSE IF s.owes THEN Wrapped([s EXCEPT !.owes = FALSE], VlessAnswer(s) \o items)
    ELSE Wrapped(s, items)

SayEnd(s) ==
    IF s.tls = "app" THEN [s EXCEPT !.out = @ \o encrypt_close_notify(s.wkey, s.wseq)] ELSE s

(***************************************************************************)
(* The session layer, and the requests.                                    *)
(***************************************************************************)
ServerHello(s) ==
    LET hello == client_hello("enc key")
        keys == AnswerKeys("enc key")
        padding == s.conf.padding
        mine == Stream("enc", "header")
    IN  IF Len(s.sin) < Len(hello) THEN s
        ELSE IF Take(s.sin, Len(hello)) # hello THEN Dead(s)
        ELSE Below([s EXCEPT !.session = "open", !.sin = Drop(@, Len(hello)),
                      !.s = [mine EXCEPT !.send = Raised(peer_aead("enc key"),
                                                         IF padding > 0 THEN 3 ELSE 2),
                                         !.recv = write_aead("enc key"),
                                         !.xor = s.ob.encryption = "random"]],
                   seal(keys[1], <<Item("pfs", 0)>>) \o seal(keys[2], <<Item("ticket", 0)>>)
                     \o seal(keys[3], <<Item("len", padding)>>)
                     \o (IF padding > 0
                         THEN seal(Raised(peer_aead("enc key"), 3), [i \in 1..padding - Tag |-> Item("pad", i)])
                         ELSE <<>>))

ServerHead2022(s) ==
    LET size == Len(Ss2022Stream(s.conf.key, s.conf.ipsks, "client salt",
                                 encode_ss_address("target")).wbuf)
        addr == s.sin[size].f.pt
        expected == Ss2022Stream(s.conf.key, s.conf.ipsks, "client salt", addr)
    IN  IF Len(s.sin) < size THEN s
        ELSE IF Take(s.sin, size) # expected.wbuf THEN Dead(s)
        ELSE [s EXCEPT !.session = "open", !.sin = Drop(@, size), !.pin = addr,
                !.owes = TRUE,
                !.s = [Stream("ss2022", "len") EXCEPT !.secret = s.conf.key,
                          !.salt = "client salt", !.recv = expected.send]]

RECURSIVE ServerSession(_)
ServerSession(s) ==
    IF s.dead \/ s.sin = <<>> THEN s
    ELSE IF s.session = "enc hello" THEN
         LET t == ServerHello(s) IN IF t = s THEN s ELSE ServerSession(t)
    ELSE IF s.session = "head" THEN
         LET t == ServerHead2022(s) IN IF t = s THEN s ELSE ServerSession(t)
    ELSE IF s.s.layer = "none" THEN [s EXCEPT !.pin = @ \o Text(s.sin), !.sin = <<>>]
    ELSE LET d == ReadFrames(s.s, s.sin, FALSE)
         IN  IF d.c.state # "open" THEN Dead(s)
             ELSE ServerSession([s EXCEPT !.pin = @ \o d.c.plain, !.sin = d.q,
                                          !.s = [d.c EXCEPT !.plain = <<>>]])

Good(s) == s.conf.answer = "ok"
SocksReply(s) ==
    <<[t |-> "rep", v |-> IF Good(s) THEN 0 ELSE 5, w |-> <<s.conf.bnd>>]>>
       \o (IF s.conf.bnd = "ip" THEN <<Item("addr", 0)>> ELSE <<Item("len", 1), Item("addr", 0)>>)
HttpReply(s) == <<Item("status", IF Good(s) THEN 200 ELSE 403), Item("line", 0), Item("end", 0)>>
Relaying(s, target) == [s EXCEPT !.stage = "relay", !.req = target]

\* the credential is the first of the words
Request(s, item) ==
    CASE item.t = "greeting" ->
           IF item.v = 2 THEN Wrapped([s EXCEPT !.stage = "auth"], <<Item("method", 2)>>)
           ELSE IF s.conf.key = "" THEN Wrapped(s, <<Item("method", 0)>>)
           ELSE Wrapped(Dead(s), <<Item("method", 255)>>)
      [] item.t = "auth" ->
           IF item.w = <<s.conf.key>> THEN Wrapped([s EXCEPT !.stage = "request"], <<Item("auth", 0)>>)
           ELSE Wrapped(Dead(s), <<Item("auth", 1)>>)
      [] item.t = "connect" ->
           IF Good(s) THEN Wrapped(Relaying(s, item.w[2]), SocksReply(s))
           ELSE Wrapped(Dead(s), SocksReply(s))
      [] item.t = "CONNECT" ->
           IF Good(s) THEN Wrapped(Relaying(s, item.w[2]), HttpReply(s))
           ELSE Wrapped(Dead(s), HttpReply(s))
      [] item.t = "address" -> Relaying(s, item.w[2])
      [] item.t \in {"vless", "trojan"} ->
           IF item.w[1] = s.conf.key THEN Relaying(s, item.w[2]) ELSE Dead(s)
      [] OTHER -> Dead(s)

RECURSIVE ServerRequests(_)
ServerRequests(s) ==
    IF s.dead \/ s.stage = "relay" \/ s.pin = <<>> THEN s
    ELSE ServerRequests(Request([s EXCEPT !.pin = Tail(@)], s.pin[1]))

Receive(s, cells) == ServerRequests(ServerSession(ServerTls([s EXCEPT !.raw = @ \o cells])))
=============================================================================
