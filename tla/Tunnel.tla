------------------------------- MODULE Tunnel -------------------------------
(***************************************************************************)
(* One connection through an outbound (outbound.rs): the dial, step by     *)
(* step, and the stream it returns, with an application on one side and    *)
(* the target behind the proxy server on the other.  The streams are       *)
(* layered: VlessRespStrip over Shadowsocks or VLESS encryption or nothing *)
(* over REALITY or nothing over TCP.                                       *)
(***************************************************************************)
EXTENDS ProxyPeer

CONSTANT Scenarios      \* profiles, servers, what the applications say

VARIABLES sc,           \* the scenario
          todo,         \* steps of the dial that are left
          hand,         \* what the step at hand has read
          phase,        \* dial, open, vision, failed
          c,            \* the session layer
          r,            \* REALITY
          strip,        \* the VLESS answer's head: cells still to drop, -1 unknown
          up, down,     \* TCP to and from the server
          upFin, downFin,
          srv,          \* the proxy server
          sent, got, shut, ended

vars == <<sc, todo, hand, phase, c, r, strip, up, down, upFin, downFin, srv,
          sent, got, shut, ended>>

Ends == {"app", "target"}
Ob == outbound_from_profile(sc.profile)
Tls == Ob.transport = "reality"
Cap == sc.cap       \* cells a TCP direction holds

\* the stream a dial begins with: TCP is connected
FirstStream(ob) ==
    IF ob.kind # "shadowsocks" THEN Stream("none", "data")
    ELSE IF is_2022(ob.method)
    THEN LET k == parse_ss2022_psks(ob.keys)
         IN  Ss2022Stream(k.psk, k.ipsks, "client salt", encode_ss_address("target"))
    ELSE ShadowsocksStream(ob.keys[1], "client salt")

Init ==
    /\ sc \in Scenarios
    /\ todo = connect_tcp(Ob)
    /\ hand = <<>>
    /\ phase = "dial"
    /\ c = FirstStream(Ob)
    /\ r = generate_client_hello(sc.pbk, sc.sid, "sni")
    /\ strip = IF Ob.kind = "vless" THEN -1 ELSE 0
    /\ up = <<>> /\ down = <<>> /\ upFin = FALSE /\ downFin = FALSE
    /\ srv = Server(Ob, sc.conf)
    /\ sent = [e \in Ends |-> <<>>] /\ got = [e \in Ends |-> <<>>]
    /\ shut = [e \in Ends |-> FALSE] /\ ended = [e \in Ends |-> FALSE]

pipe == <<sent, got, shut, ended>>
server == <<down, downFin, srv>>

(***************************************************************************)
(* Writing through the layers.  A write state w has the session c, the     *)
(* transport r, the wire up and what was not taken.                        *)
(***************************************************************************)
Writer(s, t, wire, left) == [c |-> s, r |-> t, up |-> wire, left |-> left]

\* flush_wbuf of RealityStream
flush_tls(t, wire) ==
    LET n == Smaller(Len(t.wbuf), Cap - Len(wire))
    IN  [r |-> [t EXCEPT !.wbuf = Drop(@, n)], up |-> wire \o Take(t.wbuf, n)]

\* Defect: more is written than the socket takes
WriteRegardless(t, wire, cells) ==
    IF ~Tls THEN [r |-> t, up |-> wire \o cells, left |-> <<>>]
    ELSE [r |-> [drain_tls(t, cells) EXCEPT !.wbuf = <<>>],
          up |-> wire \o drain_tls(t, cells).wbuf, left |-> <<>>]

\* poll_write of the transport
transport_write(t, wire, cells) ==
    IF ~Tls
    THEN LET n == Smaller(Len(cells), Cap - Len(wire))
         IN  [r |-> t, up |-> wire \o Take(cells, n), left |-> Drop(cells, n)]
    ELSE LET a == flush_tls(t, wire)
             b == flush_tls(drain_tls(a.r, cells), a.up)
         IN  IF a.r.wbuf # <<>> THEN [r |-> a.r, up |-> a.up, left |-> cells]
             ELSE [r |-> b.r, up |-> b.up, left |-> <<>>]

\* Defect: what the socket did not take is dropped
FlushOnce(s, t, wire) ==
    LET a == transport_write(t, wire, s.wbuf)
    IN  IF s.wbuf = <<>> THEN Writer(s, t, wire, <<>>)
        ELSE Writer([s EXCEPT !.wbuf = <<>>], a.r, a.up, <<>>)

\* flush_wbuf of the session layer
flush_session(s, t, wire) ==
    LET a == transport_write(t, wire, s.wbuf)
    IN  IF s.wbuf = <<>> THEN Writer(s, t, wire, <<>>)
        ELSE Writer([s EXCEPT !.wbuf = a.left], a.r, a.up, <<>>)

session_write(s, items) ==
    CASE s.layer = "ss" -> ss_write(s, items)
      [] s.layer = "ss2022" -> ss2022_write(s, items)
      [] s.layer = "enc" -> enc_write(s, items)

\* poll_write: left is what was not accepted
poll_write(s, t, wire, items) ==
    LET a == flush_session(s, t, wire)
        b == flush_session(session_write(a.c, Take(items, MaxChunk)), a.r, a.up)
        n == transport_write(t, wire, Plain(items))
    IN  IF s.layer = "none" THEN Writer(s, n.r, n.up, Text(n.left))
        ELSE IF a.c.wbuf # <<>> THEN [a EXCEPT !.left = items]
        ELSE [b EXCEPT !.left = Drop(items, MaxChunk)]

poll_flush(s, t, wire) ==
    LET a == flush_session(s, t, wire)
        b == flush_tls(a.r, a.up)
    IN  IF a.c.wbuf # <<>> \/ ~Tls THEN a ELSE Writer(a.c, b.r, b.up, <<>>)

(***************************************************************************)
(* The dial.                                                               *)
(***************************************************************************)
Answers == {"enc answer", "method", "auth reply", "reply", "status"}
Dialing(step) == phase = "dial" /\ todo # <<>> /\ Head(todo) = step
Written(w) == c' = w.c /\ r' = w.r /\ up' = w.up
Fails == phase' = "failed" /\ UNCHANGED <<todo, hand, c, r, up, down>>

\* write_all of what a step says; the buffers of a new connection take it
DialSay ==
    \E step \in {"greeting", "auth", "connect", "CONNECT", "request"} :
        /\ Dialing(step)
        /\ LET w == poll_write(c, r, up, Said(Ob, step, "target"))
           IN  w.left = <<>> /\ Written(w)
        /\ todo' = Tail(todo)
        /\ UNCHANGED <<sc, hand, phase, strip, upFin, server, pipe>>

DialFlush ==
    /\ Dialing("flush")
    /\ LET w == poll_flush(c, r, up)
       IN  /\ Written(w)
           /\ todo' = IF w.c.wbuf = <<>> /\ w.r.wbuf = <<>> THEN Tail(todo) ELSE todo
    /\ UNCHANGED <<sc, hand, phase, strip, upFin, server, pipe>>

Refuse ==
    /\ Dialing("refuse")
    /\ Fails
    /\ UNCHANGED <<sc, strip, upFin, downFin, srv, pipe>>

\* reality_handshake: what waits is written, then the socket is read
DialReality ==
    LET w == transport_write(r, up, <<>>)
        wait == r.cipher # <<>> \/ r.wbuf # <<>>
        p == PullHandshake(r, down)
    IN  /\ Dialing("reality")
        /\ \/ /\ wait
              /\ r' = w.r /\ up' = w.up
              /\ UNCHANGED <<todo, hand, phase, c, down>>
           \/ /\ ~wait /\ ~is_handshaking(r)
              /\ todo' = Tail(todo)
              /\ UNCHANGED <<hand, phase, c, r, up, down>>
           \/ /\ ~wait /\ is_handshaking(r) /\ down # <<>>
              /\ r' = p.r /\ down' = p.q
              /\ phase' = IF p.r.fatal \/ p.r.panic THEN "failed" ELSE phase
              /\ UNCHANGED <<todo, hand, c, up>>
           \/ /\ ~wait /\ is_handshaking(r) /\ down = <<>> /\ downFin
              /\ Fails
        /\ UNCHANGED <<sc, strip, upFin, downFin, srv, pipe>>

DialEncHello ==
    /\ Dialing("enc hello")
    /\ LET a == transport_write(r, up, client_hello(sc.nfs))
       IN  a.left = <<>> /\ r' = a.r /\ up' = a.up
    /\ todo' = Tail(todo)
    /\ UNCHANGED <<sc, hand, phase, c, strip, upFin, server, pipe>>

\* what the transport has: the socket's cells, or REALITY's plaintext
Source == IF Tls THEN r.plain ELSE down
Pulled == PullRecords(r, down)
\* n cells of the source are taken
Took(n) ==
    IF Tls THEN r' = [r EXCEPT !.plain = Drop(@, n)] /\ down' = down
           ELSE r' = r /\ down' = Drop(down, n)

\* REALITY's poll_read has to read the socket first
DialPull ==
    /\ phase = "dial" /\ todo # <<>> /\ Head(todo) \in Answers
    /\ Tls /\ r.plain = <<>> /\ down # <<>>
    /\ r' = Pulled.r /\ down' = Pulled.q
    /\ phase' = IF Pulled.r.fatal \/ Pulled.r.panic THEN "failed" ELSE phase
    /\ UNCHANGED <<sc, todo, hand, c, strip, up, upFin, downFin, srv, pipe>>

\* read_exact of one block of the answer at a time
DialEncAnswer ==
    LET i == Len(hand) \div AnswerBlock + 1
        n == Smaller(i * AnswerBlock - Len(hand), Len(Source))
        next == hand \o Take(Source, n)
        block == SubSeq(next, (i - 1) * AnswerBlock + 1, i * AnswerBlock)
        whole == Len(next) = i * AnswerBlock
        padding == block[1].f.pt[1].v
    IN  /\ Dialing("enc answer")
        /\ Source # <<>>
        /\ Took(n)
        /\ hand' = next
        /\ phase' = IF whole /\ ~opens(AnswerKeys(sc.nfs)[i], block) THEN "failed" ELSE phase
        /\ IF whole /\ i = 3 /\ phase' = "dial"
           THEN todo' = Tail(todo) /\ c' = VlessEncStream(EncState(Ob, sc.nfs, padding))
           ELSE UNCHANGED <<todo, c>>
        /\ UNCHANGED <<sc, strip, up, upFin, downFin, srv, pipe>>

\* the answers of SOCKS5 and HTTP proxies; the server's choice of a password
\* adds two steps
DialAnswer ==
    \E step \in {"method", "auth reply", "reply", "status"} :
        LET n == Smaller(AnswerNeeds(step, hand), Len(down))
            next == hand \o Text(Take(down, n))
            needs == AnswerNeeds(step, next)
            password == step = "method" /\ next[1].v = 2
        IN  /\ Dialing(step)
            /\ down # <<>>
            /\ down' = Drop(down, n)
            /\ phase' = IF needs = -1 THEN "failed" ELSE phase
            /\ hand' = IF needs = 0 THEN <<>> ELSE next
            /\ todo' = IF needs # 0 THEN todo
                       ELSE IF password THEN <<"auth", "auth reply">> \o Tail(todo)
                       ELSE Tail(todo)
            /\ UNCHANGED <<sc, c, r, strip, up, upFin, downFin, srv, pipe>>

\* the connection ends while an answer is read
DialEof ==
    /\ phase = "dial" /\ todo # <<>> /\ Head(todo) \in Answers
    /\ Source = <<>> /\ down = <<>> /\ downFin
    /\ Fails
    /\ UNCHANGED <<sc, strip, upFin, downFin, srv, pipe>>

\* the stream is handed over; Vision takes TCP and the TLS session apart
DialDone ==
    /\ phase = "dial"
    /\ \/ todo = <<>> /\ phase' = "open"
       \/ Dialing("vision") /\ phase' = "vision"
    /\ UNCHANGED <<sc, todo, hand, c, r, strip, up, upFin, server, pipe>>

(***************************************************************************)
(* The stream in use.                                                      *)
(***************************************************************************)
Unsaid(e) == Drop(sc.speech[e], Len(sent[e]))
Items(values) == [i \in 1..Len(values) |-> Data(values[i])]

AppWrite ==
    /\ phase = "open" /\ ~shut["app"]
    /\ \E n \in 1..Len(Unsaid("app")) :
         LET w == poll_write(c, r, up, Items(Take(Unsaid("app"), n)))
         IN  /\ Len(w.left) < n
             /\ Written(w)
             /\ sent' = [sent EXCEPT !["app"] = @ \o Take(Unsaid("app"), n - Len(w.left))]
    /\ UNCHANGED <<sc, todo, hand, phase, strip, upFin, server, got, shut, ended>>

\* flush, and the part of a blocked write or shutdown that moves bytes
AppFlush ==
    LET w == poll_flush(c, r, up)
    IN  /\ phase = "open"
        /\ w.up # up
        /\ Written(w)
        /\ UNCHANGED <<sc, todo, hand, phase, strip, upFin, server, pipe>>

AppShut ==
    /\ phase = "open" /\ ~shut["app"] /\ Unsaid("app") = <<>>
    /\ shut' = [shut EXCEPT !["app"] = TRUE]
    /\ UNCHANGED <<sc, todo, hand, phase, c, r, strip, up, upFin, server, sent, got, ended>>

\* poll_shutdown, again each time the socket can take more: REALITY queues
\* its close_notify on every call
PollShutdown ==
    LET a == flush_session(c, r, up)
        b == flush_tls(drain_tls(send_close_notify(a.r), <<>>), a.up)
    IN  /\ phase = "open" /\ shut["app"] /\ ~upFin
        /\ Len(up) < Cap
        /\ c' = a.c
        /\ IF a.c.wbuf # <<>> \/ ~Tls
           THEN r' = a.r /\ up' = a.up /\ upFin' = (a.c.wbuf = <<>>)
           ELSE r' = b.r /\ up' = b.up /\ upFin' = (b.r.wbuf = <<>>)
        /\ UNCHANGED <<sc, todo, hand, phase, strip, server, pipe>>

\* poll_read of the session over the transport
RECURSIVE ReadThrough(_, _, _)
ReadThrough(s, t, q) ==
    LET p == PullRecords(t, q)
        d == ReadFrames(s, p.r.plain, FALSE)
        e == ReadFrames(s, q, downFin)
        n == IF s.layer = "none"
             THEN [c |-> [s EXCEPT !.plain = Text(q),
                             !.state = IF q = <<>> /\ downFin THEN "ended" ELSE @], q |-> <<>>]
             ELSE e
        m == IF s.layer = "none"
             THEN [c |-> [s EXCEPT !.plain = Text(p.r.plain)], q |-> <<>>] ELSE d
    IN  IF s.plain # <<>> \/ s.state # "open" THEN [c |-> s, r |-> t, q |-> q]
        ELSE IF ~Tls THEN [c |-> n.c, r |-> t, q |-> n.q]
        ELSE IF p.r.fatal \/ p.r.panic THEN [c |-> Fail(s), r |-> p.r, q |-> p.q]
        ELSE IF p.r.plain # <<>>
        THEN ReadThrough(m.c, [p.r EXCEPT !.plain = m.q], p.q)
        ELSE IF ~downFin THEN [c |-> s, r |-> p.r, q |-> p.q]
        ELSE [c |-> IF s.layer = "none" THEN [s EXCEPT !.state = "ended"]
                    ELSE ReadFrames(s, <<>>, TRUE).c,
              r |-> p.r, q |-> p.q]

\* Defect: the addon is taken for data
StripHeadOnly(n, items) ==
    IF n = 0 \/ items = <<>> THEN [n |-> n, items |-> items]
    ELSE [n |-> 0, items |-> Tail(items)]

\* VlessRespStrip: the head of the answer, then the addon it announces
RECURSIVE Stripped(_, _)
Stripped(n, items) ==
    IF n = 0 \/ items = <<>> THEN [n |-> n, items |-> items]
    ELSE Stripped(IF n = -1 THEN items[1].v ELSE n - 1, Tail(items))

Polled == ReadThrough(c, r, down)

\* a poll that has something to do: data, an end, an error, or bytes to take in
AppRead ==
    LET d == Polled
        s == Stripped(strip, d.c.plain)
        broken == \/ d.c.state = "failed"
                  \/ d.c.state = "ended" /\ strip # 0
    IN  /\ phase = "open" /\ ~ended["app"]
        /\ d # [c |-> c, r |-> r, q |-> down]
        /\ phase' = IF broken THEN "failed" ELSE phase
        /\ c' = [d.c EXCEPT !.plain = <<>>]
        /\ r' = d.r /\ down' = d.q /\ strip' = s.n
        /\ got' = [got EXCEPT !["app"] = @ \o Values(s.items)]
        /\ ended' = [ended EXCEPT !["app"] = d.c.state = "ended" /\ ~broken]
        /\ UNCHANGED <<sc, todo, hand, up, upFin, downFin, srv, sent, shut>>

(***************************************************************************)
(* The server and the target.                                              *)
(***************************************************************************)
Alive == phase \in {"dial", "open"}
client == <<sc, todo, hand, phase, c, r, strip>>

Serve ==
    LET s == Receive(srv, up)
    IN  /\ Alive /\ up # <<>>
        /\ up' = <<>>
        /\ srv' = IF s.stage = "relay" THEN [s EXCEPT !.pin = <<>>] ELSE s
        /\ got' = [got EXCEPT !["target"] =
                      IF s.stage = "relay" THEN @ \o Values(s.pin) ELSE @]
        /\ UNCHANGED <<client, down, upFin, downFin, sent, shut, ended>>

Push ==
    /\ Alive /\ srv.out # <<>> /\ Len(down) < Cap
    /\ down' = Append(down, Head(srv.out))
    /\ srv' = [srv EXCEPT !.out = Tail(@)]
    /\ UNCHANGED <<client, up, upFin, downFin, pipe>>

TargetWrite ==
    /\ Alive /\ srv.stage = "relay" /\ ~srv.dead /\ ~shut["target"]
    /\ \E n \in 1..Smaller(MaxChunk, Len(Unsaid("target"))) :
         /\ srv' = Say(srv, Items(Take(Unsaid("target"), n)))
         /\ sent' = [sent EXCEPT !["target"] = @ \o Take(Unsaid("target"), n)]
    /\ UNCHANGED <<client, up, down, upFin, downFin, got, shut, ended>>

TargetShut ==
    /\ Alive /\ srv.stage = "relay" /\ ~srv.dead /\ ~shut["target"] /\ Unsaid("target") = <<>>
    /\ shut' = [shut EXCEPT !["target"] = TRUE]
    /\ srv' = SayEnd(srv)
    /\ UNCHANGED <<client, up, down, upFin, downFin, sent, got, ended>>

\* the target is told the end once all that was sent is through
TargetEnd ==
    /\ Alive /\ upFin /\ up = <<>> /\ srv.stage = "relay" /\ ~ended["target"]
    /\ ended' = [ended EXCEPT !["target"] = TRUE]
    /\ UNCHANGED <<client, up, upFin, server, sent, got, shut>>

\* the connection is closed after the target's end, or for a bad request
ServerFin ==
    /\ Alive /\ srv.out = <<>> /\ ~downFin
    /\ shut["target"] \/ srv.dead
    /\ downFin' = TRUE
    /\ shut' = [shut EXCEPT !["target"] = TRUE]
    /\ UNCHANGED <<client, up, upFin, down, srv, sent, got, ended>>

Dial == DialSay \/ DialFlush \/ Refuse \/ DialReality \/ DialEncHello \/ DialPull
           \/ DialEncAnswer \/ DialAnswer \/ DialEof \/ DialDone
Use == AppWrite \/ AppFlush \/ AppShut \/ PollShutdown \/ AppRead
Far == Serve \/ Push \/ TargetWrite \/ TargetShut \/ TargetEnd \/ ServerFin

Next == Dial \/ Use \/ Far

\* Some step is possible: the guards of Next
CanDial ==
    /\ phase = "dial"
    /\ \/ todo = <<>>
       \/ Head(todo) \notin Answers \union {"flush", "reality"}
       \/ Head(todo) = "flush" /\ (Len(up) < Cap \/ (c.wbuf = <<>> /\ r.wbuf = <<>>))
       \/ Head(todo) = "reality" /\
            IF r.wbuf # <<>> THEN Len(up) < Cap
            ELSE r.cipher # <<>> \/ ~is_handshaking(r) \/ down # <<>> \/ downFin
       \/ Head(todo) \in Answers /\ (Source # <<>> \/ down # <<>> \/ downFin)
CanUse ==
    /\ phase = "open"
    /\ \/ ~shut["app"] /\ Unsaid("app") = <<>>
       \/ ~shut["app"] /\ \E n \in 1..Len(Unsaid("app")) :
             Len(poll_write(c, r, up, Items(Take(Unsaid("app"), n))).left) < n
       \/ poll_flush(c, r, up).up # up
       \/ shut["app"] /\ ~upFin /\ Len(up) < Cap
       \/ ~ended["app"] /\ Polled # [c |-> c, r |-> r, q |-> down]
CanFar ==
    /\ Alive
    /\ \/ up # <<>>
       \/ srv.out # <<>> /\ Len(down) < Cap
       \/ srv.stage = "relay" /\ ~srv.dead /\ ~shut["target"]
       \/ upFin /\ up = <<>> /\ srv.stage = "relay" /\ ~ended["target"]
       \/ srv.out = <<>> /\ ~downFin /\ (shut["target"] \/ srv.dead)
CanStep == CanDial \/ CanUse \/ CanFar

\* weak fairness of Next, with the guards in place of ENABLED
Fairness == []<>~CanStep \/ []<><<Next>>_vars
Spec == Init /\ [][Next]_vars /\ Fairness

-----------------------------------------------------------------------------
(* Properties *)

TypeOK ==
    /\ sc \in Scenarios
    /\ phase \in {"dial", "open", "vision", "failed"}
    /\ c.layer \in {"none", "ss", "ss2022", "enc"}
    /\ c.state \in {"open", "ended", "failed"}
    /\ r.hs \in {"AwaitingServerHello", "ProcessingHandshake", "Complete"}
    /\ strip \in Int
    /\ Len(up) <= Cap /\ Len(down) <= Cap
    /\ \A e \in Ends : sent[e] = Take(sc.speech[e], Len(sent[e]))

\* The stream of every outbound is a pipe in both directions (connect_tcp,
\* poll_read and poll_write of each layer), whatever pieces TCP delivers and
\* accepts: nothing of a handshake, of an answer's head or of a padding is
\* read as data, and no data are read as these.
P == INSTANCE Pipe WITH Ends <- Ends, sent <- sent, got <- got, shut <- shut, ended <- ended
IsPipe == P!Spec

\* Each record of the server's encrypted flight holds whole messages, of two
\* cells each.  A message that is cut over two records is never completed:
\* process_encrypted_handshake looks for messages from the record's own
\* beginning on.
WholeMessages == \A i \in 1..Len(sc.conf.flight) : sc.conf.flight[i] % 2 = 0

\* The scenario has no reason for the connection to fail: the profile makes
\* an outbound whose keys are the server's, the server accepts the request.
\* Over REALITY, the server also cuts its flight between messages and sends no
\* NewSessionTicket, for which process_application_data has no case.
Sound ==
    /\ connect_tcp(Ob) # <<"refuse">>
    /\ sc.pbk = "pbk" /\ sc.sid = "sid" /\ sc.nfs = "enc key"
    /\ Ob.kind \in {"vless", "trojan"} => Ob.keys[1] = sc.conf.key
    /\ Ob.kind = "shadowsocks" => Ob.keys = sc.conf.ipsks \o <<sc.conf.key>>
    /\ Ob.kind = "socks5" => Ob.keys = sc.conf.ipsks \o (IF sc.conf.key = "" THEN <<>> ELSE <<sc.conf.key>>)
    /\ Tls => sc.conf.suite \in CipherSuites /\ WholeMessages /\ ~sc.conf.ticket
    /\ Tls => sc.conf.signer = "cert key"
    /\ sc.conf.answer = "ok" /\ sc.conf.clock = "now"

\* A connection through a server that agrees with the profile never fails:
\* no key, nonce, mask or sequence number of a layer gets out of step, no
\* buffer overflows (seal, open, transform_read, process_new_packets,
\* SlideBuffer), whatever pieces of the records TCP delivers and accepts.
FailsOnlyForCause == Sound => phase # "failed" /\ ~r.panic /\ c.state # "failed"

\* The handshake completes, and with it requests and data are sent, only
\* with a server that holds the private key of pbk and recognised this
\* client (verify_certificate_hmac, verify_certificate_verify_signature):
\* never with the web site that the server shows to others, nor with one that
\* shows the right HMAC and signs the transcript with another key.
OnlyTheServer == Tls /\ ~is_handshaking(r) => srv.honest

\* "into_inner: only after flush, or the records in wbuf are lost" (the
\* debug_assert of RealityStream::into_inner): Vision gets a transport that
\* holds back nothing of the request.
CleanHandover ==
    phase = "vision" => c.wbuf = <<>> /\ (Tls => r.wbuf = <<>> /\ r.cipher = <<>>)

\* Every dial ends and everything said arrives: the handshakes and answers
\* are never waited for in vain and nothing stays in a buffer.  A server that
\* refuses the client ends the connection, and the application is told.  Only
\* a REALITY server that cuts a message over two records is waited for without
\* end.
AllArrives ==
    <>(\/ phase \in {"failed", "vision"}
       \/ Tls /\ ~WholeMessages
       \/ /\ ended["app"]
          /\ Sound => /\ ended["target"]
                      /\ got["app"] = sc.speech["target"]
                      /\ got["target"] = sc.speech["app"])

\* The layers of a connection stay in step with those of a server that agrees
\* with the profile, from the first salt to the stream that is handed over.
LayersStayInStep == TypeOK /\ FailsOnlyForCause /\ CleanHandover
=============================================================================
