------------------------------ MODULE Reality ------------------------------
(***************************************************************************)
(* The client's side of REALITY (reality/*.rs, reality_transport.rs): a    *)
(* TLS 1.3 handshake in which the server proves that it holds the private  *)
(* key of pbk, and the stream of records after it.  A record occupies two  *)
(* cells, a handshake message of the encrypted flight two: its header and  *)
(* its body.  The plaintext of application records are the cells of the    *)
(* layer above.                                                            *)
(***************************************************************************)
EXTENDS Wire

CONSTANTS MaxRecord,    \* most plaintext of a record (MAX_TLS_PLAINTEXT_LEN)
          ReadNet       \* most cells of one read of the socket (net)

RecordCells == 2

ASSUME RealityAssumption == MaxRecord \in Nat \ {0} /\ ReadNet \in 1..RecordCells

(***************************************************************************)
(* Keys.  A Diffie-Hellman secret is the pair of keys that makes it.       *)
(***************************************************************************)
perform_ecdh(mine, theirs) == <<"dh", {mine, theirs}>>
derive_auth_key(shared, random) == <<"REALITY", shared, random>>
encrypt_session_id(short, auth, hello) == <<"session id", short, auth, hello>>
decrypt_session_id(sid, auth, hello) ==
    IF Len(sid) = 4 /\ sid[3] = auth /\ sid[4] = hello THEN sid[2] ELSE "refused"

derive_handshake_keys(suite, shared, transcript, side) ==
    <<"hs", side, suite, shared, transcript>>
derive_application_secrets(suite, shared, transcript, side) ==
    <<"ap", side, suite, shared, transcript>>
compute_finished_verify_data(secret, transcript) == <<"finished", secret, transcript>>

(***************************************************************************)
(* Messages.                                                               *)
(***************************************************************************)
CipherSuites == {"AES_128_GCM_SHA256", "AES_256_GCM_SHA384", "CHACHA20_POLY1305_SHA256"}

construct_client_hello(sid, share, name) ==
    [t |-> "client_hello", v |-> 0, w |-> <<sid, share, name>>]
\* a ServerHello without an X25519 share has the share ""
construct_server_hello(suite, share) ==
    [t |-> "server_hello", v |-> 0, w |-> <<suite, share>>]
extract_session_id_slice(hello) == hello.w[1]
extract_client_public_key(hello) == hello.w[2]
extract_server_public_key(hello) == hello.w[2]
extract_server_cipher_suite(hello) == hello.w[1]

\* header and body; read as a header, a body claims noise cells
Message(name, body, noise) ==
    << [t |-> "message", v |-> 1, w |-> <<name>>],
       [t |-> "body", v |-> noise, w |-> body] >>
construct_encrypted_extensions(noise) == Message("EncryptedExtensions", <<>>, noise)
\* the certificate's signature is the HMAC of its key
construct_certificate(key, hmac, noise) == Message("Certificate", <<key, hmac>>, noise)
construct_certificate_verify(key, transcript, noise) ==
    Message("CertificateVerify", <<key, transcript>>, noise)
construct_finished(data, noise) == Message("Finished", data, noise)

verify_certificate_hmac(body, auth) == body[2] = auth
extract_ed25519_public_key(body) == body[1]
verify_certificate_verify_signature(key, body, transcript) == body = <<key, transcript>>

(***************************************************************************)
(* Records.                                                                *)
(***************************************************************************)
Record(type, key, seq, content, pt) == Cells(Frame(type, RecordCells, key, seq, content, pt))
PlainRecord(type, pt) == Record(type, <<>>, 0, "", pt)
encrypt_handshake(key, seq, msgs) == Record("app", key, seq, "handshake", msgs)

RECURSIVE encrypt_fragmented(_, _, _)
encrypt_fragmented(key, seq, pt) ==
    IF pt = <<>> THEN <<>>
    ELSE Record("app", key, seq, "data", Take(pt, MaxRecord))
            \o encrypt_fragmented(key, seq + 1, Drop(pt, MaxRecord))
Fragments(pt) == (Len(pt) + MaxRecord - 1) \div MaxRecord

encrypt_close_notify(key, seq) == Record("app", key, seq, "alert", <<Item("close_notify", 0)>>)

HasRecord(buf) == buf # <<>> /\ Len(buf) >= buf[1].f.n
decrypts(key, seq, f) == f.key = key /\ f.nonce = seq

(***************************************************************************)
(* The connection and its handshake.                                       *)
(***************************************************************************)
generate_client_hello(pk, short, name) ==
    LET auth == derive_auth_key(perform_ecdh("client", pk), "client random")
        zeroed == construct_client_hello(<<>>, "client", name)
        hello == construct_client_hello(encrypt_session_id(short, auth, zeroed), "client", name)
    IN  [hs |-> "AwaitingServerHello", auth |-> auth, transcript |-> <<hello>>,
         suite |-> "", shared |-> <<>>, hseq |-> 0, acc |-> <<>>, found |-> 0,
         verified |-> FALSE, pub |-> "", cv |-> 0,
         rkey |-> <<>>, wkey |-> <<>>, rseq |-> 0, wseq |-> 0,
         rbuf |-> <<>>, cipher |-> PlainRecord("handshake", <<hello>>), plain |-> <<>>,
         wbuf |-> <<>>, closed |-> FALSE, fatal |-> FALSE, panic |-> FALSE]

is_handshaking(r) == r.hs # "Complete"
Fatal(r) == [r EXCEPT !.fatal = TRUE]
Consumed(r) == [r EXCEPT !.rbuf = Drop(@, RecordCells)]

process_server_hello(r) ==
    LET f == r.rbuf[1].f
        hello == f.pt[1]
        transcript == Append(r.transcript, hello)
    IN  IF \/ f.k # "handshake" \/ hello.t # "server_hello"
           \/ extract_server_public_key(hello) = ""
           \/ extract_server_cipher_suite(hello) \notin CipherSuites
        THEN Fatal(Consumed(r))
        ELSE [Consumed(r) EXCEPT !.hs = "ProcessingHandshake", !.transcript = transcript,
                 !.suite = extract_server_cipher_suite(hello),
                 !.shared = perform_ecdh("client", extract_server_public_key(hello))]

HandshakeKey(r, side) ==
    derive_handshake_keys(r.suite, r.shared, SubSeq(r.transcript, 1, 2), side)

\* Defect: the certificate is taken without its HMAC
FoundUnverified(r, name, at) ==
    LET next == [r EXCEPT !.found = @ + 1]
    IN  CASE name = "Certificate" ->
               [next EXCEPT !.verified = TRUE, !.pub = extract_ed25519_public_key(r.acc[at + 1].w)]
          [] name = "CertificateVerify" -> [next EXCEPT !.cv = at]
          [] OTHER -> next

\* one message of the flight, its header at cell "at" of the plaintext
Found(r, name, at) ==
    LET body == r.acc[at + 1].w
        next == [r EXCEPT !.found = @ + 1]
    IN  CASE name = "Certificate" ->
               IF verify_certificate_hmac(body, r.auth)
               THEN [next EXCEPT !.verified = TRUE, !.pub = extract_ed25519_public_key(body)]
               ELSE Fatal(r)
          [] name = "CertificateVerify" -> [next EXCEPT !.cv = at]
          [] OTHER -> next

RECURSIVE ParseMessages(_, _)
ParseMessages(r, at) ==
    IF r.fatal \/ at > Len(r.acc) \/ r.found = 4 THEN r
    ELSE LET h == r.acc[at]
             name == IF h.t = "message" THEN h.w[1] ELSE "Unknown"
         IN  IF at + h.v > Len(r.acc) THEN r
             ELSE ParseMessages(Found(r, name, at), at + 1 + h.v)

\* all four messages are there
FinishHandshake(r) ==
    LET before == r.transcript \o SubSeq(r.acc, 1, r.cv - 1)
        all == r.transcript \o r.acc
        secret == HandshakeKey(r, "client")
        finished == construct_finished(compute_finished_verify_data(secret, all), 0)
    IN  IF \/ ~r.verified
           \/ r.cv = 0
           \/ ~verify_certificate_verify_signature(r.pub, r.acc[r.cv + 1].w, before)
        THEN Fatal(r)
        ELSE [r EXCEPT !.cipher = @ \o encrypt_handshake(secret, 0, finished),
                 !.rkey = derive_application_secrets(r.suite, r.shared, all, "server"),
                 !.wkey = derive_application_secrets(r.suite, r.shared, all, "client"),
                 !.rseq = 0, !.wseq = 0, !.hs = "Complete", !.acc = <<>>]

\* A record of the encrypted flight.  The messages are looked for from the
\* beginning of this record on.
process_encrypted_handshake(r) ==
    LET f == r.rbuf[1].f
        opened == [Consumed(r) EXCEPT !.hseq = @ + 1, !.acc = @ \o f.pt]
        parsed == ParseMessages(opened, Len(r.acc) + 1)
    IN  CASE f.k = "change_cipher_spec" -> Consumed(r)
          [] f.k = "app" ->
               IF ~decrypts(HandshakeKey(r, "server"), r.hseq, f) THEN Fatal(Consumed(r))
               ELSE IF parsed.fatal \/ parsed.found < 4 THEN parsed
               ELSE FinishHandshake(parsed)
          [] OTHER -> Fatal(r)

\* A record after the handshake.  close_notify stays in the buffer.
process_application_data(r) ==
    LET f == r.rbuf[1].f
        opened == [r EXCEPT !.rseq = @ + 1]
    IN  CASE ~decrypts(r.rkey, r.rseq, f) -> Fatal(r)
          [] decrypts(r.rkey, r.rseq, f) /\ f.in = "data" ->
               [Consumed(opened) EXCEPT !.plain = @ \o f.pt]
          [] decrypts(r.rkey, r.rseq, f) /\ f.in = "alert" ->
               IF f.pt[1].t = "close_notify" THEN [opened EXCEPT !.closed = TRUE]
               ELSE IF f.pt[1].t = "fatal" THEN Fatal(opened)
               ELSE Consumed(opened)
          [] decrypts(r.rkey, r.rseq, f) /\ f.in = "handshake" -> [opened EXCEPT !.panic = TRUE]

RECURSIVE process_new_packets(_)
process_new_packets(r) ==
    IF r.fatal \/ r.closed \/ r.panic \/ ~HasRecord(r.rbuf) THEN r
    ELSE process_new_packets(
            CASE r.hs = "AwaitingServerHello" -> process_server_hello(r)
              [] r.hs = "ProcessingHandshake" -> process_encrypted_handshake(r)
              [] r.hs = "Complete"            -> process_application_data(r))

\* the buffer of incoming records holds two of them
feed(r, cells) ==
    IF Len(r.rbuf) + Len(cells) > 2 * RecordCells THEN [r EXCEPT !.panic = TRUE]
    ELSE [r EXCEPT !.rbuf = @ \o cells]

(***************************************************************************)
(* The stream.                                                             *)
(***************************************************************************)
\* drain_tls: all that waits becomes records of the buffer
drain_tls(r, pt) ==
    [r EXCEPT !.wbuf = @ \o r.cipher \o encrypt_fragmented(r.wkey, r.wseq, pt),
              !.cipher = <<>>, !.wseq = @ + Fragments(pt)]

send_close_notify(r) ==
    IF is_handshaking(r) THEN r
    ELSE [r EXCEPT !.cipher = @ \o encrypt_close_notify(r.wkey, r.wseq), !.wseq = @ + 1]

\* poll_read up to the first plaintext: q is what the socket has
RECURSIVE PullRecords(_, _)
PullRecords(r, q) ==
    IF r.plain # <<>> \/ r.fatal \/ r.panic \/ q = <<>> THEN [r |-> r, q |-> q]
    ELSE PullRecords(process_new_packets(feed(r, Take(q, ReadNet))), Drop(q, ReadNet))

\* the loop of the handshake: it reads until it is complete or has to wait
RECURSIVE PullHandshake(_, _)
PullHandshake(r, q) ==
    IF ~is_handshaking(r) \/ r.fatal \/ r.panic \/ q = <<>> THEN [r |-> r, q |-> q]
    ELSE PullHandshake(process_new_packets(feed(r, Take(q, ReadNet))), Drop(q, ReadNet))
=============================================================================
