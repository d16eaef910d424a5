---------------------------- MODULE VisionStream ---------------------------
(***************************************************************************)
(* The Vision stream over a REALITY session (vision_stream.rs).  Each      *)
(* direction starts with padded blocks inside outer TLS records and        *)
(* switches once, to plain TLS (command End) or to the bare TCP stream     *)
(* (command Direct); the two directions and the two ends switch at         *)
(* different times, while data of both kinds are on the way.               *)
(*                                                                         *)
(* A stream is a record; the operators below are its methods.  A TCP       *)
(* direction holds at most cap cells, so that writes block and partial     *)
(* records stay behind.  The other end, a server of the same protocol, is   *)
(* a stream of the same kind, as built by new_server.                      *)
(***************************************************************************)
EXTENDS VisionCodec, FiniteSets

CONSTANTS MaxRecord,    \* plaintext cells in an outer TLS record
          WriteMax,     \* cells an application writes at once
          ReadBuf       \* cells a buffer of poll_read takes

ASSUME BoundsAssumption ==
    {MaxRecord, WriteMax, ReadBuf} \subseteq Nat \ {0}

Ends == {"client", "server"}
Peer(e) == IF e = "client" THEN "server" ELSE "client"

\* new_client, new_server, new_common
NewStream(e) ==
    [readMode |-> "Padding", writeMode |-> "Padding",
     outer |-> <<>>, unpadder |-> NewUnpadder,
     innerRead |-> NewDeframer, innerWrite |-> NewDeframer,
     first |-> TRUE, filter |-> NewFilter, pendingRead |-> <<>>,
     respPending |-> e = "client", partial |-> <<>>, respToSend |-> e = "server",
     toDirect |-> FALSE, toTls |-> FALSE,
     cipherIn |-> <<>>, plainIn |-> <<>>, plainOut |-> <<>>, cipherOut |-> <<>>,
     eof |-> FALSE, failed |-> "no"]

\* The poll returns an error; where says which.
Failed(s, where) == [s EXCEPT !.failed = where]

-----------------------------------------------------------------------------
(* Outer TLS.  A record is two cells of the wire with the same body. *)

Raw(c) == [w |-> "raw", half |-> c.part, body |-> <<c>>]

WireRecord(body) == [h \in 1..2 |-> [w |-> "record", half |-> h, body |-> body]]

\* RecordEncryptor::encrypt_app_data: everything that waits, in records of
\* at most MaxRecord cells.
Encrypted(plain) ==
    LET n == (Len(plain) + MaxRecord - 1) \div MaxRecord
        part(i) == SubSeq(plain, (i - 1) * MaxRecord + 1,
                          IF i * MaxRecord < Len(plain) THEN i * MaxRecord ELSE Len(plain))
    IN  FlattenSeq([i \in 1..n |-> WireRecord(part(i))])

\* TlsDeframer::next_record on the outer stream: a complete record is there.
HasRecord(buf) == buf # <<>> /\ (Head(buf).half = 0 \/ Len(buf) > 1)

\* Bytes that are not an outer record are refused by the header's checks or
\* by the decryption.
Readable(buf) == Head(buf).w = "record" /\ Head(buf).half = 1

AfterRecord(buf) == SubSeq(buf, 3, Len(buf))

\* The complete records at the head of a buffer, decrypted; ok is FALSE when
\* one of them is not a record of the session.
RECURSIVE Decrypted(_)
Decrypted(buf) ==
    IF ~HasRecord(buf) THEN [ok |-> TRUE, plain |-> <<>>, rest |-> buf]
    ELSE IF ~Readable(buf) THEN [ok |-> FALSE, plain |-> <<>>, rest |-> buf]
    ELSE LET r == Decrypted(AfterRecord(buf))
         IN  [r EXCEPT !.plain = Head(buf).body \o @]

\* What an application sees of bytes taken from the wire as they are.
AsRead(buf) ==
    [i \in 1..Len(buf) |-> IF buf[i].w = "raw" THEN buf[i].body[1] ELSE Mark("garbage")]

-----------------------------------------------------------------------------
(* Reading *)

\* post_padding_cleanup
PostPaddingCleanup(s) ==
    IF "Padding" \in {s.readMode, s.writeMode} THEN s
    ELSE [s EXCEPT !.innerRead.buf = <<>>, !.innerWrite.buf = <<>>]

SwitchRead(s, mode) == PostPaddingCleanup([s EXCEPT !.readMode = mode])

SwitchWrite(s, mode) ==
    PostPaddingCleanup([s EXCEPT !.writeMode = mode, !.toDirect = FALSE, !.toTls = FALSE])

\* The filter sees the inner records that were read.
RECURSIVE Inspect(_, _)
Inspect(d, f) ==
    LET r == NextRecord(d)
    IN  CASE r.res = "TlsRecord" ->
               LET g == FilterRecord(f, r.data)
               IN  IF IsFiltering(g) THEN Inspect(r.next, g) ELSE [d |-> r.next, f |-> g]
          [] r.res = "UnknownPrefix" -> Inspect(r.next, Decremented(f))
          [] r.res = "NeedData" -> [d |-> r.next, f |-> f]
          [] r.res = "Err" -> [d |-> r.next, f |-> Stopped(f)]

\* The filter's part of handle_padded_bytes.
Inspected(s, content) ==
    IF content = <<>> \/ ~IsFiltering(s.filter) THEN s
    ELSE LET i == Inspect(Feed(s.innerRead, content), s.filter)
         IN  [s EXCEPT !.innerRead = i.d, !.filter = i.f]

\* Defect: the bytes behind a block that ends the padding are dropped.
HandleBlockOnly(s, plain) ==
    LET r == Unpad(s.unpadder, plain)
        t == Inspected([s EXCEPT !.unpadder = r.u, !.pendingRead = @ \o r.content], r.content)
    IN  IF r.err THEN Failed(s, "read")
        ELSE IF r.command = "Continue" THEN t
        ELSE SwitchRead([t EXCEPT !.outer = <<>>], IF r.command = "End" THEN "Tls" ELSE "Direct")

\* handle_padded_bytes: the blocks are unpadded; a block that ends the
\* padding also decides what the rest of the outer deframer is, raw bytes
\* after Direct, records of the session after End.
HandlePaddedBytes(s, plain) ==
    LET r    == Unpad(s.unpadder, plain)
        t    == Inspected([s EXCEPT !.unpadder = r.u], r.content)
        rest == Decrypted(s.outer)
    IN  CASE r.err -> Failed(s, "read")
          [] ~r.err /\ r.command = "Direct" ->
               SwitchRead([t EXCEPT !.pendingRead = @ \o r.content \o AsRead(s.outer),
                                    !.outer = <<>>], "Direct")
          [] ~r.err /\ r.command = "End" ->
               IF ~rest.ok THEN Failed(t, "read")
               ELSE SwitchRead([t EXCEPT !.pendingRead = @ \o r.content \o rest.plain,
                                         !.cipherIn = rest.rest, !.outer = <<>>], "Tls")
          [] ~r.err /\ r.command = "Continue" ->
               [t EXCEPT !.pendingRead = @ \o r.content]

\* Defect: what came with the response is dropped.
ReadResponseOnly(s, buf) ==
    LET r == Decrypted(s.outer \o buf)
        t == [s EXCEPT !.outer = r.rest]
    IN  IF ~r.ok THEN Failed(s, "first read")
        ELSE IF r.plain = <<>> THEN t
        ELSE IF Head(r.plain).t # "response" THEN Failed(t, "first read")
        ELSE [t EXCEPT !.respPending = FALSE]

\* poll_read_vless_response: all complete records of this read are
\* decrypted, then the response is taken off.
ReadVlessResponse(s, buf) ==
    LET r == Decrypted(s.outer \o buf)
        p == s.partial \o r.plain
        t == [s EXCEPT !.outer = r.rest, !.partial = p]
    IN  IF ~r.ok THEN Failed(s, "first read")
        ELSE IF p = <<>> THEN t
        ELSE IF Head(p).t # "response" THEN Failed(t, "first read")
        ELSE LET u == [t EXCEPT !.respPending = FALSE, !.partial = <<>>]
             IN  IF Len(p) = 1 THEN u ELSE HandlePaddedBytes(u, Tail(p))

\* poll_read_padding_tls: the records one by one, until the mode changes.
RECURSIVE ReadPaddingTls(_)
ReadPaddingTls(s) ==
    IF s.failed # "no" \/ s.readMode # "Padding" \/ ~HasRecord(s.outer) THEN s
    ELSE IF ~Readable(s.outer) THEN Failed(s, "read")
    ELSE ReadPaddingTls(HandlePaddedBytes([s EXCEPT !.outer = AfterRecord(@)],
                                          Head(s.outer).body))

\* poll_read_tls: the session reads and decrypts.
ReadTls(s, buf) ==
    LET r == Decrypted(s.cipherIn \o buf)
    IN  IF ~r.ok THEN Failed(s, "read")
        ELSE [s EXCEPT !.cipherIn = r.rest, !.plainIn = @ \o r.plain]

\* Defect: all records that were read are decrypted before any is unpadded.
ReadAllAtOnce(s, buf) ==
    LET r == Decrypted(s.outer \o buf)
    IN  IF ~r.ok THEN Failed(s, "read")
        ELSE IF s.readMode = "Padding" /\ s.respPending THEN ReadVlessResponse(s, buf)
        ELSE IF s.readMode = "Padding" THEN HandlePaddedBytes([s EXCEPT !.outer = r.rest], r.plain)
        ELSE IF s.readMode = "Tls" THEN ReadTls(s, buf)
        ELSE [s EXCEPT !.pendingRead = AsRead(buf)]

\* One read of buf from TCP in poll_read.
PollRead(s, buf) ==
    CASE s.readMode = "Padding" /\ s.respPending -> ReadVlessResponse(s, buf)
      [] s.readMode = "Padding" /\ ~s.respPending ->
           ReadPaddingTls([s EXCEPT !.outer = @ \o buf])
      [] s.readMode = "Tls" -> ReadTls(s, buf)
      [] s.readMode = "Direct" -> [s EXCEPT !.pendingRead = AsRead(buf)]

\* TCP is at its end: an error while the response is awaited.
ReadEof(s) == IF s.respPending THEN Failed(s, "first read") ELSE [s EXCEPT !.eof = TRUE]

-----------------------------------------------------------------------------
(* Writing.  x is a stream, its direction of the wire and how much that holds. *)

\* write_to_session: the writer of the session takes everything.
WriteToSession(x, plain) == [x EXCEPT !.s.plainOut = @ \o plain]

\* Defect: a short write of TCP is taken for a whole one.
ToTcpWhole(x) == [x EXCEPT !.wire = @ \o x.s.cipherOut, !.s.cipherOut = <<>>]

\* TCP takes what it has room for.
ToTcp(x) ==
    LET out  == x.s.cipherOut
        room == x.cap - Len(x.wire)
        n    == IF Len(out) < room THEN Len(out) ELSE room
    IN  [x EXCEPT !.wire = @ \o SubSeq(out, 1, n),
                  !.s.cipherOut = SubSeq(out, n + 1, Len(out))]

\* drain_all_writes_padding, drain_all_writes_tls, write_tls
Drain(x) ==
    ToTcp([x EXCEPT !.s.cipherOut = @ \o Encrypted(x.s.plainOut), !.s.plainOut = <<>>])

Drained(x) == x.s.plainOut = <<>> /\ x.s.cipherOut = <<>>

\* pad_with_uuid_and_command, pad_with_command
WriteBlock(x, data, command, random) ==
    Drain([WriteToSession(x, Block(data, x.s.first, command,
                                   PaddingLength(x.s.filter.tls, random)))
             EXCEPT !.s.first = FALSE])

\* The block that ends the padding; the switch is made by the next write.
WriteLast(x, data, command, random) ==
    [WriteBlock(x, data, command, random)
       EXCEPT !.s.innerWrite = NewDeframer,
              !.s.toDirect = command = "Direct", !.s.toTls = command = "End"]

\* The loop of poll_write_padding_tls over what the inner deframer finds;
\* the result has the number n of cells of buf that are taken.
RECURSIVE WriteRecords(_, _, _, _)
WriteRecords(x, size, taken, random) ==
    LET r    == NextRecord(x.s.innerWrite)
        y    == [x EXCEPT !.s.innerWrite = r.next]
        now  == taken + Len(r.data)
        f    == FilterRecord(x.s.filter, r.data)
        g    == Decremented(x.s.filter)
        stop == Stopped(x.s.filter)
    IN  CASE r.res = "NeedData" -> [x |-> y, n |-> size]
          [] r.res = "TlsRecord" /\ EndsPadding(f, r.data) ->
               [x |-> WriteLast([y EXCEPT !.s.filter = f], r.data,
                                IF f.xtls THEN "Direct" ELSE "End", random),
                n |-> now]
          [] r.res = "TlsRecord" /\ ~EndsPadding(f, r.data) ->
               LET z == WriteBlock([y EXCEPT !.s.filter = f], r.data, "Continue", random)
               IN  IF Drained(z) THEN WriteRecords(z, size, now, random)
                   ELSE [x |-> [z EXCEPT !.s.innerWrite = NewDeframer], n |-> now]
          [] r.res = "UnknownPrefix" /\ IsFiltering(g) ->
               WriteRecords(WriteBlock([y EXCEPT !.s.filter = g], r.data, "Continue", random),
                            size, now, random)
          [] r.res = "UnknownPrefix" /\ ~IsFiltering(g) ->
               [x |-> WriteLast([y EXCEPT !.s.filter = g], r.data, "End", random), n |-> now]
          [] r.res = "Err" ->
               [x |-> WriteLast([y EXCEPT !.s.filter = stop], r.next.buf, "End", random),
                n |-> size]

\* poll_write_tls
WriteTls(x, buf) == [x |-> Drain(WriteToSession(x, buf)), n |-> Len(buf)]

\* poll_write of TCP
WriteDirect(x, buf) ==
    LET room == x.cap - Len(x.wire)
        n    == IF Len(buf) < room THEN Len(buf) ELSE room
    IN  [x |-> [x EXCEPT !.wire = @ \o [i \in 1..n |-> Raw(buf[i])]], n |-> n]

\* poll_write_padding_tls.  A last block that holds only what an earlier write
\* left in the deframer takes nothing of buf: the relay's write fails on the
\* count 0.
WritePaddingTls(x, buf, random) ==
    LET resp == IF x.s.respToSend
                THEN WriteToSession([x EXCEPT !.s.respToSend = FALSE], <<Mark("response")>>)
                ELSE x
        y    == Drain(resp)
        held == Len(y.s.innerWrite.buf)
        z    == [y EXCEPT !.s.innerWrite = Feed(@, buf)]
    IN  CASE ~Drained(y) -> [x |-> y, n |-> 0]
          [] Drained(y) /\ y.s.toDirect ->
               WriteDirect([y EXCEPT !.s = SwitchWrite(@, "Direct")], buf)
          [] Drained(y) /\ y.s.toTls ->
               WriteTls([y EXCEPT !.s = SwitchWrite(@, "Tls")], buf)
          [] OTHER ->
               LET r == WriteRecords(z, Len(buf) + held, 0, random)
               IN  [x |-> IF r.n > held THEN r.x
                          ELSE [r.x EXCEPT !.s = Failed(@, "write zero")],
                    n |-> r.n - held]

\* poll_write; n = 0 without a failure is Poll::Pending.
PollWrite(x, buf, random) ==
    CASE x.s.writeMode = "Padding" -> WritePaddingTls(x, buf, random)
      [] x.s.writeMode = "Tls" -> WriteTls(x, buf)
      [] x.s.writeMode = "Direct" -> WriteDirect(x, buf)

\* poll_flush
PollFlush(x) == IF x.s.writeMode = "Direct" THEN x ELSE Drain(x)
=============================================================================
