---------------------------- MODULE VisionPlain ----------------------------
(***************************************************************************)
(* The Vision stream over VLESS encryption (vision_plain_stream.rs): the   *)
(* layer below already hides the bytes, so blocks go straight to it, the   *)
(* padding always ends with End, and the mode Direct stands for the code's *)
(* Passthrough.  wbuf is the field cipherOut of the stream.                *)
(***************************************************************************)
EXTENDS VisionStream

CONSTANT MaxContent     \* cells of content in a block, MAX_CONTENT in the code

ASSUME MaxContentAssumption == MaxContent \in Nat \ {0}

-----------------------------------------------------------------------------
(* Reading *)

\* handle_unpad
HandleUnpad(s, plain) ==
    LET r == Unpad(s.unpadder, plain)
    IN  IF r.err THEN Failed(s, "read")
        ELSE [s EXCEPT !.unpadder = r.u, !.pendingRead = @ \o r.content,
                       !.readMode = IF r.command = "Continue" THEN @ ELSE "Direct"]

\* One read of buf from the layer below in poll_read.
PlainRead(s, buf) ==
    LET chunk == AsRead(buf)
        p     == s.partial \o chunk
    IN  CASE s.readMode = "Direct" -> [s EXCEPT !.pendingRead = chunk]
          [] s.readMode # "Direct" /\ ~s.respPending -> HandleUnpad(s, chunk)
          [] s.readMode # "Direct" /\ s.respPending ->
               IF Head(p).t # "response" THEN Failed(s, "read")
               ELSE LET t == [s EXCEPT !.partial = <<>>, !.respPending = FALSE]
                    IN  IF Len(p) = 1 THEN t ELSE HandleUnpad(t, Tail(p))

-----------------------------------------------------------------------------
(* Writing *)

Raws(cells) == [i \in 1..Len(cells) |-> Raw(cells[i])]

\* push_padded: blocks of at most MaxContent cells, the last one with the
\* command.
RECURSIVE PushPadded(_, _, _, _)
PushPadded(s, data, command, random) ==
    LET more  == Len(data) > MaxContent
        block == Block(SubSeq(data, 1, IF more THEN MaxContent ELSE Len(data)), s.first,
                       IF more THEN "Continue" ELSE command,
                       PaddingLength(s.filter.tls, random))
        t     == [s EXCEPT !.cipherOut = @ \o Raws(block), !.first = FALSE]
    IN  IF more THEN PushPadded(t, SubSeq(data, MaxContent + 1, Len(data)), command, random)
        ELSE t

\* The last block, with what the deframer still holds behind it.
PushLast(s, d, data, random) ==
    LET t == PushPadded(s, data, "End", random)
    IN  [t EXCEPT !.cipherOut = @ \o Raws(d.buf), !.innerWrite = NewDeframer,
                  !.writeMode = "Direct"]

\* The loop of poll_write over what the deframer finds.
RECURSIVE PushRecords(_, _)
PushRecords(s, random) ==
    LET r == NextRecord(s.innerWrite)
        t == [s EXCEPT !.innerWrite = r.next]
        f == FilterRecord(s.filter, r.data)
        g == Decremented(s.filter)
    IN  CASE r.res = "NeedData" -> t
          [] r.res = "Err" -> Failed(t, "write")
          [] r.res = "TlsRecord" /\ EndsPadding(f, r.data) ->
               PushLast([t EXCEPT !.filter = f], r.next, r.data, random)
          [] r.res = "TlsRecord" /\ ~EndsPadding(f, r.data) ->
               PushRecords(PushPadded([t EXCEPT !.filter = f], r.data, "Continue", random),
                           random)
          [] r.res = "UnknownPrefix" /\ IsFiltering(g) ->
               PushRecords(PushPadded([t EXCEPT !.filter = g], r.data, "Continue", random),
                           random)
          [] r.res = "UnknownPrefix" /\ ~IsFiltering(g) ->
               PushLast([t EXCEPT !.filter = g], r.next, r.data, random)

\* poll_write: what waits goes first; buf is taken whole.
PlainWrite(x, buf, random) ==
    LET resp == IF x.s.respToSend
                THEN [x EXCEPT !.s.respToSend = FALSE, !.s.cipherOut = Raws(<<Mark("response")>>)]
                ELSE x
        y    == ToTcp(resp)
    IN  CASE ~Drained(y) -> [x |-> y, n |-> 0]
          [] Drained(y) /\ y.s.writeMode = "Direct" -> WriteDirect(y, buf)
          [] OTHER ->
               [x |-> ToTcp([y EXCEPT !.s = PushRecords([@ EXCEPT !.innerWrite = Feed(@, buf)],
                                                        random)]),
                n |-> Len(buf)]
=============================================================================
