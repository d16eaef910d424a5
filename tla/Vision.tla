------------------------------- MODULE Vision ------------------------------
(***************************************************************************)
(* Two applications over a Vision connection.  The outbound builds the     *)
(* stream over a REALITY session or over VLESS encryption; the relay at    *)
(* each end copies between application and stream: it writes what it has   *)
(* read, flushes when there is nothing to read, and shuts the stream down  *)
(* after a flush when its application is done (copy_bidirectional).        *)
(*                                                                         *)
(* A dialogue gives each application its items in order, each with the     *)
(* number of cells it must have read before it sends the item.             *)
(***************************************************************************)
EXTENDS VisionPlain

CONSTANTS Dialogues,    \* what the two applications say
          Layers,       \* subset of {"reality", "encryption"}
          WireCaps      \* how many cells a TCP direction may hold

ASSUME LayersAssumption ==
    /\ Layers \subseteq {"reality", "encryption"}
    /\ WireCaps \subseteq Nat \ {0}

VARIABLES dialogue,     \* the dialogue of this connection
          layer,        \* what the stream is built on
          cap,          \* cells a direction of its TCP connection holds
          st,           \* st[e]: the stream at end e
          wire,         \* wire[e]: cells from e on the way
          sent, got,    \* cells written to and read from the streams
          shut,         \* shut[e]: poll_shutdown at e
          ended         \* ended[e]: the application at e was told the end

vars == <<dialogue, layer, cap, st, wire, sent, got, shut, ended>>
fixed == <<dialogue, layer, cap>>

\* All that the application at e will say, and how much it may say now.
Speech(e) ==
    FlattenSeq([i \in 1..Len(dialogue[e]) |-> Cells(e, i, dialogue[e][i].kind)])
Sayable(e) ==
    LET blocked == {i \in 1..Len(dialogue[e]) : dialogue[e][i].after > Len(got[e])}
        upto    == IF blocked = {} THEN Len(dialogue[e])
                   ELSE (CHOOSE i \in blocked : \A j \in blocked : i <= j) - 1
    IN  Len(FlattenSeq([i \in 1..upto |-> Cells(e, i, dialogue[e][i].kind)]))

Init ==
    /\ dialogue \in Dialogues
    /\ layer \in Layers
    /\ cap \in WireCaps
    /\ st = [e \in Ends |-> NewStream(e)]
    /\ wire = [e \in Ends |-> <<>>]
    /\ sent = [e \in Ends |-> <<>>]
    /\ got = [e \in Ends |-> <<>>]
    /\ shut = [e \in Ends |-> FALSE]
    /\ ended = [e \in Ends |-> FALSE]

Here(e) == [s |-> st[e], wire |-> wire[e], cap |-> cap]

\* Nothing is kept in the stream for the reader.
NothingPending(e) == st[e].pendingRead = <<>> /\ st[e].plainIn = <<>>

\* poll_read returns what is kept before it touches TCP: pending_read, then
\* the plaintext of the session.
ReadKept(e) ==
    LET s    == st[e]
        from == IF s.pendingRead # <<>> THEN s.pendingRead ELSE s.plainIn
        n    == IF Len(from) < ReadBuf THEN Len(from) ELSE ReadBuf
        rest == SubSeq(from, n + 1, Len(from))
    IN  /\ s.failed = "no"
        /\ ~NothingPending(e)
        /\ got' = [got EXCEPT ![e] = @ \o SubSeq(from, 1, n)]
        /\ st' = [st EXCEPT ![e] = IF s.pendingRead # <<>>
                                   THEN [s EXCEPT !.pendingRead = rest]
                                   ELSE [s EXCEPT !.plainIn = rest]]
        /\ UNCHANGED <<fixed, wire, sent, shut, ended>>

\* One read of the TCP stream in poll_read, of any size.
Read(e) ==
    /\ st[e].failed = "no"
    /\ NothingPending(e)
    /\ ~ended[e]
    /\ \E n \in 1..Len(wire[Peer(e)]) :
         LET buf == SubSeq(wire[Peer(e)], 1, n)
         IN  /\ wire' = [wire EXCEPT ![Peer(e)] = SubSeq(@, n + 1, Len(@))]
             /\ st' = [st EXCEPT ![e] = IF layer = "reality" THEN PollRead(@, buf)
                                        ELSE PlainRead(@, buf)]
    /\ UNCHANGED <<fixed, sent, got, shut, ended>>

\* The read that finds TCP at its end.
ReadEnd(e) ==
    /\ st[e].failed = "no"
    /\ NothingPending(e)
    /\ ~ended[e]
    /\ wire[Peer(e)] = <<>> /\ shut[Peer(e)]
    /\ LET s == IF layer = "reality" THEN ReadEof(st[e]) ELSE [st[e] EXCEPT !.eof = TRUE]
       IN  /\ st' = [st EXCEPT ![e] = s]
           /\ ended' = [ended EXCEPT ![e] = s.failed = "no"]
    /\ UNCHANGED <<fixed, wire, sent, got, shut>>

Write(e) ==
    /\ st[e].failed = "no"
    /\ ~shut[e]
    /\ \E n \in 1..WriteMax, random \in 0..1 :
         LET buf == SubSeq(Speech(e), Len(sent[e]) + 1, Len(sent[e]) + n)
             x   == Here(e)
             r   == IF layer = "reality" THEN PollWrite(x, buf, random)
                    ELSE PlainWrite(x, buf, random)
         IN  /\ Len(sent[e]) + n <= Sayable(e)
             /\ st' = [st EXCEPT ![e] = r.x.s]
             /\ wire' = [wire EXCEPT ![e] = r.x.wire]
             /\ sent' = [sent EXCEPT ![e] = @ \o SubSeq(buf, 1, r.n)]
    /\ UNCHANGED <<fixed, got, shut, ended>>

Flush(e) ==
    /\ st[e].failed = "no"
    /\ LET x == Here(e)
           y == IF layer = "reality" THEN PollFlush(x) ELSE ToTcp(x)
       IN  /\ y # x
           /\ st' = [st EXCEPT ![e] = y.s]
           /\ wire' = [wire EXCEPT ![e] = y.wire]
    /\ UNCHANGED <<fixed, sent, got, shut, ended>>

\* The application is done: the relay flushes to the end, then shuts down.
Shutdown(e) ==
    /\ st[e].failed = "no"
    /\ ~shut[e]
    /\ sent[e] = Speech(e)
    /\ Drained(Here(e))
    /\ shut' = [shut EXCEPT ![e] = TRUE]
    /\ UNCHANGED <<fixed, st, wire, sent, got, ended>>

Step(e) ==
    ReadKept(e) \/ Read(e) \/ ReadEnd(e) \/ Write(e) \/ Flush(e) \/ Shutdown(e)

Next == \E e \in Ends : Step(e)

\* The relay of end e can do something: there is data to read, room for data
\* to write or to flush, or an end to tell.
CanStep(e) ==
    /\ st[e].failed = "no"
    /\ \/ ~NothingPending(e)
       \/ ~ended[e] /\ (wire[Peer(e)] # <<>> \/ shut[Peer(e)])
       \/ /\ Len(wire[e]) < cap
          /\ Len(sent[e]) < Sayable(e) \/ st[e].cipherOut # <<>> \/ st[e].plainOut # <<>>
       \/ /\ ~shut[e] /\ sent[e] = Speech(e)
          /\ st[e].cipherOut = <<>> /\ st[e].plainOut = <<>>

\* Weak fairness of the task that relays at an end: the runtime polls it
\* again when TCP wakes it.  The condition under which the task can move is
\* written out, it is never weaker than ENABLED Step(e).
Fairness == \A e \in Ends : []<>~CanStep(e) \/ []<><<Step(e)>>_vars

Spec == Init /\ [][Next]_vars /\ Fairness

-----------------------------------------------------------------------------
(* Properties *)

Modes == {"Padding", "Tls", "Direct"}

TypeOK ==
    /\ dialogue \in Dialogues /\ layer \in Layers
    /\ \A e \in Ends :
         /\ st[e].readMode \in Modes /\ st[e].writeMode \in Modes
         /\ Len(wire[e]) <= cap
         /\ IsPrefix(sent[e], Speech(e))
         /\ shut[e] \in BOOLEAN /\ ended[e] \in BOOLEAN

\* What the writer at e holds back in its deframer: it was taken from the
\* application, and neither poll_flush nor poll_shutdown sends it.
Held(e) == st[e].innerWrite.buf

\* The stream is a pipe in both directions across the switches of the modes
\* (poll_read, poll_write, handle_padded_bytes, poll_write_padding_tls) for
\* what its writer does not hold back: every such cell is read once and in the
\* order of the writes, and the end is told only after the last one.  A write
\* counts here once its cells leave the deframer; data that end like the start
\* of a hello may be held at the shutdown, and then the end is told without
\* them.
P == INSTANCE Pipe WITH
       Ends <- Ends, got <- got, shut <- shut, ended <- ended,
       sent <- [e \in Ends |-> SubSeq(sent[e], 1, Len(sent[e]) - Len(Held(e)))]
IsPipe == P!Spec

\* A stream never ends in an error except at its first read, where all
\* records of the batch are decrypted at once (poll_read_vless_response), when
\* the encryption layer's stream meets data that are no TLS after TLS, or in
\* the write behind data that look like the start of a hello.
OnlyFirstReadFails ==
    \A e \in Ends :
       \/ st[e].failed \in {"no", "first read"}
       \/ layer = "encryption" /\ st[e].failed = "write"
       \/ st[e].failed = "write zero" /\ Last(sent[e]).kind = "L"

\* What the applications say arrives, whatever was buffered when a mode was
\* switched, with the one exception that poll_write_padding_tls names itself:
\* non-TLS data that end like a record may be held back for good, and then
\* the dialogue hangs or ends without them.  In the end everything that was
\* written has been read or is held for that reason alone, the end of a
\* finished application has been told, and a dialogue in which nothing is held
\* is complete.
AllArrives ==
    <>[](\/ \E e \in Ends : st[e].failed # "no"
         \/ \A e \in Ends :
              /\ got[Peer(e)] \o Held(e) = sent[e]
              /\ \A i \in 1..Len(Held(e)) : Held(e)[i].kind = "L"
              /\ sent[e] = Speech(e) => ended[Peer(e)]
              /\ (\A d \in Ends : Held(d) = <<>>) => sent[e] = Speech(e))

\* Conservation: what was written and is neither on the wire nor in a buffer
\* that a later poll empties has been read.  Only the first part of an inner
\* record, or data that look like it, may wait in the deframer.
NothingIsStranded ==
    \A e \in Ends :
       /\ st[e].failed = "no" =>
            \A i \in 1..Len(Held(e)) : Held(e)[i].kind = "L" \/ Held(e)[i].part = 1
       /\ (/\ st[e].failed = "no" /\ st[Peer(e)].failed = "no"
           /\ wire[e] = <<>> /\ Drained(Here(e))
           /\ NothingPending(Peer(e)))
          => sent[e] = got[Peer(e)] \o Held(e)

\* Whatever was on the way when a direction switched its mode, the streams are
\* in order: they fail only where the code gives up, and hold back only what
\* may be the start of an inner record.
StreamsAreSound == TypeOK /\ OnlyFirstReadFails /\ NothingIsStranded
=============================================================================
