---------------------------- MODULE VisionCodec ----------------------------
(***************************************************************************)
(* What the two Vision streams are built from: the fuzzy deframer that     *)
(* looks for inner TLS records (tls_fuzzy_deframer.rs, tls_deframer.rs),   *)
(* the filter that decides when padding may stop (vision_filter.rs), the   *)
(* padding of a block (vision_pad.rs) and its removal (vision_unpad.rs).   *)
(*                                                                         *)
(* Data are cells.  An inner TLS record of the application is two cells,   *)
(* its header (part 1) and the rest (part 2); data that are not TLS are    *)
(* single cells (part 0).  Such a cell is of kind U, bytes that resemble   *)
(* no record, or of kind L, a byte 0x16, with which a handshake record     *)
(* could begin.  A padded block is a sequence of plaintext cells: the      *)
(* user's UUID in front of the first block, the header with command,       *)
(* content length and padding length, the content, the padding.            *)
(***************************************************************************)
EXTENDS Naturals, Sequences, SequencesExt

CONSTANT RecordCount    \* records the filter looks at, 8 in the code

ASSUME RecordCountAssumption == RecordCount \in Nat \ {0}

Commands == {"Continue", "End", "Direct"}

\* The kinds of inner records.  A ServerHello of TLS 1.3 with the cipher
\* 0x1305 (SH13ccm) does not allow XTLS; HRR stands for a ServerHello that
\* parse_server_hello refuses (a HelloRetryRequest).
ServerHellos == {"SH12", "SH13", "SH13ccm", "HRR"}
Hellos == {"CH"} \cup ServerHellos
TlsKinds == Hellos \cup {"CCS", "AD"}
Kinds == TlsKinds \cup {"U", "L"}

\* The cells of the i-th item, of kind k, of the application at end e.
Cells(e, i, k) ==
    IF k \in TlsKinds
    THEN [p \in 1..2 |-> [t |-> "data", from |-> e, item |-> i, kind |-> k, part |-> p]]
    ELSE <<[t |-> "data", from |-> e, item |-> i, kind |-> k, part |-> 0]>>

\* A cell that is not the application's, by what it is.
Mark(t) == [t |-> t, kind |-> "U", part |-> 0]

-----------------------------------------------------------------------------
(* FuzzyTlsDeframer *)

NewDeframer == [state |-> "Searching", buf |-> <<>>]

Feed(d, data) == [d EXCEPT !.buf = @ \o data]

\* find_tls_handshake_start: a hello whose first six bytes are in the buffer.
HelloStarts(buf) ==
    {o \in 1..Len(buf) - 1 : buf[o].kind \in Hellos /\ buf[o].part = 1}

\* Defect: whatever comes last may be the start of a hello.
SuffixAlways(buf) == 1

\* find_potential_tls_suffix_len: the end of the buffer could be the start
\* of a hello, whether it is the header of one or only looks like it.
SuffixLen(buf) ==
    IF \/ Last(buf).kind \in Hellos /\ Last(buf).part = 1
       \/ Last(buf).kind = "L"
    THEN 1 ELSE 0

\* TlsDeframer::next_record on the inner stream.  Two cells of one record
\* complete it; fewer bytes than a header has are waited upon; anything else
\* at its head is refused by the checks of the header.
InnerNext(d) ==
    IF \/ \A i \in 1..Len(d.buf) : d.buf[i].kind = "L"
       \/ Len(d.buf) = 1 /\ Head(d.buf).part = 1
    THEN [res |-> "NeedData", data |-> <<>>, next |-> d]
    ELSE IF Head(d.buf).part = 1
    THEN [res |-> "TlsRecord", data |-> SubSeq(d.buf, 1, 2),
          next |-> [d EXCEPT !.buf = SubSeq(@, 3, Len(@))]]
    ELSE [res |-> "Err", data |-> <<>>, next |-> d]

\* The bytes before position n are an unknown prefix.
CutPrefix(d, n, state) ==
    [res |-> "UnknownPrefix", data |-> SubSeq(d.buf, 1, n),
     next |-> [state |-> state, buf |-> SubSeq(d.buf, n + 1, Len(d.buf))]]

\* FuzzyTlsDeframer::next_record
NextRecord(d) ==
    LET starts == HelloStarts(d.buf)
        start  == CHOOSE o \in starts : \A p \in starts : o <= p
        known  == Len(d.buf) - SuffixLen(d.buf)
    IN  IF d.state = "Deframing" THEN InnerNext(d)
        ELSE IF d.buf = <<>>
        THEN [res |-> "NeedData", data |-> <<>>, next |-> d]
        ELSE IF starts # {} /\ start > 1
        THEN CutPrefix(d, start - 1, "Deframing")
        ELSE IF starts # {}
        THEN InnerNext([d EXCEPT !.state = "Deframing"])
        ELSE IF known > 0
        THEN CutPrefix(d, known, "Searching")
        ELSE [res |-> "NeedData", data |-> <<>>, next |-> d]

-----------------------------------------------------------------------------
(* VisionFilter *)

NewFilter == [count |-> RecordCount, tls |-> FALSE, tls12 |-> FALSE, xtls |-> FALSE]

IsFiltering(f) == f.count > 0

Decremented(f) == [f EXCEPT !.count = IF @ = 0 THEN 0 ELSE @ - 1]

Stopped(f) == [f EXCEPT !.count = 0]

\* filter_record: what a complete inner record says about the inner TLS.
FilterRecord(f, record) ==
    LET kind  == record[1].kind
        hello == kind \in ServerHellos /\ ~f.tls12
    IN  IF f.count = 0 THEN f
        ELSE [count |-> IF hello /\ kind # "SH12" THEN 0 ELSE f.count - 1,
              tls   |-> f.tls \/ kind = "CH" \/ hello,
              tls12 |-> f.tls12 \/ hello,
              xtls  |-> f.xtls \/ (hello /\ kind = "SH13")]

\* The record after which the writer of a stream stops padding: application
\* data, or the last record that is looked at when no ServerHello was seen.
EndsPadding(f, record) ==
    \/ f.tls /\ record[1].kind = "AD"
    \/ ~IsFiltering(f) /\ ~f.tls12

-----------------------------------------------------------------------------
(* Padding and unpadding *)

\* calculate_padding_length: the long padding of TLS is never empty, the
\* random short one may be.
PaddingLength(isTls, random) == IF isTls THEN 1 ELSE random

Block(data, uuid, command, padding) ==
    (IF uuid THEN <<Mark("uuid")>> ELSE <<>>)
      \o <<[t |-> "header", kind |-> "U", part |-> 0, command |-> command,
            content |-> Len(data), padding |-> padding]>>
      \o data
      \o [i \in 1..padding |-> Mark("padding")]

NewUnpadder ==
    [state |-> "Initial", command |-> "Continue", content |-> 0, padding |-> 0]

\* The block is complete when content and padding have been read.
Completed(u) ==
    IF u.content > 0 \/ u.padding > 0 THEN u
    ELSE [u EXCEPT !.state = IF u.command = "Continue" THEN "ReadingCommand" ELSE "Done"]

\* One cell of VisionUnpadder::unpad.  After the last block of the call the
\* rest of the data is returned as it is.  The UUID is one cell: a
\* first call with fewer than its 16 bytes, for which the code returns nothing
\* and forgets the bytes, is left out.  A writer of this code hands UUID,
\* header and content to the layer below in one piece.
UnpadCell(acc, c) ==
    LET u == acc.u
    IN  CASE acc.err -> acc
        [] acc.foreign \/ acc.final -> [acc EXCEPT !.out = Append(@, c)]
        [] u.state = "Done" -> [acc EXCEPT !.err = TRUE]
        [] u.state = "Initial" ->
             IF c.t = "uuid" THEN [acc EXCEPT !.u.state = "ReadingCommand"]
             ELSE [acc EXCEPT !.foreign = TRUE, !.out = Append(@, c)]
        [] u.state = "ReadingCommand" ->
             IF c.t # "header" THEN [acc EXCEPT !.err = TRUE]
             ELSE LET v == Completed([state |-> "ReadingBlock", command |-> c.command,
                                      content |-> c.content, padding |-> c.padding])
                  IN  [acc EXCEPT !.u = v, !.final = v.state = "Done"]
        [] OTHER ->
             LET v == Completed(IF u.content > 0
                                THEN [u EXCEPT !.content = @ - 1]
                                ELSE [u EXCEPT !.padding = @ - 1])
             IN  [acc EXCEPT !.u = v, !.final = v.state = "Done",
                             !.out = IF u.content > 0 THEN Append(@, c) ELSE @]

\* VisionUnpadder::unpad: the content of the blocks in data, and the command
\* once a block that ends the padding is complete.
Unpad(u, data) ==
    LET acc == FoldLeft(UnpadCell,
                        [u |-> u, out |-> <<>>, foreign |-> FALSE, final |-> FALSE,
                         err |-> u.state = "Done"], data)
    IN  [u |-> acc.u, content |-> acc.out, err |-> acc.err,
         command |-> IF acc.final THEN acc.u.command ELSE "Continue"]
=============================================================================
