------------------------------- MODULE Pipe --------------------------------
(***************************************************************************)
(* What a proxied connection promises to the two applications: a pipe in   *)
(* each direction.  The bytes one application writes are the bytes the     *)
(* other reads, each once and in order; the end of the stream is told only *)
(* after all of them; a direction may break, and then delivers no more.    *)
(***************************************************************************)
EXTENDS Naturals, SequencesExt

CONSTANT Ends       \* the two ends

VARIABLES sent,     \* sent[e]: what end e has written
          got,      \* got[e]: what end e has read
          shut,     \* shut[e]: end e will write no more
          ended     \* ended[e]: end e was told that the other is done

vars == <<sent, got, shut, ended>>

Other(e) == CHOOSE f \in Ends : f # e

Init ==
    /\ sent = [e \in Ends |-> <<>>]
    /\ got = [e \in Ends |-> <<>>]
    /\ shut = [e \in Ends |-> FALSE]
    /\ ended = [e \in Ends |-> FALSE]

Write(e) ==
    /\ ~shut[e]
    /\ IsStrictPrefix(sent[e], sent'[e])
    /\ sent' = [sent EXCEPT ![e] = sent'[e]]
    /\ UNCHANGED <<got, shut, ended>>

Read(e) ==
    /\ \E n \in Len(got[e]) + 1..Len(sent[Other(e)]) :
          got' = [got EXCEPT ![e] = SubSeq(sent[Other(e)], 1, n)]
    /\ UNCHANGED <<sent, shut, ended>>

Shut(e) ==
    /\ ~shut[e]
    /\ shut' = [shut EXCEPT ![e] = TRUE]
    /\ UNCHANGED <<sent, got, ended>>

End(e) ==
    /\ shut[Other(e)]
    /\ got[e] = sent[Other(e)]
    /\ ~ended[e]
    /\ ended' = [ended EXCEPT ![e] = TRUE]
    /\ UNCHANGED <<sent, got, shut>>

Next == \E e \in Ends : Write(e) \/ Read(e) \/ Shut(e) \/ End(e)

Spec == Init /\ [][Next]_vars
=============================================================================
