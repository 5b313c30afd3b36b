---------------------------- MODULE FifoChannel ----------------------------
(***************************************************************************)
(* What one direction of a connection promises the code above it: messages *)
(* arrive whole, once and in the order they were sent, until it closes.    *)
(***************************************************************************)
EXTENDS Naturals, Sequences

VARIABLES
    sent,   \* the messages sent, in order
    got,    \* the messages received, in order
    open    \* is the receiver still listening?

fifovars == <<sent, got, open>>

FifoInit == sent = <<>> /\ got = <<>> /\ open = TRUE

Send ==
    /\ Len(sent') = Len(sent) + 1
    /\ SubSeq(sent', 1, Len(sent)) = sent
    /\ UNCHANGED <<got, open>>

Receive ==
    /\ open
    /\ Len(got) < Len(sent)
    /\ got' = Append(got, sent[Len(got) + 1])
    /\ UNCHANGED <<sent, open>>

Close ==
    /\ open
    /\ open' = FALSE
    /\ UNCHANGED <<sent, got>>

FifoNext == Send \/ Receive \/ Close

FifoSpec == FifoInit /\ [][FifoNext]_fifovars

=============================================================================
