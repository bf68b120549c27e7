------------------------------ MODULE TGChannel ------------------------------
(* What tg_socket promises to the code that calls it: a one-way connection is  *)
(* a reliable FIFO channel.  Each message that TG_recv (or TG_nb_recv) hands   *)
(* over is the oldest message not yet handed over, whole and exactly once.     *)
(* TGSocket implements this specification.                                     *)
EXTENDS Naturals, Sequences

CONSTANT Message

VARIABLES sent,  \* the messages TG_send was called with, in order
          got    \* the messages the receiver has been handed, in order

TypeOK == sent \in Seq(Message) /\ got \in Seq(Message)

Init == sent = << >> /\ got = << >>

\* TG_send is called with message m.
Send(m) == sent' = Append(sent, m) /\ UNCHANGED got

\* TG_recv returns the oldest message that has not been returned.
Receive ==
    /\ Len(got) < Len(sent)
    /\ got' = Append(got, sent[Len(got) + 1])
    /\ UNCHANGED sent

Next == Receive \/ \E m \in Message : Send(m)

Spec == Init /\ [][Next]_<<sent, got>>
==============================================================================
