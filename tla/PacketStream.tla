---------------------------- MODULE PacketStream ----------------------------
(***************************************************************************)
(* What two network/client.cpp ends promise of one direction: the packets  *)
(* sent arrive, each of them whole, in the order of sendPacket, until a    *)
(* new connection begins.                                                  *)
(***************************************************************************)
EXTENDS Naturals, Sequences

CONSTANT Packets
VARIABLES sent, received

Init == sent = <<>> /\ received = <<>>

Send(p) == sent' = Append(sent, p) /\ UNCHANGED received

Deliver ==
    /\ Len(received) < Len(sent)
    /\ received' = Append(received, sent[Len(received) + 1])
    /\ UNCHANGED sent

Connect == sent' = <<>> /\ received' = <<>>

Next == Deliver \/ Connect \/ \E p \in Packets : Send(p)
Spec == Init /\ [][Next]_<<sent, received>>
=============================================================================
