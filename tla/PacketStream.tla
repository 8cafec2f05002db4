---------------------------- MODULE PacketStream ----------------------------
(***************************************************************************)
(* What an IN endpoint promises to BTstack: the packets of the controller  *)
(* reach the packet handler one after the other, each once and in the      *)
(* order in which they arrived, until the session is closed; then whatever *)
(* has not been delivered is dropped and nothing is delivered any more.    *)
(***************************************************************************)
EXTENDS Sequences

CONSTANTS
  Packets,   \* the packets of the controller
  NoPacket   \* marks the absence of a packet

VARIABLES
  arrived,   \* packets that arrived and are not delivered yet
  delivered, \* the packet the handler is looking at, or NoPacket
  closed     \* the stream has been closed

vars == <<arrived, delivered, closed>>

Init ==
  /\ arrived = <<>>
  /\ delivered = NoPacket
  /\ closed = FALSE

Arrive(p) ==
  /\ ~closed
  /\ arrived' = Append(arrived, p)
  /\ UNCHANGED <<delivered, closed>>

Deliver ==
  /\ arrived # <<>>
  /\ delivered = NoPacket
  /\ delivered' = Head(arrived)
  /\ arrived' = Tail(arrived)
  /\ UNCHANGED closed

HandlerReturns ==
  /\ delivered # NoPacket
  /\ delivered' = NoPacket
  /\ UNCHANGED <<arrived, closed>>

Close ==
  /\ ~closed
  /\ delivered = NoPacket
  /\ closed' = TRUE
  /\ arrived' = <<>>
  /\ UNCHANGED delivered

Next ==
  \/ \E p \in Packets : Arrive(p)
  \/ Deliver
  \/ HandlerReturns
  \/ Close

Spec == Init /\ [][Next]_vars
=============================================================================
