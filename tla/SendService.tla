---------------------------- MODULE SendService ----------------------------
(***************************************************************************)
(* What transport_send_packet promises to BTstack, without threads: a pool *)
(* of QueueDepth slots shared by two lanes, the HCI commands and the bulk  *)
(* (ACL and ISO) packets.  A packet is accepted only against a slot taken  *)
(* beforehand, keeps that slot until its transfer has ended, and leaves    *)
(* its lane in the order in which it was accepted.  Shutting down drops    *)
(* both lanes at once, after which nothing is accepted any more.           *)
(*                                                                         *)
(* OutgoingQueue is shown to implement this specification.                 *)
(***************************************************************************)
EXTENDS Naturals, Sequences

CONSTANTS
  CommandPackets,   \* packets of type HCI_COMMAND_DATA_PACKET
  BulkPackets,      \* packets of type HCI_ACL_DATA_PACKET or HCI_ISO_DATA_PACKET
  QueueDepth        \* number of slots

VARIABLES
  slots,            \* slots taken
  commands,         \* accepted commands whose transfer has not ended
  bulk,             \* accepted bulk packets whose transfer has not ended
  down              \* the service has shut down

vars == <<slots, commands, bulk, down>>

Init ==
  /\ slots = 0
  /\ commands = <<>>
  /\ bulk = <<>>
  /\ down = FALSE

SlotToSpare == Len(commands) + Len(bulk) < slots

Reserve ==
  /\ slots < QueueDepth
  /\ slots' = slots + 1
  /\ UNCHANGED <<commands, bulk, down>>

Release ==
  /\ IF down THEN slots > 0 ELSE SlotToSpare
  /\ slots' = slots - 1
  /\ UNCHANGED <<commands, bulk, down>>

AcceptCommand(p) ==
  /\ ~down
  /\ SlotToSpare
  /\ commands' = Append(commands, p)
  /\ UNCHANGED <<slots, bulk, down>>

AcceptBulk(p) ==
  /\ ~down
  /\ SlotToSpare
  /\ bulk' = Append(bulk, p)
  /\ UNCHANGED <<slots, commands, down>>

CommandEnds ==
  /\ commands # <<>>
  /\ commands' = Tail(commands)
  /\ slots' = slots - 1
  /\ UNCHANGED <<bulk, down>>

BulkEnds ==
  /\ bulk # <<>>
  /\ bulk' = Tail(bulk)
  /\ slots' = slots - 1
  /\ UNCHANGED <<commands, down>>

ShutDown ==
  /\ ~down
  /\ down' = TRUE
  /\ commands' = <<>>
  /\ bulk' = <<>>
  /\ UNCHANGED slots

Next ==
  \/ Reserve
  \/ Release
  \/ \E p \in CommandPackets : AcceptCommand(p)
  \/ \E p \in BulkPackets : AcceptBulk(p)
  \/ CommandEnds
  \/ BulkEnds
  \/ ShutDown

Spec == Init /\ [][Next]_vars
=============================================================================
