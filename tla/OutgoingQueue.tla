--------------------------- MODULE OutgoingQueue ---------------------------
(***************************************************************************)
(* The outgoing path of one open transport session                         *)
(* (btstack-hci-transport-nusb): the threads that call                     *)
(* transport_can_send_packet_now and transport_send_packet, the bounded    *)
(* channel they share with the writer thread of spawn_writer, the counter  *)
(* outgoing_pending, and the two kinds of USB transfer the writer starts   *)
(* (a control transfer per HCI command, the bulk OUT queue for ACL / ISO). *)
(* transport_close appears as the two steps that concern this path.        *)
(*                                                                         *)
(* Each access to an atomic, the channel or STATE is one step.  A packet   *)
(* is a name; the name is used again once the packet has left the system,  *)
(* so behaviours are unbounded although the state space is finite.         *)
(***************************************************************************)
EXTENDS Naturals, Sequences, FiniteSets, Lanes

CONSTANTS
  Callers,             \* threads that may call into the transport
  Writer,              \* the writer thread; a caller while it runs the packet handler
  CommandPackets,      \* packets of type HCI_COMMAND_DATA_PACKET
  BulkPackets,         \* packets of type HCI_ACL_DATA_PACKET or HCI_ISO_DATA_PACKET
  UnsupportedPackets,  \* packets of any other type (SCO)
  NoPacket,            \* marks the absence of a packet
  QueueDepth,          \* OUTGOING_QUEUE_DEPTH
  AclOutInFlight,      \* ACL_OUT_IN_FLIGHT
  Faults               \* how a transfer may fail: a subset of {"stall", "error"}

Packets == CommandPackets \cup BulkPackets \cup UnsupportedPackets

ASSUME CallersFinite == IsFiniteSet(Callers)

ASSUME DepthPositive == QueueDepth \in Nat \ {0}

ASSUME InFlightPositive == AclOutInFlight \in Nat \ {0}

ASSUME PacketKindsDisjoint ==
  /\ CommandPackets \cap BulkPackets = {}
  /\ CommandPackets \cap UnsupportedPackets = {}
  /\ BulkPackets \cap UnsupportedPackets = {}
  /\ NoPacket \notin Packets

ASSUME FaultsKnown == Faults \subseteq {"stall", "error"}

VARIABLES
  \* shared
  active,           \* STATE.active holds this session
  stop,             \* the stop flag of the session
  outgoingPending,  \* outgoing_pending
  channel,          \* content of the sync_channel
  leaked,           \* slots of packets dropped with the receiver; never given back
  \* the callers
  spc,              \* where each caller is in transport_send_packet
  packet,           \* the packet each caller is sending
  current,          \* the value of outgoing_pending each caller last saw
  grant,            \* what each caller knows: "yes" after can_send_packet_now said 1,
                    \* "no" after it said 0 and until the next packet-sent event
  \* the writer
  wpc,              \* where the writer thread is
  command,          \* the command whose control transfer is under way
  aclOutQueue,      \* bulk OUT transfers submitted and not yet collected
  inFlightOut,      \* in_flight_out
  cancelled         \* cancelled

shared  == <<active, stop>>
caller  == <<spc, packet, current, grant>>
writer  == <<wpc, command, aclOutQueue, inFlightOut, cancelled>>
vars    == <<active, stop, outgoingPending, channel, leaked,
             spc, packet, current, grant,
             wpc, command, aclOutQueue, inFlightOut, cancelled>>

Transfer == [packet : BulkPackets, status : {"posted", "ok", "stall", "error"}]

TypeOK ==
  /\ active \in BOOLEAN
  /\ stop \in BOOLEAN
  /\ outgoingPending \in 0..QueueDepth
  /\ channel \in Seq(CommandPackets \cup BulkPackets)
  /\ leaked \in 0..QueueDepth
  /\ spc \in [Callers -> {"idle", "load", "cas", "push", "undo"}]
  /\ packet \in [Callers -> Packets \cup {NoPacket}]
  /\ current \in [Callers -> 0..QueueDepth]
  /\ grant \in [Callers -> {"none", "yes", "no"}]
  /\ wpc \in {"top", "recv", "command", "check", "idle", "poll", "notify", "exited"}
  /\ command \in CommandPackets \cup {NoPacket}
  /\ aclOutQueue \in Seq(Transfer)
  /\ inFlightOut \in 0..AclOutInFlight
  /\ cancelled \in BOOLEAN

Init ==
  /\ active = TRUE
  /\ stop = FALSE
  /\ outgoingPending = 0
  /\ channel = <<>>
  /\ leaked = 0
  /\ spc = [c \in Callers |-> "idle"]
  /\ packet = [c \in Callers |-> NoPacket]
  /\ current = [c \in Callers |-> 0]
  /\ grant = [c \in Callers |-> "none"]
  /\ wpc = "top"
  /\ command = NoPacket
  /\ aclOutQueue = <<>>
  /\ inFlightOut = 0
  /\ cancelled = FALSE

-----------------------------------------------------------------------------
(* The callers.                                                            *)

\* A thread is free to call unless it is inside a call.  The writer thread
\* calls only from the packet handler, which runs while it emits an event.
MayCall(c) ==
  /\ spc[c] = "idle"
  /\ c = Writer => wpc = "notify"

\* Packets that some caller or the writer still holds.
InUse ==
  {packet[c] : c \in Callers} \cup {channel[i] : i \in DOMAIN channel}
    \cup {command} \cup {aclOutQueue[i].packet : i \in DOMAIN aclOutQueue}

\* Mutant of CanSendPacketNow: off by one in the comparison with the depth.
CanSendPacketNowAtDepth(c) ==
  /\ MayCall(c)
  /\ grant' = [grant EXCEPT ![c] =
       IF active /\ outgoingPending <= QueueDepth THEN "yes" ELSE "no"]
  /\ UNCHANGED <<shared, outgoingPending, channel, leaked,
                 spc, packet, current, writer>>

\* transport_can_send_packet_now for a supported type, whole: one load under
\* the STATE lock.  (Any other type is answered 0 without a look at the state.)
CanSendPacketNow(c) ==
  /\ MayCall(c)
  /\ grant' = [grant EXCEPT ![c] =
       IF active /\ outgoingPending < QueueDepth THEN "yes" ELSE "no"]
  /\ UNCHANGED <<shared, outgoingPending, channel, leaked,
                 spc, packet, current, writer>>

\* transport_send_packet up to the end of the STATE lock: the sender and the
\* counter are cloned, so the session may be closed from here on.
SendPacket(c, p) ==
  /\ MayCall(c)
  /\ active
  /\ p \notin InUse
  /\ spc' = [spc EXCEPT ![c] = "load"]
  /\ packet' = [packet EXCEPT ![c] = p]
  /\ UNCHANGED <<shared, outgoingPending, channel, leaked, current, grant, writer>>

\* The call returns to BTstack.
Return(c) ==
  /\ spc' = [spc EXCEPT ![c] = "idle"]
  /\ packet' = [packet EXCEPT ![c] = NoPacket]
  /\ current' = [current EXCEPT ![c] = 0]
  /\ grant' = [grant EXCEPT ![c] = "none"]

\* try_reserve_send_slot: the first load.
ReserveLoad(c) ==
  /\ spc[c] = "load"
  /\ spc' = [spc EXCEPT ![c] = "cas"]
  /\ current' = [current EXCEPT ![c] = outgoingPending]
  /\ UNCHANGED <<shared, outgoingPending, channel, leaked, packet, grant, writer>>

\* try_reserve_send_slot: no slot was free when the counter was read; -1.
ReserveFull(c) ==
  /\ spc[c] = "cas"
  /\ current[c] >= QueueDepth
  /\ Return(c)
  /\ UNCHANGED <<shared, outgoingPending, channel, leaked, writer>>

\* Mutants of ReserveOk: no check of the depth; a store instead of the
\* compare-exchange.
ReserveOkUnbounded(c) ==
  /\ spc[c] = "cas"
  /\ outgoingPending' = outgoingPending + 1
  /\ spc' = [spc EXCEPT ![c] = IF packet[c] \in UnsupportedPackets THEN "undo" ELSE "push"]
  /\ current' = [current EXCEPT ![c] = 0]
  /\ UNCHANGED <<shared, channel, leaked, packet, grant, writer>>

ReserveOkByStore(c) ==
  /\ spc[c] = "cas"
  /\ current[c] < QueueDepth
  /\ outgoingPending' = current[c] + 1
  /\ spc' = [spc EXCEPT ![c] = IF packet[c] \in UnsupportedPackets THEN "undo" ELSE "push"]
  /\ current' = [current EXCEPT ![c] = 0]
  /\ UNCHANGED <<shared, channel, leaked, packet, grant, writer>>

\* try_reserve_send_slot: the compare-exchange succeeds.  The packet type is
\* looked at next: an unknown one gives the slot back.
ReserveOk(c) ==
  /\ spc[c] = "cas"
  /\ current[c] < QueueDepth
  /\ outgoingPending = current[c]
  /\ outgoingPending' = outgoingPending + 1
  /\ spc' = [spc EXCEPT ![c] = IF packet[c] \in UnsupportedPackets THEN "undo" ELSE "push"]
  /\ current' = [current EXCEPT ![c] = 0]
  /\ UNCHANGED <<shared, channel, leaked, packet, grant, writer>>

\* try_reserve_send_slot: the compare-exchange fails and yields the counter.
\* (A spurious failure yields the value already known: a stuttering step.)
ReserveRetry(c) ==
  /\ spc[c] = "cas"
  /\ current[c] < QueueDepth
  /\ outgoingPending # current[c]
  /\ current' = [current EXCEPT ![c] = outgoingPending]
  /\ UNCHANGED <<shared, outgoingPending, channel, leaked, spc, packet, grant, writer>>

\* try_send succeeds; the call returns 0.
Push(c) ==
  /\ spc[c] = "push"
  /\ wpc # "exited"
  /\ Len(channel) < QueueDepth
  /\ channel' = Append(channel, packet[c])
  /\ Return(c)
  /\ UNCHANGED <<shared, outgoingPending, leaked, writer>>

\* try_send fails: the channel is full, or its receiver is gone.
PushRefused(c) ==
  /\ spc[c] = "push"
  /\ wpc = "exited" \/ Len(channel) >= QueueDepth
  /\ spc' = [spc EXCEPT ![c] = "undo"]
  /\ UNCHANGED <<shared, outgoingPending, channel, leaked, packet, current, grant, writer>>

\* Mutant of Undo: the error path keeps the slot.
UndoKeepsSlot(c) ==
  /\ spc[c] = "undo"
  /\ Return(c)
  /\ UNCHANGED <<shared, outgoingPending, channel, leaked, writer>>

\* The slot of a packet that was not accepted is given back; -1.
Undo(c) ==
  /\ spc[c] = "undo"
  /\ outgoingPending' = outgoingPending - 1
  /\ Return(c)
  /\ UNCHANGED <<shared, channel, leaked, writer>>

CallerStep(c) ==
  \/ ReserveLoad(c)
  \/ ReserveFull(c)
  \/ ReserveOk(c)
  \/ ReserveRetry(c)
  \/ Push(c)
  \/ PushRefused(c)
  \/ Undo(c)

-----------------------------------------------------------------------------
(* transport_close, as far as this path sees it.                           *)

\* STATE.active is taken under the lock.
CloseTake ==
  /\ active
  /\ active' = FALSE
  /\ UNCHANGED <<stop, outgoingPending, channel, leaked, caller, writer>>

\* The stop flag is stored; joining the threads comes after.
CloseStop ==
  /\ ~active
  /\ ~stop
  /\ stop' = TRUE
  /\ UNCHANGED <<active, outgoingPending, channel, leaked, caller, writer>>

-----------------------------------------------------------------------------
(* The writer thread.                                                      *)

\* Condition of the inner loop: room for a bulk transfer and no stop.
WriterTop ==
  /\ wpc = "top"
  /\ wpc' = IF inFlightOut < AclOutInFlight /\ ~stop THEN "recv" ELSE "check"
  /\ UNCHANGED <<shared, outgoingPending, channel, leaked, caller,
                 command, aclOutQueue, inFlightOut, cancelled>>

\* recv_timeout yields a command: its control transfer starts.
RecvCommand ==
  /\ wpc = "recv"
  /\ channel # <<>>
  /\ Head(channel) \in CommandPackets
  /\ channel' = Tail(channel)
  /\ command' = Head(channel)
  /\ wpc' = "command"
  /\ UNCHANGED <<shared, outgoingPending, leaked, caller,
                 aclOutQueue, inFlightOut, cancelled>>

\* Mutant of RecvBulk: the slot is given back on submission.
RecvBulkFreesSlot ==
  /\ wpc = "recv"
  /\ channel # <<>>
  /\ Head(channel) \in BulkPackets
  /\ channel' = Tail(channel)
  /\ aclOutQueue' = Append(aclOutQueue, [packet |-> Head(channel), status |-> "posted"])
  /\ inFlightOut' = inFlightOut + 1
  /\ outgoingPending' = outgoingPending - 1
  /\ wpc' = "top"
  /\ UNCHANGED <<shared, leaked, caller, command, cancelled>>

\* recv_timeout yields an ACL or ISO packet: it is submitted to the bulk queue.
RecvBulk ==
  /\ wpc = "recv"
  /\ channel # <<>>
  /\ Head(channel) \in BulkPackets
  /\ channel' = Tail(channel)
  /\ aclOutQueue' = Append(aclOutQueue, [packet |-> Head(channel), status |-> "posted"])
  /\ inFlightOut' = inFlightOut + 1
  /\ wpc' = "top"
  /\ UNCHANGED <<shared, outgoingPending, leaked, caller, command, cancelled>>

\* recv_timeout times out: nothing arrived.  It cannot report a lost sender
\* while the session lives: its ActiveTransport holds one until the join.
RecvTimeout ==
  /\ wpc = "recv"
  /\ channel = <<>>
  /\ wpc' = "check"
  /\ UNCHANGED <<shared, outgoingPending, channel, leaked, caller,
                 command, aclOutQueue, inFlightOut, cancelled>>

\* HCI_EVENT_TRANSPORT_PACKET_SENT reaches BTstack: those who wait for it hear it.
Emit ==
  /\ wpc' = "notify"
  /\ grant' = [c \in Callers |-> IF grant[c] = "no" THEN "none" ELSE grant[c]]

\* The control transfer ends; the slot is given back and, if the transfer
\* succeeded, HCI_EVENT_TRANSPORT_PACKET_SENT is emitted.
CommandEnds(ok) ==
  /\ wpc = "command"
  /\ ok \/ Faults # {}
  /\ command' = NoPacket
  /\ outgoingPending' = outgoingPending - 1
  /\ IF ok THEN Emit ELSE wpc' = "top" /\ UNCHANGED grant
  /\ UNCHANGED <<shared, channel, leaked, spc, packet, current,
                 aclOutQueue, inFlightOut, cancelled>>

\* The packet handler returns from HCI_EVENT_TRANSPORT_PACKET_SENT.
NotifyReturn ==
  /\ wpc = "notify"
  /\ Writer \in Callers => spc[Writer] = "idle"
  /\ wpc' = "top"
  /\ UNCHANGED <<shared, outgoingPending, channel, leaked, caller,
                 command, aclOutQueue, inFlightOut, cancelled>>

\* Mutant of WriterCheckStop: the bulk queue is not cancelled.
WriterCheckStopNoCancel ==
  /\ wpc = "check"
  /\ wpc' = "idle"
  /\ UNCHANGED <<shared, outgoingPending, channel, leaked, caller,
                 command, aclOutQueue, inFlightOut, cancelled>>

\* After the inner loop: the first stop cancels the bulk queue.
WriterCheckStop ==
  /\ wpc = "check"
  /\ wpc' = "idle"
  /\ cancelled' = (cancelled \/ stop)
  /\ UNCHANGED <<shared, outgoingPending, channel, leaked, caller,
                 command, aclOutQueue, inFlightOut>>

\* Mutant of WriterGoOn: completions are collected only while stopping.
WriterGoOnNoPoll ==
  /\ wpc = "idle"
  /\ inFlightOut > 0 \/ ~stop
  /\ wpc' = IF inFlightOut > 0 /\ stop THEN "poll" ELSE "top"
  /\ UNCHANGED <<shared, outgoingPending, channel, leaked, caller,
                 command, aclOutQueue, inFlightOut, cancelled>>

\* Transfers in flight: poll them.  None, and no stop: start over.
WriterGoOn ==
  /\ wpc = "idle"
  /\ inFlightOut > 0 \/ ~stop
  /\ wpc' = IF inFlightOut > 0 THEN "poll" ELSE "top"
  /\ UNCHANGED <<shared, outgoingPending, channel, leaked, caller,
                 command, aclOutQueue, inFlightOut, cancelled>>

\* Mutant of WriterExit: an idle writer ends whether or not it was told to.
WriterExitWhenIdle ==
  /\ wpc = "idle"
  /\ inFlightOut = 0
  /\ wpc' = "exited"
  /\ channel' = <<>>
  /\ leaked' = Len(channel)
  /\ UNCHANGED <<shared, outgoingPending, caller,
                 command, aclOutQueue, inFlightOut, cancelled>>

\* None in flight and stop: the thread ends and the receiver is dropped with
\* whatever the channel holds; no slot is given back for it.
WriterExit ==
  /\ wpc = "idle"
  /\ inFlightOut = 0
  /\ stop
  /\ wpc' = "exited"
  /\ channel' = <<>>
  /\ leaked' = Len(channel)
  /\ UNCHANGED <<shared, outgoingPending, caller,
                 command, aclOutQueue, inFlightOut, cancelled>>

\* poll_once finds the oldest transfer still under way.
PollNothing ==
  /\ wpc = "poll"
  /\ Head(aclOutQueue).status = "posted"
  /\ wpc' = "top"
  /\ UNCHANGED <<shared, outgoingPending, channel, leaked, caller,
                 command, aclOutQueue, inFlightOut, cancelled>>

\* Mutants of PollCompletion: a failed transfer keeps its slot; the packet-sent
\* event is forgotten.
PollCompletionSlotOnSuccess ==
  /\ wpc = "poll"
  /\ Head(aclOutQueue).status # "posted"
  /\ aclOutQueue' = Tail(aclOutQueue)
  /\ inFlightOut' = inFlightOut - 1
  /\ outgoingPending' =
       IF Head(aclOutQueue).status = "ok" THEN outgoingPending - 1 ELSE outgoingPending
  /\ IF Head(aclOutQueue).status = "ok" THEN Emit ELSE wpc' = "top" /\ UNCHANGED grant
  /\ UNCHANGED <<shared, channel, leaked, spc, packet, current, command, cancelled>>

PollCompletionSilent ==
  /\ wpc = "poll"
  /\ Head(aclOutQueue).status # "posted"
  /\ aclOutQueue' = Tail(aclOutQueue)
  /\ inFlightOut' = inFlightOut - 1
  /\ outgoingPending' = outgoingPending - 1
  /\ wpc' = "top"
  /\ UNCHANGED <<shared, channel, leaked, caller, command, cancelled>>

\* poll_once collects the oldest transfer: the slot is given back, and the
\* event is emitted only for a transfer that succeeded.
PollCompletion ==
  /\ wpc = "poll"
  /\ Head(aclOutQueue).status # "posted"
  /\ aclOutQueue' = Tail(aclOutQueue)
  /\ inFlightOut' = inFlightOut - 1
  /\ outgoingPending' = outgoingPending - 1
  /\ IF Head(aclOutQueue).status = "ok" THEN Emit ELSE wpc' = "top" /\ UNCHANGED grant
  /\ UNCHANGED <<shared, channel, leaked, spc, packet, current, command, cancelled>>

WriterStep ==
  \/ WriterTop
  \/ RecvCommand
  \/ RecvBulk
  \/ RecvTimeout
  \/ WriterCheckStop
  \/ WriterGoOn
  \/ WriterExit
  \/ PollNothing
  \/ PollCompletion

\* The controller ends the oldest bulk transfer under way, or the host ends
\* it as cancelled after cancel_all.
TransferEnds(status) ==
  \E i \in DOMAIN aclOutQueue :
    /\ aclOutQueue[i].status = "posted"
    /\ \A j \in 1..(i - 1) : aclOutQueue[j].status # "posted"
    /\ aclOutQueue' = [aclOutQueue EXCEPT ![i].status = status]
    /\ \/ status = "ok"
       \/ status \in Faults
       \/ status = "error" /\ cancelled
    /\ UNCHANGED <<shared, outgoingPending, channel, leaked, caller,
                   wpc, command, inFlightOut, cancelled>>

-----------------------------------------------------------------------------
Next ==
  \/ \E c \in Callers : CanSendPacketNow(c)
  \/ \E c \in Callers, p \in Packets : SendPacket(c, p)
  \/ \E c \in Callers : CallerStep(c)
  \/ CloseTake
  \/ CloseStop
  \/ WriterStep
  \/ \E ok \in BOOLEAN : CommandEnds(ok)
  \/ NotifyReturn
  \/ \E status \in {"ok", "stall", "error"} : TransferEnds(status)

Spec == Init /\ [][Next]_vars

\* What the scheduler owes the code: a thread that can go on does, and the
\* packet handler returns after finitely many calls into the transport.
ThreadsFair ==
  /\ WF_vars(WriterStep)
  /\ SF_vars(NotifyReturn)
  /\ \A c \in Callers : WF_vars(CallerStep(c))

\* What the host controller owes the code: every OUT transfer ends.
TransfersEnd ==
  /\ WF_vars(\E ok \in BOOLEAN : CommandEnds(ok))
  /\ WF_vars(\E status \in {"ok", "stall", "error"} : TransferEnds(status))

\* Less: a bulk transfer may stay under way until it is cancelled.  (Nothing
\* cancels a control transfer; the controller has to answer it.)
CancelledTransfersEnd ==
  /\ WF_vars(\E ok \in BOOLEAN : CommandEnds(ok))
  /\ WF_vars(cancelled /\ \E status \in {"ok", "stall", "error"} : TransferEnds(status))

StopSpec == Spec /\ ThreadsFair /\ CancelledTransfersEnd

-----------------------------------------------------------------------------
(* Safety.                                                                 *)

\* Callers that have taken a slot and not yet passed it on or given it back.
Holders == {c \in Callers : spc[c] \in {"push", "undo"}}

\* outgoing_pending counts every slot exactly once, wherever its packet is:
\* with a caller between the compare-exchange and try_send (lib.rs:217-237),
\* in the channel, in a control transfer, in the bulk queue (io.rs:123-135),
\* or lost with the receiver.  A slot released twice would let the counter
\* wrap below zero, a slot never released would in the end block sending.
SlotAccounting ==
  outgoingPending =
    Cardinality(Holders) + Len(channel) + (IF command = NoPacket THEN 0 ELSE 1)
      + inFlightOut + leaked

\* in_flight_out is the length of the bulk queue (io.rs:132-133, 150-151), so
\* next_complete is polled only when a transfer is there to be collected.
TransfersCounted ==
  /\ inFlightOut = Len(aclOutQueue)
  /\ wpc = "poll" => aclOutQueue # <<>>

\* A reserved slot is a place in the channel: as long as the receiver lives,
\* try_send (lib.rs:232) never reports a full channel, whatever the callers,
\* the writer and a close do between the reservation and the send.
ReservedMeansRoom ==
  wpc # "exited" => \A c \in Callers : spc[c] = "push" => Len(channel) < QueueDepth

\* The inner loop stops receiving at ACL_OUT_IN_FLIGHT bulk transfers
\* (io.rs:116).  It must never keep a command waiting behind data the
\* controller does not accept.  True only because the channel is no deeper
\* than the bulk queue, a relation between two unrelated constants.
NoHeadOfLineBlocking ==
  inFlightOut = AclOutInFlight => channel = <<>>

\* A caller that was told it can send (lib.rs:189) and sends is not turned
\* away for want of a slot.  Holds while one thread does all the sending.
GrantKept ==
  [][\A c \in Callers :
       grant[c] = "yes" /\ spc[c] = "cas" /\ spc'[c] # "cas" => spc'[c] # "idle"]_vars

-----------------------------------------------------------------------------
(* The promise to BTstack: see SendService.                                *)

CommandLane ==
  (IF command = NoPacket THEN <<>> ELSE <<command>>) \o Lane(channel, CommandPackets)
BulkLane ==
  [i \in DOMAIN aclOutQueue |-> aclOutQueue[i].packet] \o Lane(channel, BulkPackets)

Service == INSTANCE SendService WITH
  slots <- outgoingPending,
  commands <- CommandLane,
  bulk <- BulkLane,
  down <- wpc = "exited"

\* The threads, the channel and the two transfer queues together behave as
\* the slot pool with two first-in first-out lanes: no packet is accepted
\* without a slot, overtakes another of its lane, is finished twice, or
\* leaves before its transfer ended (lib.rs:200-239, io.rs:115-161).
ServiceSpec == Service!Spec

Worker == INSTANCE WorkerThread WITH
  phase <- CASE wpc = "exited" -> "exited"
             [] wpc = "notify" -> "calling"
             [] OTHER -> "running"

\* The writer is the worker transport_open and transport_close count on: it
\* leaves its loop only after the stop flag (io.rs:143-146), not on a failed
\* transfer or an idle channel, and emits nothing afterwards.
WorkerSpec == Worker!Spec

-----------------------------------------------------------------------------
(* Liveness.                                                               *)

Accepted(p) ==
  \/ p = command
  \/ \E i \in DOMAIN channel : channel[i] = p
  \/ \E i \in DOMAIN aclOutQueue : aclOutQueue[i].packet = p

\* A packet that was accepted is disposed of: its transfer ends, or the
\* session shuts down.  The code polls bulk completions only between bursts
\* of commands (io.rs:116-136 comes before io.rs:150), hence the premise
\* that the inner loop is left again and again.
AcceptedPacketsEnd ==
  TransfersEnd /\ []<>(wpc \in {"check", "exited"}) =>
    \A p \in Packets : Accepted(p) ~> ~Accepted(p)

\* Once the stop flag is up the writer thread ends, so the join in
\* transport_close (lib.rs:159) returns, whatever the callers do, and even
\* if the controller takes none of the bulk data in flight (StopSpec): the
\* loop must cancel it (io.rs:138-141) and still collect it (io.rs:143-150).
WriterEnds == stop ~> wpc = "exited"

\* A caller told that it cannot send now is told when it can: another
\* HCI_EVENT_TRANSPORT_PACKET_SENT follows (or the session is closed).  The
\* slot must be free before the event goes out (io.rs:126-128, 152-154).
CallerIsWoken ==
  TransfersEnd => \A c \in Callers : grant[c] = "no" ~> (grant[c] # "no" \/ ~active)
=============================================================================
