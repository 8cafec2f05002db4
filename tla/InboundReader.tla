--------------------------- MODULE InboundReader ---------------------------
(***************************************************************************)
(* One reader thread of an open transport session: spawn_event_reader or   *)
(* spawn_acl_reader of btstack-hci-transport-nusb, which differ only in    *)
(* the endpoint, the packet type and the number and size of the buffers.   *)
(* The thread keeps a ring of InFlight transfers submitted to the IN       *)
(* endpoint, hands the data of each completion to the packet handler,      *)
(* submits the buffer again, and looks at the stop flag in between.        *)
(*                                                                         *)
(* The endpoint (nusb and the controller) is external: transfers complete  *)
(* in the order they were submitted; once a transfer stalls, the endpoint  *)
(* is halted and every further one stalls until the halt is cleared.       *)
(***************************************************************************)
EXTENDS Naturals, Sequences, Lanes

CONSTANTS
  Packets,   \* packets the controller may send; a name is used again later
  NoPacket,  \* marks the absence of a packet
  InFlight   \* EVENT_IN_FLIGHT or ACL_IN_FLIGHT

ASSUME InFlightPositive == InFlight \in Nat \ {0}

ASSUME NoPacketIsNone == NoPacket \notin Packets

VARIABLES
  rpc,        \* where the thread is
  stop,       \* the stop flag of the session
  queue,      \* transfers submitted and not yet collected
  held,       \* the completion being handled: data, or NoPacket
  cancelled,  \* cancel_all was called on the queue
  halted,     \* the endpoint is halted
  lateCalls   \* history: handler calls that began after stop was raised

vars == <<rpc, stop, queue, held, cancelled, halted, lateCalls>>

Status == {"posted", "ok", "stall", "error"}

\* Only a completion without error carries data, and even that may be empty.
Transfer ==
  [status : Status, data : {NoPacket}] \cup [status : {"ok"}, data : Packets]

Posted == [status |-> "posted", data |-> NoPacket]

TypeOK ==
  /\ rpc \in {"start", "poll", "emit", "calling", "halt", "check", "drain", "exited"}
  /\ stop \in BOOLEAN
  /\ queue \in Seq(Transfer)
  /\ held \in IF rpc \in {"emit", "calling"} THEN Packets ELSE {NoPacket}
  /\ cancelled \in BOOLEAN
  /\ halted \in BOOLEAN
  /\ lateCalls \in Nat

Init ==
  /\ rpc = "start"
  /\ stop = FALSE
  /\ queue = <<>>
  /\ held = NoPacket
  /\ cancelled = FALSE
  /\ halted = FALSE
  /\ lateCalls = 0

-----------------------------------------------------------------------------
(* The thread.                                                             *)

\* All buffers are submitted before the first poll.
Start ==
  /\ rpc = "start"
  /\ queue' = [i \in 1..InFlight |-> Posted]
  /\ rpc' = "poll"
  /\ UNCHANGED <<stop, held, cancelled, halted, lateCalls>>

\* Mutant of PollCompletion: the stop flag is looked at before the packet is
\* handed over.
PollCompletionStopFirst ==
  /\ rpc = "poll"
  /\ queue # <<>>
  /\ Head(queue).status # "posted"
  /\ queue' = Tail(queue)
  /\ held' = IF stop THEN NoPacket ELSE Head(queue).data
  /\ rpc' = CASE Head(queue).status = "stall" -> "halt"
              [] held' # NoPacket -> "emit"
              [] OTHER -> "check"
  /\ UNCHANGED <<stop, cancelled, halted, lateCalls>>

\* poll_once yields the oldest transfer.  (It yields nothing while that one is
\* under way: the thread sleeps and polls again.)
PollCompletion ==
  /\ rpc = "poll"
  /\ queue # <<>>
  /\ Head(queue).status # "posted"
  /\ queue' = Tail(queue)
  /\ held' = Head(queue).data
  /\ rpc' = CASE Head(queue).status = "stall" -> "halt"
              [] Head(queue).data # NoPacket -> "emit"
              [] OTHER -> "check"
  /\ UNCHANGED <<stop, cancelled, halted, lateCalls>>

\* emit_packet calls the packet handler.
Emit ==
  /\ rpc = "emit"
  /\ rpc' = "calling"
  /\ lateCalls' = IF stop THEN lateCalls + 1 ELSE lateCalls
  /\ UNCHANGED <<stop, queue, held, cancelled, halted>>

\* The packet handler returns.
HandlerReturns ==
  /\ rpc = "calling"
  /\ rpc' = "check"
  /\ held' = NoPacket
  /\ UNCHANGED <<stop, queue, cancelled, halted, lateCalls>>

\* Mutant of ClearHalt: a stall is treated like any other error.
ClearHaltNever(done) ==
  /\ rpc = "halt"
  /\ rpc' = "check"
  /\ UNCHANGED <<stop, queue, held, cancelled, halted, lateCalls>>

\* clear_halt; its result is not looked at.
ClearHalt(done) ==
  /\ rpc = "halt"
  /\ halted' = (halted /\ ~done)
  /\ rpc' = "check"
  /\ UNCHANGED <<stop, queue, held, cancelled, lateCalls>>

\* Mutants of Resubmit: the stop flag is not looked at; the buffer of a
\* completion on a halted endpoint is not submitted again.
ResubmitAlways ==
  /\ rpc = "check"
  /\ queue' = Append(queue, Posted)
  /\ rpc' = "poll"
  /\ UNCHANGED <<stop, held, cancelled, halted, lateCalls>>

ResubmitUnlessHalted ==
  /\ rpc = "check"
  /\ ~stop
  /\ queue' = IF halted THEN queue ELSE Append(queue, Posted)
  /\ rpc' = "poll"
  /\ UNCHANGED <<stop, held, cancelled, halted, lateCalls>>

\* No stop: the buffer goes back into the ring.
Resubmit ==
  /\ rpc = "check"
  /\ ~stop
  /\ queue' = Append(queue, Posted)
  /\ rpc' = "poll"
  /\ UNCHANGED <<stop, held, cancelled, halted, lateCalls>>

\* Mutant of CancelAll: the ring is drained without being cancelled.
CancelAllForgotten ==
  /\ rpc = "check"
  /\ stop
  /\ rpc' = "drain"
  /\ UNCHANGED <<stop, queue, held, cancelled, halted, lateCalls>>

\* Stop: cancel_and_drain_reader_queue begins.
CancelAll ==
  /\ rpc = "check"
  /\ stop
  /\ cancelled' = TRUE
  /\ rpc' = "drain"
  /\ UNCHANGED <<stop, queue, held, halted, lateCalls>>

\* The drain collects the oldest transfer and drops its data.
Drain ==
  /\ rpc = "drain"
  /\ queue # <<>>
  /\ Head(queue).status # "posted"
  /\ queue' = Tail(queue)
  /\ UNCHANGED <<rpc, stop, held, cancelled, halted, lateCalls>>

\* Nothing left to collect: back to the loop.
DrainEnd ==
  /\ rpc = "drain"
  /\ queue = <<>>
  /\ rpc' = "poll"
  /\ UNCHANGED <<stop, queue, held, cancelled, halted, lateCalls>>

\* The loop ends when no transfer is pending.
Exit ==
  /\ rpc = "poll"
  /\ queue = <<>>
  /\ rpc' = "exited"
  /\ UNCHANGED <<stop, queue, held, cancelled, halted, lateCalls>>

ReaderStep ==
  \/ Start
  \/ PollCompletion
  \/ Emit
  \/ \E done \in BOOLEAN : ClearHalt(done)
  \/ Resubmit
  \/ CancelAll
  \/ Drain
  \/ DrainEnd
  \/ Exit

-----------------------------------------------------------------------------
(* transport_close and the endpoint.                                       *)

RaiseStop ==
  /\ ~stop
  /\ stop' = TRUE
  /\ UNCHANGED <<rpc, queue, held, cancelled, halted, lateCalls>>

InUse == {held} \cup {queue[i].data : i \in DOMAIN queue}

\* The oldest transfer under way completes.
Completes(status, data) ==
  \E i \in DOMAIN queue :
    /\ queue[i].status = "posted"
    /\ \A j \in 1..(i - 1) : queue[j].status # "posted"
    /\ queue' = [queue EXCEPT ![i] = [status |-> status, data |-> data]]
    /\ UNCHANGED <<rpc, stop, held, cancelled, lateCalls>>

\* A packet arrives.
Arrive(p) ==
  /\ ~halted
  /\ p \notin InUse
  /\ Completes("ok", p)
  /\ UNCHANGED halted

\* The controller ends a transfer without data.
ArriveEmpty ==
  /\ ~halted
  /\ Completes("ok", NoPacket)
  /\ UNCHANGED halted

\* A transfer stalls: always on a halted endpoint.
Stall ==
  /\ Completes("stall", NoPacket)
  /\ halted' = TRUE

\* A transfer fails otherwise; a cancelled one completes like this.
Fail ==
  /\ Completes("error", NoPacket)
  /\ UNCHANGED halted

Endpoint ==
  \/ \E p \in Packets : Arrive(p)
  \/ ArriveEmpty
  \/ Stall
  \/ Fail

-----------------------------------------------------------------------------
Next ==
  \/ ReaderStep
  \/ HandlerReturns
  \/ RaiseStop
  \/ Endpoint

Spec == Init /\ [][Next]_vars

\* A thread that can go on does, and the packet handler returns.
ThreadsFair ==
  /\ WF_vars(ReaderStep)
  /\ WF_vars(HandlerReturns)

\* The host ends transfers that were cancelled.
CancelledTransfersEnd == WF_vars(cancelled /\ Endpoint)

\* A halted endpoint stalls the transfers it is given, and obeys a clear_halt sooner or
\* later if it is asked again and again.
HaltIsAnswered ==
  /\ SF_vars(halted /\ Stall)
  /\ SF_vars(ClearHalt(TRUE))

\* The controller says something now and then while the ring is up.
ControllerTalks == WF_vars(rpc = "poll" /\ Endpoint)

FairSpec ==
  Spec /\ ThreadsFair /\ CancelledTransfersEnd /\ HaltIsAnswered /\ ControllerTalks

-----------------------------------------------------------------------------
(* Safety.                                                                 *)

\* While the thread reads, every buffer is either in the ring or being
\* handled: no completion, whatever its status, loses one (io.rs:39-51), so
\* the controller always finds InFlight buffers and the loop, which ends when
\* nothing is pending (io.rs:34), ends only after a stop.
RingComplete ==
  CASE rpc = "poll" /\ ~cancelled -> Len(queue) = InFlight
    [] rpc \in {"emit", "calling", "halt", "check"} -> Len(queue) = InFlight - 1
    [] OTHER -> TRUE

\* A close that has raised the stop flag waits for at most one more call of
\* the packet handler by this thread (io.rs:35-49).
FewLateCalls == lateCalls <= 1

-----------------------------------------------------------------------------
\* The packets in the ring, in the order of their transfers.
Collectable == Lane([i \in DOMAIN queue |-> queue[i].data], Packets)

\* The thread has acted on the stop flag.
Closed == rpc = "exited" \/ cancelled

\* The packets still to be delivered; what the drain collects is dropped.
Arrived ==
  IF Closed THEN <<>>
  ELSE (IF rpc = "emit" THEN <<held>> ELSE <<>>) \o Collectable

Stream == INSTANCE PacketStream WITH
  arrived <- Arrived,
  delivered <- IF rpc = "calling" THEN held ELSE NoPacket,
  closed <- Closed

\* The ring of transfers behaves as a stream of packets: each packet reaches
\* the handler once and in order, through stalls, errors and empty transfers,
\* up to the moment the thread acts on the stop flag (io.rs:34-55).
StreamSpec == Stream!Spec

Worker == INSTANCE WorkerThread WITH
  phase <- CASE rpc = "exited" -> "exited"
             [] rpc = "calling" -> "calling"
             [] OTHER -> "running"

\* The reader is the worker transport_open and transport_close count on: it
\* does not end before it is told to, however its transfers fail.
WorkerSpec == Worker!Spec

-----------------------------------------------------------------------------
(* Liveness.                                                               *)

\* A stalled endpoint is brought back (io.rs:42-44), even though the result
\* of clear_halt is ignored: the next transfer stalls and it is tried again.
HaltIsCleared == halted ~> (~halted \/ stop)

\* Once the stop flag is up the thread ends, provided that one more transfer
\* completes: the flag is looked at only after a completion (io.rs:46).
ReaderEnds == stop ~> rpc = "exited"
=============================================================================
