------------------------ MODULE InboundReaderProofs ------------------------
(***************************************************************************)
(* Proofs about InboundReader, for any number of buffers and any packets.  *)
(***************************************************************************)
EXTENDS InboundReader, LanesProofs

\* Where the thread is tells what it has cancelled and whether it was stopped.
StopInv ==
  /\ cancelled => stop
  /\ rpc = "drain" => cancelled
  /\ rpc \in {"start", "emit", "calling", "halt", "check"} => ~cancelled
  /\ rpc = "poll" /\ cancelled => queue = <<>>
  /\ rpc = "exited" => stop

\* A call that began after the stop flag is the last one.
LateInv ==
  /\ ~stop => lateCalls = 0
  /\ lateCalls # 0 =>
       /\ lateCalls = 1
       /\ rpc \in {"calling", "check", "drain", "exited"} \/ cancelled

\* The inductive invariant.
IInv ==
  /\ TypeOK
  /\ RingComplete
  /\ StopInv
  /\ LateInv

-----------------------------------------------------------------------------
\* A buffer submitted at the end of the ring.
LEMMA Submitted ==
  ASSUME queue \in Seq(Transfer)
  PROVE  /\ Append(queue, Posted) \in Seq(Transfer)
         /\ Len(Append(queue, Posted)) = Len(queue) + 1
         /\ Len(queue) \in Nat
<1>1. Posted \in Transfer
  BY DEF Posted, Transfer, Status
<1>2. QED
  BY <1>1, AppendProperties, LenProperties

LEMMA InitIInv == Init => IInv
<1> SUFFICES ASSUME Init PROVE IInv
  OBVIOUS
<1>1. queue \in Seq(Transfer)
  BY EmptySeq DEF Init
<1>2. TypeOK
  BY <1>1 DEF Init, TypeOK
<1>3. RingComplete /\ StopInv /\ LateInv
  BY DEF Init, RingComplete, StopInv, LateInv
<1>4. QED
  BY <1>2, <1>3 DEF IInv

LEMMA StartIInv ==
  ASSUME IInv, Start
  PROVE  IInv'
<1>1. Posted \in Transfer
  BY DEF Posted, Transfer, Status
<1>2. /\ queue' \in Seq(Transfer)
      /\ Len(queue') = InFlight
  <2>1. InFlight \in Nat
    BY InFlightPositive
  <2>2. queue' \in [1..InFlight -> Transfer]
    BY <1>1 DEF Start
  <2>3. QED
    BY <2>1, <2>2
<1>3. TypeOK'
  BY <1>2 DEF IInv, Start, TypeOK
<1>4. QED
  BY <1>2, <1>3 DEF IInv, Start, RingComplete, StopInv, LateInv

LEMMA CollectIInv ==
  ASSUME IInv, PollCompletion \/ Drain
  PROVE  IInv'
<1>1. /\ queue' \in Seq(Transfer)
      /\ Len(queue') = Len(queue) - 1
      /\ Len(queue) \in Nat \ {0}
      /\ Head(queue) \in Transfer
  BY TailShorter DEF IInv, TypeOK, PollCompletion, Drain
<1>2. CASE PollCompletion
  <2>1. /\ held' \in IF rpc' \in {"emit", "calling"} THEN Packets ELSE {NoPacket}
        /\ rpc' \in {"emit", "halt", "check"}
    BY <1>1, <1>2, NoPacketIsNone DEF PollCompletion, Transfer, Status
  <2>2. TypeOK'
    BY <1>1, <1>2, <2>1 DEF IInv, PollCompletion, TypeOK
  <2>3. ~cancelled
    BY <1>1, <1>2 DEF IInv, PollCompletion, StopInv
  <2>4. QED
    BY <1>1, <1>2, <2>1, <2>2, <2>3 DEF IInv, PollCompletion, RingComplete, StopInv, LateInv
<1>3. CASE Drain
  BY <1>1, <1>3 DEF IInv, Drain, TypeOK, RingComplete, StopInv, LateInv
<1>4. QED
  BY <1>2, <1>3

LEMMA ResubmitIInv ==
  ASSUME IInv, Resubmit
  PROVE  IInv'
<1>1. /\ queue' \in Seq(Transfer)
      /\ Len(queue') = Len(queue) + 1
      /\ Len(queue) \in Nat
  BY Submitted DEF IInv, TypeOK, Resubmit
<1>2. TypeOK'
  BY <1>1 DEF IInv, Resubmit, TypeOK
<1>3. RingComplete'
  BY <1>1, InFlightPositive DEF IInv, Resubmit, RingComplete
<1>4. QED
  BY <1>2, <1>3 DEF IInv, Resubmit, StopInv, LateInv

\* The steps that leave the ring alone.
LEMMA ControlIInv ==
  ASSUME IInv,
         \/ Emit \/ HandlerReturns \/ CancelAll \/ DrainEnd \/ Exit \/ RaiseStop
         \/ \E done \in BOOLEAN : ClearHalt(done)
  PROVE  IInv'
<1> USE DEF IInv, TypeOK, RingComplete, StopInv, LateInv
<1>1. CASE Emit
  BY <1>1 DEF Emit
<1>2. CASE HandlerReturns
  BY <1>2 DEF HandlerReturns
<1>3. CASE CancelAll
  BY <1>3 DEF CancelAll
<1>4. CASE DrainEnd \/ Exit
  <2>1. Exit => cancelled
    BY EmptySeq, InFlightPositive DEF Exit
  <2>2. QED
    BY <1>4, <2>1 DEF DrainEnd, Exit
<1>5. CASE RaiseStop
  BY <1>5 DEF RaiseStop
<1>6. CASE \E done \in BOOLEAN : ClearHalt(done)
  BY <1>6 DEF ClearHalt
<1>7. QED
  BY <1>1, <1>2, <1>3, <1>4, <1>5, <1>6

LEMMA EndpointIInv ==
  ASSUME IInv, Endpoint
  PROVE  IInv'
<1>1. PICK status \in Status, data \in Packets \cup {NoPacket} :
        /\ Completes(status, data)
        /\ [status |-> status, data |-> data] \in Transfer
        /\ halted' \in BOOLEAN
  BY DEF Endpoint, Arrive, ArriveEmpty, Stall, Fail, Status, Transfer, IInv, TypeOK
<1>2. PICK i \in DOMAIN queue :
        /\ queue' = [queue EXCEPT ![i] = [status |-> status, data |-> data]]
        /\ UNCHANGED <<rpc, stop, held, cancelled, lateCalls>>
  BY <1>1 DEF Completes
<1>3. queue' \in Seq(Transfer) /\ Len(queue') = Len(queue)
  BY <1>1, <1>2, ExceptSeq, LenProperties DEF IInv, TypeOK
<1>4. queue # <<>>
  BY <1>2
<1>5. TypeOK' /\ RingComplete'
  BY <1>1, <1>2, <1>3 DEF IInv, TypeOK, RingComplete
<1>6. StopInv' /\ LateInv'
  BY <1>2, <1>4 DEF IInv, StopInv, LateInv
<1>7. QED
  BY <1>5, <1>6 DEF IInv

LEMMA NextIInv == IInv /\ [Next]_vars => IInv'
<1> SUFFICES ASSUME IInv, [Next]_vars PROVE IInv'
  OBVIOUS
<1>1. CASE ReaderStep
  BY <1>1, StartIInv, CollectIInv, ResubmitIInv, ControlIInv DEF ReaderStep
<1>2. CASE HandlerReturns \/ RaiseStop
  BY <1>2, ControlIInv
<1>3. CASE Endpoint
  BY <1>3, EndpointIInv
<1>4. CASE UNCHANGED vars
  BY <1>4 DEF vars, IInv, TypeOK, RingComplete, StopInv, LateInv
<1>5. QED
  BY <1>1, <1>2, <1>3, <1>4 DEF Next

THEOREM Inductive == Spec => []IInv
BY InitIInv, NextIInv, PTL DEF Spec

-----------------------------------------------------------------------------
\* Type correctness: what is handed to the packet handler is always a packet.
THEOREM TypeCorrect == Spec => []TypeOK
<1>1. IInv => TypeOK
  BY DEF IInv
<1>2. QED
  BY <1>1, Inductive, PTL

\* No completion loses a buffer, for any EVENT_IN_FLIGHT and ACL_IN_FLIGHT.
THEOREM RingStaysComplete == Spec => []RingComplete
<1>1. IInv => RingComplete
  BY DEF IInv
<1>2. QED
  BY <1>1, Inductive, PTL

\* At most one handler call begins after the stop flag is raised.
THEOREM LateCallsBounded == Spec => []FewLateCalls
<1>1. IInv => FewLateCalls
  BY DEF IInv, TypeOK, LateInv, FewLateCalls
<1>2. QED
  BY <1>1, Inductive, PTL

\* A reader implements the worker that transport_open starts and
\* transport_close joins: it never ends on its own account.
THEOREM ReaderIsWorker == Spec => WorkerSpec
<1>1. Init => Worker!Init
  BY DEF Init, Worker!Init
<1>2. IInv /\ [Next]_vars => [Worker!Next]_(Worker!vars)
  <2> SUFFICES ASSUME IInv, [Next]_vars PROVE [Worker!Next]_(Worker!vars)
    OBVIOUS
  <2> USE DEF Worker!Next, Worker!vars
  <2>1. CASE Emit
    BY <2>1 DEF Emit, Worker!Call
  <2>2. CASE HandlerReturns
    BY <2>2 DEF HandlerReturns, Worker!Return
  <2>3. CASE RaiseStop
    BY <2>3 DEF RaiseStop, Worker!RaiseStop
  <2>4. CASE Exit
    <3>1. stop
      BY <2>4, EmptySeq, InFlightPositive DEF Exit, IInv, RingComplete, StopInv
    <3>2. QED
      BY <2>4, <3>1 DEF Exit, Worker!Exit
  <2>5. CASE \/ Start \/ PollCompletion \/ Resubmit \/ CancelAll \/ Drain \/ DrainEnd
             \/ \E done \in BOOLEAN : ClearHalt(done)
    BY <2>5 DEF Start, PollCompletion, Resubmit, CancelAll, Drain, DrainEnd, ClearHalt
  <2>6. CASE Endpoint
    BY <2>6 DEF Endpoint, Arrive, ArriveEmpty, Stall, Fail, Completes
  <2>7. CASE UNCHANGED vars
    BY <2>7 DEF vars
  <2>8. QED
    BY <2>1, <2>2, <2>3, <2>4, <2>5, <2>6, <2>7 DEF Next, ReaderStep
<1>3. QED
  BY <1>1, <1>2, Inductive, PTL DEF Spec, WorkerSpec, Worker!Spec

-----------------------------------------------------------------------------
(* The order of the ring: transfers complete in the order they were        *)
(* submitted, so those under way are the last ones.                        *)

OrderInv ==
  /\ rpc = "start" => queue = <<>>
  /\ \A i, j \in DOMAIN queue :
       i < j /\ queue[i].status = "posted" => queue[j].status = "posted"

LEMMA OrderInvStep ==
  ASSUME IInv, OrderInv, [Next]_vars
  PROVE  OrderInv'
<1> DEFINE n == Len(queue)
<1>1. queue \in Seq(Transfer) /\ n \in Nat /\ DOMAIN queue = 1..n
  BY LenProperties DEF IInv, TypeOK
<1>2. CASE UNCHANGED queue /\ rpc' # "start"
  BY <1>2 DEF OrderInv
<1>3. CASE Start
  <2>1. queue' = [i \in 1..InFlight |-> Posted] /\ rpc' # "start" /\ InFlight \in Nat
    BY <1>3, InFlightPositive DEF Start
  <2>2. QED
    BY <2>1 DEF OrderInv, Posted
<1>4. CASE PollCompletion \/ Drain
  <2>1. queue # <<>> /\ queue' = Tail(queue) /\ rpc' # "start"
    BY <1>4 DEF PollCompletion, Drain
  <2>2. /\ queue' \in Seq(Transfer) /\ Len(queue') = n - 1
        /\ \A i \in 1..n - 1 : queue'[i] = queue[i + 1]
    BY <1>1, <2>1, HeadTailProperties
  <2>3. DOMAIN queue' = 1..n - 1
    BY <2>2, LenProperties
  <2>4. ASSUME NEW i \in 1..n - 1, NEW j \in 1..n - 1, i < j, queue'[i].status = "posted"
        PROVE  queue'[j].status = "posted"
    <3>1. i + 1 \in 1..n /\ j + 1 \in 1..n /\ i + 1 < j + 1
      BY <1>1, <2>4
    <3>2. queue[i + 1].status = "posted"
      BY <2>2, <2>4
    <3>3. queue[j + 1].status = "posted"
      BY <1>1, <3>1, <3>2 DEF OrderInv
    <3>4. QED
      BY <2>2, <3>3
  <2>5. QED
    BY <2>1, <2>3, <2>4 DEF OrderInv
<1>5. CASE Resubmit
  <2>1. queue' = Append(queue, Posted) /\ rpc' # "start"
    BY <1>5 DEF Resubmit
  <2>2. DOMAIN queue' = 1..n + 1 /\ queue'[n + 1] = Posted /\ \A i \in 1..n : queue'[i] = queue[i]
    BY <1>1, <2>1
  <2>3. ASSUME NEW i \in 1..n + 1, NEW j \in 1..n + 1, i < j, queue'[i].status = "posted"
        PROVE  queue'[j].status = "posted"
    <3>1. i \in 1..n /\ (j = n + 1 \/ j \in 1..n)
      BY <1>1, <2>3
    <3>2. QED
      BY <1>1, <2>2, <2>3, <3>1 DEF OrderInv, Posted
  <2>4. QED
    BY <2>1, <2>2, <2>3 DEF OrderInv
<1>6. CASE Endpoint
  <2>1. PICK status, data : Completes(status, data)
    BY <1>6 DEF Endpoint, Arrive, ArriveEmpty, Stall, Fail
  <2>2. PICK i \in 1..n :
          /\ queue[i].status = "posted"
          /\ \A j \in 1..(i - 1) : queue[j].status # "posted"
          /\ queue' = [queue EXCEPT ![i] = [status |-> status, data |-> data]]
          /\ rpc' = rpc
    BY <1>1, <2>1 DEF Completes
  <2>3. DOMAIN queue' = 1..n /\ \A j \in 1..n : j # i => queue'[j] = queue[j]
    BY <1>1, <2>2
  <2>4. \A j \in 1..n : j < i => j \in 1..(i - 1)
    BY <1>1
  <2>5. \A j \in 1..n : i < j => queue'[j].status = "posted"
    BY <1>1, <2>2, <2>3 DEF OrderInv
  <2>6. ASSUME NEW j \in 1..n, NEW k \in 1..n, j < k, queue'[j].status = "posted"
        PROVE  queue'[k].status = "posted"
    <3>1. CASE j < i
      BY <2>2, <2>3, <2>4, <2>6, <3>1
    <3>2. CASE ~(j < i)
      <4>1. i < k
        BY <1>1, <2>6, <3>2
      <4>2. QED
        BY <2>5, <4>1
    <3>3. QED
      BY <3>1, <3>2
  <2>7. rpc' = "start" => queue' = <<>>
    BY <1>1, <2>2, EmptySeq DEF OrderInv
  <2>8. QED
    BY <2>3, <2>6, <2>7 DEF OrderInv
<1>7. CASE RaiseStop \/ UNCHANGED vars
  BY <1>7 DEF RaiseStop, vars, OrderInv
<1>8. CASE Emit \/ HandlerReturns \/ CancelAll \/ DrainEnd \/ Exit
           \/ \E done \in BOOLEAN : ClearHalt(done)
  BY <1>2, <1>8 DEF Emit, HandlerReturns, CancelAll, DrainEnd, Exit, ClearHalt
<1>9. QED
  BY <1>3, <1>4, <1>5, <1>6, <1>7, <1>8 DEF Next, ReaderStep

-----------------------------------------------------------------------------
(* The packets in the ring.                                                *)

\* What the transfers carry.
Data(q) == [i \in DOMAIN q |-> q[i].data]

DataOf == [transfer \in Transfer |-> transfer.data]

LEMMA DataIsMapped ==
  ASSUME NEW q \in Seq(Transfer)
  PROVE  Data(q) = Mapped(q, DataOf) /\ DataOf \in [Transfer -> Packets \cup {NoPacket}]
<1>1. \A i \in DOMAIN q : q[i] \in Transfer
  BY ElementOfSeq, LenProperties
<1>2. DataOf \in [Transfer -> Packets \cup {NoPacket}]
  BY DEF DataOf, Transfer
<1>3. QED
  BY <1>1, <1>2 DEF Data, Mapped, DataOf

LEMMA DataType ==
  ASSUME NEW q \in Seq(Transfer)
  PROVE  /\ Data(q) \in Seq(Packets \cup {NoPacket})
         /\ Len(Data(q)) = Len(q)
         /\ \A i \in 1..Len(q) : Data(q)[i] = q[i].data
<1>1. IsImage(Mapped(q, DataOf), q, DataOf, Packets \cup {NoPacket})
  BY DataIsMapped, MappedType
<1>2. \A i \in 1..Len(q) : q[i] \in Transfer
  BY ElementOfSeq
<1>3. QED
  BY <1>1, <1>2, DataIsMapped DEF IsImage, DataOf

LEMMA CollectableIsLane == Collectable = Lane(Data(queue), Packets)
BY DEF Collectable, Data

LEMMA CollectableType ==
  ASSUME queue \in Seq(Transfer)
  PROVE  Collectable \in Seq(Packets)
BY DataType, LaneType, CollectableIsLane

\* A ring of transfers that carry nothing.
LEMMA NoneCollectable ==
  ASSUME NEW q \in Seq(Transfer), \A i \in 1..Len(q) : q[i].data = NoPacket
  PROVE  Lane(Data(q), Packets) = <<>>
BY DataType, LaneNone, NoPacketIsNone

\* A buffer that is submitted again adds nothing.
LEMMA SubmittedCollectable ==
  ASSUME queue \in Seq(Transfer), queue' = Append(queue, Posted)
  PROVE  Collectable' = Collectable
<1>1. Posted \in Transfer /\ Posted.data = NoPacket
  BY DEF Posted, Transfer, Status
<1>2. MapsAppend(queue, Posted, DataOf)
  BY <1>1, DataIsMapped, MappedAppend
<1>3. queue' \in Seq(Transfer)
  BY <1>1
<1>4. Data(queue') = Append(Data(queue), NoPacket)
  <2>1. Data(queue') = Mapped(queue', DataOf) /\ Data(queue) = Mapped(queue, DataOf)
    BY <1>3, DataIsMapped
  <2>2. DataOf[Posted] = NoPacket
    BY <1>1 DEF DataOf
  <2>3. QED
    BY <1>2, <2>1, <2>2, Zenon DEF MapsAppend
<1>5. Lane(Append(Data(queue), NoPacket), Packets) = Lane(Data(queue), Packets)
  BY DataType, LaneAppend, NoPacketIsNone
<1>6. Collectable' = Lane(Data(queue'), Packets)
  BY DEF Collectable, Data
<1>7. QED
  BY <1>4, <1>5, <1>6, CollectableIsLane

\* The oldest transfer carries the first packet, or none.
LEMMA CollectedCollectable ==
  ASSUME queue \in Seq(Transfer), queue # <<>>, queue' = Tail(queue)
  PROVE  /\ Collectable = IF Head(queue).data \in Packets
                          THEN <<Head(queue).data>> \o Collectable' ELSE Collectable'
         /\ Collectable' \in Seq(Packets)
<1> DEFINE data == Data(queue)
<1>1. MapsTail(queue, DataOf)
  BY DataIsMapped, MappedTail
<1>2. queue' \in Seq(Transfer) /\ Head(queue) \in Transfer
  BY TailShorter
<1>3. data # <<>> /\ Data(queue') = Tail(data) /\ Head(data) = Head(queue).data
  <2>1. Data(queue') = Mapped(queue', DataOf) /\ data = Mapped(queue, DataOf)
    BY <1>2, DataIsMapped
  <2>2. DataOf[Head(queue)] = Head(queue).data
    BY <1>2 DEF DataOf
  <2>3. QED
    BY <1>1, <2>1, <2>2, Zenon DEF MapsTail
<1>4. data \in Seq(Packets \cup {NoPacket})
  BY DataType
<1> HIDE DEF data
<1>5. Lane(data, Packets) = IF Head(data) \in Packets
                            THEN <<Head(data)>> \o Lane(Tail(data), Packets)
                            ELSE Lane(Tail(data), Packets)
  BY <1>3, <1>4, LaneTail
<1>6. Collectable' = Lane(Data(queue'), Packets)
  BY DEF Collectable, Data
<1>7. Collectable' \in Seq(Packets)
  BY <1>2, <1>6, DataType, LaneType
<1>8. QED
  BY <1>3, <1>5, <1>6, <1>7, CollectableIsLane DEF data

\* The completion of the oldest transfer under way: its packet is the last.
LEMMA CompletedCollectable ==
  ASSUME IInv, OrderInv, NEW status \in Status, NEW d \in Packets \cup {NoPacket},
         [status |-> status, data |-> d] \in Transfer, Completes(status, d)
  PROVE  Collectable' = IF d \in Packets THEN Append(Collectable, d) ELSE Collectable
<1> DEFINE n == Len(queue)
           data == Data(queue)
<1>1. queue \in Seq(Transfer) /\ n \in Nat /\ DOMAIN queue = 1..n
  BY LenProperties DEF IInv, TypeOK
<1>2. PICK i \in 1..n :
        /\ queue[i].status = "posted"
        /\ queue' = [queue EXCEPT ![i] = [status |-> status, data |-> d]]
  BY <1>1 DEF Completes
<1>3. \A j \in i..n : queue[j].data = NoPacket
  <2>1. \A j \in i..n : j \in 1..n /\ queue[j].status = "posted"
    BY <1>1, <1>2 DEF OrderInv
  <2>2. \A j \in 1..n : queue[j] \in Transfer
    BY <1>1, ElementOfSeq
  <2>3. QED
    BY <2>1, <2>2 DEF Transfer
<1>4. /\ data \in Seq(Packets \cup {NoPacket}) /\ Len(data) = n
      /\ \A j \in 1..n : data[j] = queue[j].data
  BY <1>1, DataType
<1>5. /\ queue' \in Seq(Transfer) /\ Len(queue') = n
      /\ \A j \in 1..n : queue'[j] = IF j = i THEN [status |-> status, data |-> d] ELSE queue[j]
  BY <1>1, <1>2, ExceptSeq
<1>6. /\ Data(queue') \in Seq(Packets \cup {NoPacket}) /\ Len(Data(queue')) = n
      /\ \A j \in 1..n : Data(queue')[j] = IF j = i THEN d ELSE data[j]
  <2> HIDE DEF data
  <2>1. /\ Data(queue') \in Seq(Packets \cup {NoPacket}) /\ Len(Data(queue')) = n
        /\ \A j \in 1..n : Data(queue')[j] = queue'[j].data
    BY <1>5, DataType
  <2>2. QED
    BY <1>4, <1>5, <2>1
<1> DEFINE new == [data EXCEPT ![i] = d]
<1>7. /\ new \in Seq(Packets \cup {NoPacket}) /\ Len(new) = n
      /\ \A j \in 1..n : new[j] = IF j = i THEN d ELSE data[j]
  <2> HIDE DEF data
  <2>1. QED
    BY <1>4, ExceptSeq
<1>8. Data(queue') = new
  <2> HIDE DEF new, data, n
  <2>1. QED
    BY <1>6, <1>7, SeqEqual
<1>9. Collectable' = Lane(Data(queue'), Packets)
  BY DEF Collectable, Data
<1>10. \A j \in i..n : data[j] \notin Packets
  BY <1>1, <1>3, <1>4, NoPacketIsNone
<1>11. CASE d \in Packets
  <2> HIDE DEF data
  <2>1. i \in 1..Len(data) /\ \A j \in i..Len(data) : data[j] \notin Packets
    BY <1>4, <1>10
  <2>2. Lane(new, Packets) = Append(Lane(data, Packets), d)
    BY <1>4, <1>11, <2>1, LaneFilled
  <2>3. QED
    BY <1>8, <1>9, <1>11, <2>2, CollectableIsLane DEF data
<1>12. CASE d \notin Packets
  <2>1. i \in i..n
    BY <1>1
  <2> HIDE DEF data, new
  <2>2. \A j \in 1..Len(data) : new[j] = data[j] \/ (new[j] \notin Packets /\ data[j] \notin Packets)
    BY <1>4, <1>7, <1>10, <1>12, <2>1
  <2>3. Lane(new, Packets) = Lane(data, Packets)
    BY <1>4, <1>7, <2>2, LaneSame
  <2>4. QED
    BY <1>8, <1>9, <1>12, <2>3, CollectableIsLane DEF data
<1>13. QED
  BY <1>11, <1>12

-----------------------------------------------------------------------------
(* Each step is one of the stream, or leaves it alone.                     *)

LEMMA EmptyFirst ==
  ASSUME queue \in Seq(Transfer)
  PROVE  <<>> \o Collectable = Collectable
BY CollectableType, ConcatEmptySeq

\* A packet that arrives is the last of those to be delivered, until the
\* thread has cancelled its transfers.
LEMMA EndpointStreams ==
  ASSUME IInv, OrderInv, Endpoint
  PROVE  (\E p \in Packets : Stream!Arrive(p)) \/ UNCHANGED Stream!vars
<1>1. PICK status \in Status, d \in Packets \cup {NoPacket} :
        Completes(status, d) /\ [status |-> status, data |-> d] \in Transfer
  BY DEF Endpoint, Arrive, ArriveEmpty, Stall, Fail, Status, Transfer
<1>2. UNCHANGED <<rpc, held, cancelled>> /\ queue \in Seq(Transfer)
  BY <1>1 DEF Completes, IInv, TypeOK
<1>3. Collectable' = IF d \in Packets THEN Append(Collectable, d) ELSE Collectable
  BY <1>1, CompletedCollectable
<1> DEFINE first == IF rpc = "emit" THEN <<held>> ELSE <<>>
<1>4. first \in Seq(Packets)
  <2>1. rpc = "emit" => held \in Packets
    BY DEF IInv, TypeOK
  <2>2. QED
    BY <2>1, EmptySeq
<1>5. Closed' = Closed
  BY <1>2 DEF Closed
<1>6. CASE Closed
  BY <1>2, <1>5, <1>6 DEF Arrived, Stream!vars
<1>7. CASE ~Closed
  <2>1. Arrived = first \o Collectable /\ Arrived' = first \o Collectable'
    BY <1>2, <1>5, <1>7 DEF Arrived
  <2> HIDE DEF first
  <2>2. CASE d \in Packets
    <3>1. AppendsLast(first, Collectable, d)
      BY <1>2, <1>4, <2>2, CollectableType, ConcatAppend
    <3>2. Arrived' = Append(Arrived, d)
      BY <1>3, <2>1, <2>2, <3>1, Zenon DEF AppendsLast
    <3>3. Stream!Arrive(d)
      BY <1>2, <1>5, <1>7, <3>2 DEF Stream!Arrive
    <3>4. QED
      BY <2>2, <3>3
  <2>3. CASE d \notin Packets
    BY <1>2, <1>3, <1>5, <2>1, <2>3 DEF Stream!vars
  <2>4. QED
    BY <2>2, <2>3
<1>8. QED
  BY <1>6, <1>7

\* The thread that collects a completion keeps its packet at the front.
LEMMA CollectStreams ==
  ASSUME IInv, PollCompletion
  PROVE  UNCHANGED Stream!vars
<1> DEFINE d == Head(queue).data
<1>1. /\ queue \in Seq(Transfer) /\ queue # <<>> /\ queue' = Tail(queue)
      /\ rpc = "poll" /\ held' = d /\ ~cancelled /\ ~cancelled' /\ rpc' # "calling"
      /\ rpc' \in {"emit", "halt", "check"}
  BY DEF IInv, TypeOK, StopInv, PollCompletion
<1>2. Head(queue) \in Transfer
  BY <1>1, TailShorter
<1>3. rpc' = "emit" <=> d \in Packets
  BY <1>2, NoPacketIsNone DEF PollCompletion, Transfer
<1>4. /\ Collectable = IF d \in Packets THEN <<d>> \o Collectable' ELSE Collectable'
      /\ Collectable' \in Seq(Packets) /\ Collectable \in Seq(Packets)
  BY <1>1, CollectedCollectable, CollectableType
<1> HIDE DEF d
<1>5. Arrived = Collectable
  <2>1. Arrived = <<>> \o Collectable
    BY <1>1 DEF Arrived, Closed
  <2>2. QED
    BY <1>4, <2>1, ConcatEmptySeq
<1>6. Arrived' = (IF d \in Packets THEN <<d>> ELSE <<>>) \o Collectable'
  BY <1>1, <1>3 DEF Arrived, Closed
<1>7. Arrived' = Collectable
  BY <1>4, <1>6, ConcatEmptySeq
<1>8. Closed' = Closed
  BY <1>1 DEF Closed
<1>9. QED
  BY <1>1, <1>5, <1>7, <1>8 DEF Stream!vars

\* The packet handed over is the oldest one.
LEMMA EmitStreams ==
  ASSUME IInv, Emit
  PROVE  Stream!Deliver
<1>1. /\ queue \in Seq(Transfer) /\ held \in Packets /\ ~cancelled
      /\ rpc = "emit" /\ rpc' = "calling" /\ UNCHANGED <<queue, held, cancelled>>
  BY DEF IInv, TypeOK, StopInv, Emit
<1>2. /\ Arrived = <<held>> \o Collectable /\ Arrived' = <<>> \o Collectable'
      /\ Collectable' = Collectable
  BY <1>1 DEF Arrived, Closed, Collectable
<1>3. <<held>> \in Seq(Packets) /\ <<held>> # <<>> /\ Head(<<held>>) = held /\ Tail(<<held>>) = <<>>
  BY <1>1
<1>4. LosesHead(<<held>>, Collectable)
  BY <1>1, <1>3, CollectableType, TailConcat
<1>5. Arrived # <<>> /\ Head(Arrived) = held /\ Arrived' = Tail(Arrived)
  BY <1>2, <1>3, <1>4, Zenon DEF LosesHead
<1>6. Closed' = Closed
  BY <1>1 DEF Closed
<1>7. QED
  BY <1>1, <1>5, <1>6 DEF Stream!Deliver

\* The packet handler returns; the thread acts on the stop flag.
LEMMA ReturnOrCancelStreams ==
  ASSUME IInv, HandlerReturns \/ CancelAll
  PROVE  Stream!HandlerReturns \/ Stream!Close
<1>1. /\ ~cancelled /\ queue' = queue /\ rpc' \notin {"emit", "calling", "exited"}
      /\ rpc \notin {"emit", "exited"}
  BY DEF IInv, StopInv, HandlerReturns, CancelAll
<1>2. Collectable' = Collectable
  BY <1>1 DEF Collectable
<1>3. CASE HandlerReturns
  <2>1. rpc = "calling" /\ held # NoPacket /\ ~cancelled'
    BY <1>1, <1>3, NoPacketIsNone DEF HandlerReturns, IInv, TypeOK
  <2>2. Arrived' = Arrived /\ Closed' = Closed
    BY <1>1, <1>2, <2>1 DEF Arrived, Closed
  <2>3. Stream!HandlerReturns
    BY <1>1, <2>1, <2>2 DEF Stream!HandlerReturns
  <2>4. QED
    BY <2>3
<1>4. CASE CancelAll
  <2>1. ~Closed /\ Closed' /\ rpc = "check" /\ rpc' = "drain"
    BY <1>1, <1>4 DEF CancelAll, Closed
  <2>2. Arrived' = <<>>
    BY <2>1 DEF Arrived
  <2>3. Stream!Close
    BY <2>1, <2>2 DEF Stream!Close
  <2>4. QED
    BY <2>3
<1>5. QED
  BY <1>3, <1>4

\* The other steps of the thread.
LEMMA ControlStreams ==
  ASSUME IInv, OrderInv,
         \/ Start \/ Resubmit \/ Drain \/ DrainEnd \/ Exit \/ RaiseStop
         \/ \E done \in BOOLEAN : ClearHalt(done)
  PROVE  UNCHANGED Stream!vars
<1>1. queue \in Seq(Transfer)
  BY DEF IInv, TypeOK
<1>2. CASE Drain \/ DrainEnd \/ Exit
  <2>1. cancelled /\ cancelled' /\ rpc # "calling" /\ rpc' # "calling"
    BY <1>1, <1>2, EmptySeq, InFlightPositive DEF Drain, DrainEnd, Exit, IInv, StopInv, RingComplete
  <2>2. QED
    BY <2>1 DEF Stream!vars, Arrived, Closed
<1>3. CASE Start
  <2>1. /\ queue = <<>> /\ rpc = "start" /\ rpc' = "poll" /\ InFlight \in Nat
        /\ queue' = [i \in 1..InFlight |-> Posted] /\ UNCHANGED <<held, cancelled>>
    BY <1>3, InFlightPositive DEF Start, OrderInv
  <2>2. Posted \in Transfer /\ Posted.data = NoPacket
    BY DEF Posted, Transfer, Status
  <2>3. queue' \in Seq(Transfer) /\ \A i \in 1..Len(queue') : queue'[i].data = NoPacket
    <3>1. queue' \in [1..InFlight -> Transfer]
      BY <2>1, <2>2
    <3>2. queue' \in Seq(Transfer) /\ Len(queue') = InFlight
      BY <2>1, <3>1
    <3>3. QED
      BY <2>1, <2>2, <3>2
  <2>4. Lane(Data(queue'), Packets) = <<>>
    BY <2>3, NoneCollectable
  <2>5. \A i \in 1..Len(queue) : queue[i].data = NoPacket
    BY <2>1
  <2>6. Lane(Data(queue), Packets) = <<>>
    BY <1>1, <2>5, NoneCollectable
  <2>7. Collectable' = Collectable
    <3>1. Collectable' = Lane(Data(queue'), Packets)
      BY DEF Collectable, Data
    <3>2. QED
      BY <2>4, <2>6, <3>1, CollectableIsLane
  <2>8. QED
    BY <2>1, <2>7 DEF Stream!vars, Arrived, Closed
<1>4. CASE Resubmit
  <2>1. Collectable' = Collectable
    BY <1>1, <1>4, SubmittedCollectable DEF Resubmit
  <2>2. rpc = "check" /\ rpc' = "poll" /\ UNCHANGED <<held, cancelled>>
    BY <1>4 DEF Resubmit
  <2>3. QED
    BY <2>1, <2>2 DEF Stream!vars, Arrived, Closed
<1>5. CASE RaiseStop \/ \E done \in BOOLEAN : ClearHalt(done)
  <2>1. /\ UNCHANGED <<queue, held, cancelled>>
        /\ rpc' = rpc \/ (rpc = "halt" /\ rpc' = "check")
    BY <1>5 DEF RaiseStop, ClearHalt
  <2>2. Collectable' = Collectable
    BY <2>1 DEF Collectable
  <2>3. QED
    BY <2>1, <2>2 DEF Stream!vars, Arrived, Closed
<1>6. QED
  BY <1>2, <1>3, <1>4, <1>5

\* The ring of transfers implements a stream of packets, for any number of
\* buffers: each packet reaches the handler once and in order, through
\* stalls, errors and empty transfers, until the thread acts on the stop
\* flag; afterwards none does (io.rs:34-55).
THEOREM StreamImplemented == Spec => StreamSpec
<1>1. Init => OrderInv /\ Stream!Init
  <2> SUFFICES ASSUME Init PROVE OrderInv /\ Stream!Init
    OBVIOUS
  <2>1. queue \in Seq(Transfer) /\ queue = <<>> /\ Len(queue) = 0
    BY EmptySeq DEF Init
  <2>2. OrderInv
    BY <2>1 DEF OrderInv
  <2>3. Collectable = <<>>
    <3>1. \A i \in 1..Len(queue) : queue[i].data = NoPacket
      BY <2>1
    <3>2. QED
      BY <2>1, <3>1, NoneCollectable, CollectableIsLane
  <2>4. <<>> \o Collectable = Collectable
    BY <2>1, EmptyFirst
  <2>5. Arrived = <<>>
    BY <2>3, <2>4 DEF Init, Arrived, Closed
  <2>6. QED
    BY <2>2, <2>5 DEF Init, Stream!Init, Closed
<1>2. IInv /\ OrderInv /\ [Next]_vars => OrderInv'
  BY OrderInvStep
<1>3. IInv /\ OrderInv /\ [Next]_vars => [Stream!Next]_(Stream!vars)
  <2> SUFFICES ASSUME IInv, OrderInv, [Next]_vars PROVE [Stream!Next]_(Stream!vars)
    OBVIOUS
  <2>1. CASE Endpoint
    BY <2>1, EndpointStreams DEF Stream!Next
  <2>2. CASE PollCompletion
    BY <2>2, CollectStreams
  <2>3. CASE Emit
    BY <2>3, EmitStreams DEF Stream!Next
  <2>4. CASE HandlerReturns \/ CancelAll
    BY <2>4, ReturnOrCancelStreams DEF Stream!Next
  <2>5. CASE \/ Start \/ Resubmit \/ Drain \/ DrainEnd \/ Exit \/ RaiseStop
             \/ \E done \in BOOLEAN : ClearHalt(done)
    BY <2>5, ControlStreams
  <2>6. CASE UNCHANGED vars
    BY <2>6 DEF vars, Stream!vars, Arrived, Closed, Collectable
  <2>7. QED
    BY <2>1, <2>2, <2>3, <2>4, <2>5, <2>6 DEF Next, ReaderStep
<1>4. QED
  BY <1>1, <1>2, <1>3, Inductive, PTL DEF Spec, StreamSpec, Stream!Spec
=============================================================================
