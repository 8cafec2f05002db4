------------------------ MODULE OutgoingQueueProofs ------------------------
(***************************************************************************)
(* Proofs about OutgoingQueue, for any finite set of callers, any packets  *)
(* and any queue depth.                                                    *)
(***************************************************************************)
EXTENDS OutgoingQueue, FiniteSetTheorems, LanesProofs

\* What ties the places of the writer and of the callers to the rest.
WriterInv ==
  /\ wpc = "command" <=> command # NoPacket
  /\ wpc = "recv" => inFlightOut < AclOutInFlight
  /\ wpc = "exited" => channel = <<>>
  /\ wpc # "exited" => leaked = 0

CallerInv ==
  \A c \in Callers :
    /\ spc[c] # "idle" => packet[c] \in Packets
    /\ spc[c] = "push" => packet[c] \in CommandPackets \cup BulkPackets

\* The inductive invariant.
IInv ==
  /\ TypeOK
  /\ SlotAccounting
  /\ TransfersCounted
  /\ WriterInv
  /\ CallerInv

-----------------------------------------------------------------------------
(* The set of holders.                                                     *)

CallerPlace == {"idle", "load", "cas", "push", "undo"}

LEMMA HoldersFinite ==
  /\ IsFiniteSet(Holders)
  /\ Cardinality(Holders) \in Nat
<1>1. IsFiniteSet(Holders)
  BY CallersFinite, FS_Subset DEF Holders
<1>2. QED
  BY <1>1, FS_CardinalityType

\* A caller that takes a slot joins the holders.
LEMMA HolderJoins ==
  ASSUME spc \in [Callers -> CallerPlace], NEW c \in Callers, NEW s \in {"push", "undo"},
         spc[c] \notin {"push", "undo"}, spc' = [spc EXCEPT ![c] = s]
  PROVE  Cardinality(Holders') = Cardinality(Holders) + 1
<1>1. Holders' = Holders \cup {c} /\ c \notin Holders
  BY DEF Holders, CallerPlace
<1>2. QED
  BY <1>1, HoldersFinite, FS_AddElement

\* A caller that passes its slot on, or gives it back, leaves them.
LEMMA HolderLeaves ==
  ASSUME spc \in [Callers -> CallerPlace], NEW c \in Callers,
         spc[c] \in {"push", "undo"}, spc' = [spc EXCEPT ![c] = "idle"]
  PROVE  /\ Cardinality(Holders') = Cardinality(Holders) - 1
         /\ Cardinality(Holders) > 0
<1>1. Holders' = Holders \ {c} /\ c \in Holders
  BY DEF Holders, CallerPlace
<1>2. Cardinality(Holders') = Cardinality(Holders) - 1
  BY <1>1, HoldersFinite, FS_RemoveElement
<1>3. Cardinality(Holders) # 0
  BY <1>1, HoldersFinite, FS_EmptySet
<1>4. QED
  BY <1>2, <1>3, HoldersFinite

\* A caller that neither takes nor releases a slot.
LEMMA HoldersStay ==
  ASSUME spc \in [Callers -> CallerPlace], NEW c \in Callers, NEW s \in CallerPlace,
         spc[c] \in {"push", "undo"} <=> s \in {"push", "undo"},
         spc' = [spc EXCEPT ![c] = s]
  PROVE  Holders' = Holders
BY DEF Holders, CallerPlace

-----------------------------------------------------------------------------
LEMMA InitIInv == Init => IInv
<1> SUFFICES ASSUME Init PROVE IInv
  OBVIOUS
<1>1. TypeOK
  <2>1. 0 \in 0..QueueDepth /\ 0 \in 0..AclOutInFlight
    BY DepthPositive, InFlightPositive
  <2>2. channel \in Seq(CommandPackets \cup BulkPackets) /\ aclOutQueue \in Seq(Transfer)
    BY DEF Init
  <2>3. QED
    BY <2>1, <2>2 DEF Init, TypeOK
<1>2. Holders = {}
  BY DEF Init, Holders
<1>3. SlotAccounting
  BY <1>2, FS_EmptySet DEF Init, SlotAccounting
<1>4. TransfersCounted /\ WriterInv /\ CallerInv
  BY DEF Init, TransfersCounted, WriterInv, CallerInv
<1>5. QED
  BY <1>1, <1>3, <1>4 DEF IInv

LEMMA CallerStepIInv ==
  ASSUME IInv, NEW c \in Callers, CallerStep(c)
  PROVE  IInv'
<1> USE DepthPositive, InFlightPositive DEF shared, writer
<1>0. /\ TypeOK /\ SlotAccounting /\ TransfersCounted /\ WriterInv /\ CallerInv
      /\ spc \in [Callers -> CallerPlace]
      /\ Cardinality(Holders) \in Nat
      /\ Len(channel) \in Nat
  BY HoldersFinite DEF IInv, TypeOK, CallerPlace
<1>1. CASE ReserveLoad(c)
  <2>1. Holders' = Holders
    BY <1>0, <1>1, HoldersStay DEF CallerPlace, ReserveLoad
  <2>2. QED
    BY <1>0, <1>1, <2>1 DEF ReserveLoad, IInv, TypeOK, SlotAccounting,
      TransfersCounted, WriterInv, CallerInv
<1>2. CASE ReserveFull(c)
  <2>1. Holders' = Holders
    BY <1>0, <1>2, HoldersStay DEF CallerPlace, ReserveFull, Return
  <2>2. QED
    BY <1>0, <1>2, <2>1 DEF ReserveFull, Return, IInv, TypeOK, SlotAccounting,
      TransfersCounted, WriterInv, CallerInv
<1>3. CASE ReserveOk(c)
  <2>1. Cardinality(Holders') = Cardinality(Holders) + 1
    BY <1>0, <1>3, HolderJoins DEF CallerPlace, ReserveOk
  <2>2. TypeOK'
    BY <1>0, <1>3 DEF ReserveOk, TypeOK
  <2>3. SlotAccounting'
    <3>1. /\ outgoingPending' = outgoingPending + 1
          /\ UNCHANGED <<channel, command, inFlightOut, leaked>>
      BY <1>3 DEF ReserveOk
    <3>2. /\ outgoingPending \in Nat /\ Len(channel) \in Nat
          /\ inFlightOut \in Nat /\ leaked \in Nat
      BY <1>0 DEF TypeOK
    <3>3. QED
      BY <1>0, <2>1, <3>1, <3>2 DEF SlotAccounting
  <2>4. CallerInv'
    BY <1>0, <1>3 DEF ReserveOk, TypeOK, CallerInv, Packets
  <2>5. QED
    BY <1>0, <1>3, <2>2, <2>3, <2>4 DEF ReserveOk, IInv, TransfersCounted, WriterInv
<1>4. CASE ReserveRetry(c)
  BY <1>0, <1>4 DEF ReserveRetry, IInv, TypeOK, SlotAccounting, Holders,
    TransfersCounted, WriterInv, CallerInv
<1>5. CASE Push(c)
  <2>1. Cardinality(Holders') = Cardinality(Holders) - 1
    BY <1>0, <1>5, HolderLeaves DEF CallerPlace, Push, Return
  <2>2. /\ channel' \in Seq(CommandPackets \cup BulkPackets)
        /\ Len(channel') = Len(channel) + 1
    BY <1>0, <1>5 DEF Push, TypeOK, CallerInv
  <2>3. TypeOK'
    BY <1>0, <1>5, <2>2 DEF Push, Return, TypeOK
  <2>4. SlotAccounting'
    <3>1. UNCHANGED <<outgoingPending, command, inFlightOut, leaked>>
      BY <1>5 DEF Push
    <3>2. /\ outgoingPending \in Nat /\ Len(channel) \in Nat
          /\ inFlightOut \in Nat /\ leaked \in Nat
      BY <1>0 DEF TypeOK
    <3>3. QED
      BY <1>0, <2>1, <2>2, <3>1, <3>2 DEF SlotAccounting
  <2>5. CallerInv'
    BY <1>0, <1>5 DEF Push, Return, TypeOK, CallerInv
  <2>6. QED
    BY <1>0, <1>5, <2>3, <2>4, <2>5 DEF Push, IInv, TransfersCounted, WriterInv
<1>6. CASE PushRefused(c)
  <2>1. Holders' = Holders
    BY <1>0, <1>6, HoldersStay DEF CallerPlace, PushRefused
  <2>2. QED
    BY <1>0, <1>6, <2>1 DEF PushRefused, IInv, TypeOK, SlotAccounting,
      TransfersCounted, WriterInv, CallerInv
<1>7. CASE Undo(c)
  <2>1. /\ Cardinality(Holders') = Cardinality(Holders) - 1
        /\ Cardinality(Holders) > 0
    BY <1>0, <1>7, HolderLeaves DEF CallerPlace, Undo, Return
  <2>2. outgoingPending > 0
    BY <1>0, <2>1 DEF SlotAccounting, TypeOK
  <2>3. TypeOK'
    BY <1>0, <1>7, <2>2 DEF Undo, Return, TypeOK
  <2>4. SlotAccounting'
    <3>1. /\ outgoingPending' = outgoingPending - 1
          /\ UNCHANGED <<channel, command, inFlightOut, leaked>>
      BY <1>7 DEF Undo
    <3>2. /\ outgoingPending \in Nat /\ Len(channel) \in Nat
          /\ inFlightOut \in Nat /\ leaked \in Nat
      BY <1>0 DEF TypeOK
    <3>3. QED
      BY <1>0, <2>1, <3>1, <3>2 DEF SlotAccounting
  <2>5. CallerInv'
    BY <1>0, <1>7 DEF Undo, Return, TypeOK, CallerInv
  <2>6. QED
    BY <1>0, <1>7, <2>3, <2>4, <2>5 DEF Undo, IInv, TransfersCounted, WriterInv
<1>8. QED
  BY <1>1, <1>2, <1>3, <1>4, <1>5, <1>6, <1>7 DEF CallerStep

LEMMA CallStartIInv ==
  ASSUME IInv, NEW c \in Callers,
         CanSendPacketNow(c) \/ \E p \in Packets : SendPacket(c, p)
  PROVE  IInv'
<1> USE DEF shared, writer
<1>0. /\ TypeOK /\ SlotAccounting /\ TransfersCounted /\ WriterInv /\ CallerInv
      /\ spc \in [Callers -> CallerPlace]
  BY DEF IInv, TypeOK, CallerPlace
<1>1. CASE CanSendPacketNow(c)
  <2>1. Holders' = Holders
    BY <1>1 DEF CanSendPacketNow, Holders
  <2>2. QED
    BY <1>0, <1>1, <2>1 DEF CanSendPacketNow, IInv, TypeOK, SlotAccounting,
      TransfersCounted, WriterInv, CallerInv
<1>2. ASSUME NEW p \in Packets, SendPacket(c, p) PROVE IInv'
  <2>1. Holders' = Holders
    BY <1>0, <1>2, HoldersStay DEF CallerPlace, SendPacket, MayCall
  <2>2. TypeOK' /\ CallerInv'
    BY <1>0, <1>2 DEF SendPacket, TypeOK, CallerInv
  <2>3. QED
    BY <1>0, <1>2, <2>1, <2>2 DEF SendPacket, IInv, SlotAccounting,
      TransfersCounted, WriterInv
<1>3. QED
  BY <1>1, <1>2

-----------------------------------------------------------------------------
(* The writer, the transfers and transport_close leave the callers alone.  *)

LEMMA SameCallers ==
  ASSUME IInv, UNCHANGED <<spc, packet>>
  PROVE  Holders' = Holders /\ CallerInv'
BY DEF IInv, CallerInv, Holders

\* The steps that neither receive, nor collect, nor end the thread.
LEMMA ControlStepIInv ==
  ASSUME IInv,
         \/ WriterTop \/ RecvTimeout \/ WriterCheckStop \/ WriterGoOn
         \/ PollNothing \/ NotifyReturn \/ CloseTake \/ CloseStop
  PROVE  IInv'
<1> USE DEF shared, caller
<1>1. /\ TypeOK /\ SlotAccounting /\ TransfersCounted /\ WriterInv
      /\ Holders' = Holders /\ CallerInv'
  BY SameCallers DEF IInv, WriterTop, RecvTimeout, WriterCheckStop, WriterGoOn,
    PollNothing, NotifyReturn, CloseTake, CloseStop, writer
<1>2. /\ UNCHANGED <<outgoingPending, channel, leaked, command, aclOutQueue, inFlightOut,
                     spc, packet, current, grant>>
      /\ active' \in BOOLEAN /\ stop' \in BOOLEAN /\ cancelled' \in BOOLEAN
      /\ wpc' \in {"top", "recv", "check", "idle", "poll"} \/ wpc' = wpc
      /\ wpc' = "poll" => inFlightOut > 0 \/ wpc = "poll"
      /\ wpc' = "recv" => inFlightOut < AclOutInFlight \/ wpc = "recv"
      /\ wpc' # wpc => wpc \notin {"command", "exited"}
  BY <1>1 DEF TypeOK, WriterTop, RecvTimeout, WriterCheckStop, WriterGoOn,
    PollNothing, NotifyReturn, CloseTake, CloseStop, writer
<1>3. TypeOK' /\ SlotAccounting'
  BY <1>1, <1>2 DEF TypeOK, SlotAccounting
<1>4. TransfersCounted'
  <2>1. inFlightOut > 0 => aclOutQueue # <<>>
    BY <1>1, EmptySeq DEF TransfersCounted
  <2>2. QED
    BY <1>1, <1>2, <2>1 DEF TransfersCounted
<1>5. WriterInv'
  BY <1>1, <1>2 DEF WriterInv
<1>6. QED
  BY <1>1, <1>3, <1>4, <1>5 DEF IInv

LEMMA ReceiveIInv ==
  ASSUME IInv, RecvCommand \/ RecvBulk
  PROVE  IInv'
<1> USE DEF shared, caller
<1>1. /\ TypeOK /\ SlotAccounting /\ TransfersCounted /\ WriterInv
      /\ Holders' = Holders /\ CallerInv'
      /\ Cardinality(Holders) \in Nat
  BY SameCallers, HoldersFinite DEF IInv, RecvCommand, RecvBulk
<1>2. /\ channel' \in Seq(CommandPackets \cup BulkPackets)
      /\ Len(channel') = Len(channel) - 1
      /\ Len(channel) \in Nat \ {0}
      /\ wpc = "recv" /\ command = NoPacket
      /\ inFlightOut < AclOutInFlight
  BY <1>1, TailShorter DEF RecvCommand, RecvBulk, TypeOK, WriterInv
<1>3. CASE RecvCommand
  <2>1. command' # NoPacket
    BY <1>3, PacketKindsDisjoint DEF RecvCommand, Packets
  <2>2. TypeOK'
    BY <1>1, <1>2, <1>3 DEF RecvCommand, TypeOK
  <2>3. SlotAccounting'
    BY <1>1, <1>2, <1>3, <2>1 DEF RecvCommand, TypeOK, SlotAccounting
  <2>4. TransfersCounted' /\ WriterInv'
    BY <1>1, <1>3, <2>1 DEF RecvCommand, TransfersCounted, WriterInv
  <2>5. QED
    BY <1>1, <2>2, <2>3, <2>4 DEF IInv
<1>4. CASE RecvBulk
  <2>1. [packet |-> Head(channel), status |-> "posted"] \in Transfer
    BY <1>4 DEF RecvBulk, Transfer
  <2>2. aclOutQueue' \in Seq(Transfer) /\ Len(aclOutQueue') = Len(aclOutQueue) + 1
    BY <1>1, <1>4, <2>1, AppendProperties DEF RecvBulk, TypeOK
  <2>3. inFlightOut' \in 0..AclOutInFlight
    BY <1>1, <1>2, <1>4, InFlightPositive DEF RecvBulk, TypeOK
  <2>4. TypeOK'
    BY <1>1, <1>2, <1>4, <2>2, <2>3 DEF RecvBulk, TypeOK
  <2>5. SlotAccounting'
    BY <1>1, <1>2, <1>4 DEF RecvBulk, TypeOK, SlotAccounting
  <2>6. TransfersCounted' /\ WriterInv'
    BY <1>1, <1>4, <2>2 DEF RecvBulk, TypeOK, TransfersCounted, WriterInv
  <2>7. QED
    BY <1>1, <2>4, <2>5, <2>6 DEF IInv
<1>5. QED
  BY <1>3, <1>4

\* The steps that give a slot back.
LEMMA CompletionIInv ==
  ASSUME IInv, PollCompletion \/ \E ok \in BOOLEAN : CommandEnds(ok)
  PROVE  IInv'
<1> USE DEF shared
<1>1. /\ TypeOK /\ SlotAccounting /\ TransfersCounted /\ WriterInv
      /\ Holders' = Holders /\ CallerInv'
      /\ Cardinality(Holders) \in Nat /\ Len(channel) \in Nat
  BY SameCallers, HoldersFinite DEF IInv, TypeOK, PollCompletion, CommandEnds
<1>2. /\ wpc' \in {"top", "notify"}
      /\ grant' \in [Callers -> {"none", "yes", "no"}]
  BY <1>1 DEF PollCompletion, CommandEnds, Emit, TypeOK
<1>3. CASE PollCompletion
  <2>1. /\ aclOutQueue' \in Seq(Transfer)
        /\ Len(aclOutQueue') = Len(aclOutQueue) - 1
        /\ Len(aclOutQueue) \in Nat \ {0}
        /\ inFlightOut = Len(aclOutQueue)
    BY <1>1, <1>3, TailShorter DEF PollCompletion, TypeOK, TransfersCounted
  <2>2. outgoingPending > 0 /\ inFlightOut > 0 /\ command = NoPacket
    BY <1>1, <1>3, <2>1 DEF SlotAccounting, TypeOK, PollCompletion, WriterInv
  <2>3. /\ outgoingPending' \in 0..QueueDepth
        /\ inFlightOut' \in 0..AclOutInFlight
    BY <1>1, <1>3, <2>2, DepthPositive, InFlightPositive DEF TypeOK, PollCompletion
  <2>4. TypeOK'
    BY <1>1, <1>2, <1>3, <2>1, <2>3 DEF PollCompletion, TypeOK
  <2>5. SlotAccounting'
    BY <1>1, <1>3, <2>2 DEF PollCompletion, TypeOK, SlotAccounting
  <2>6. TransfersCounted' /\ WriterInv'
    BY <1>1, <1>2, <1>3, <2>1, <2>2 DEF PollCompletion, TransfersCounted, WriterInv
  <2>7. QED
    BY <1>1, <2>4, <2>5, <2>6 DEF IInv
<1>4. ASSUME NEW ok \in BOOLEAN, CommandEnds(ok) PROVE IInv'
  <2>1. outgoingPending > 0 /\ command # NoPacket
    BY <1>1, <1>4 DEF SlotAccounting, TypeOK, CommandEnds, WriterInv
  <2>2. outgoingPending' \in 0..QueueDepth
    BY <1>1, <1>4, <2>1, DepthPositive DEF TypeOK, CommandEnds
  <2>3. TypeOK'
    BY <1>1, <1>2, <1>4, <2>2 DEF CommandEnds, TypeOK
  <2>4. SlotAccounting'
    BY <1>1, <1>4, <2>1 DEF CommandEnds, TypeOK, SlotAccounting
  <2>5. TransfersCounted' /\ WriterInv'
    BY <1>1, <1>2, <1>4 DEF CommandEnds, TransfersCounted, WriterInv
  <2>6. QED
    BY <1>1, <2>3, <2>4, <2>5 DEF IInv
<1>5. QED
  BY <1>3, <1>4

LEMMA WriterExitIInv ==
  ASSUME IInv, WriterExit
  PROVE  IInv'
<1> USE DEF shared, caller
<1>1. /\ TypeOK /\ SlotAccounting /\ TransfersCounted /\ WriterInv
      /\ Holders' = Holders /\ CallerInv'
      /\ Cardinality(Holders) \in Nat /\ Len(channel) \in Nat
  BY SameCallers, HoldersFinite DEF IInv, TypeOK, WriterExit
<1>2. leaked = 0 /\ command = NoPacket /\ inFlightOut = 0
  BY <1>1 DEF WriterInv, WriterExit
<1>3. leaked' \in 0..QueueDepth
  BY <1>1, <1>2, DepthPositive DEF WriterExit, SlotAccounting, TypeOK
<1>4. channel' \in Seq(CommandPackets \cup BulkPackets) /\ Len(channel') = 0
  BY EmptySeq DEF WriterExit
<1>5. TypeOK'
  BY <1>1, <1>3, <1>4 DEF WriterExit, TypeOK
<1>6. SlotAccounting'
  BY <1>1, <1>2, <1>4 DEF WriterExit, SlotAccounting, TypeOK
<1>7. TransfersCounted' /\ WriterInv'
  BY <1>1, <1>2 DEF WriterExit, TransfersCounted, WriterInv
<1>8. QED
  BY <1>1, <1>5, <1>6, <1>7 DEF IInv

LEMMA TransferEndsIInv ==
  ASSUME IInv, NEW status \in {"ok", "stall", "error"}, TransferEnds(status)
  PROVE  IInv'
<1> USE DEF shared, caller
<1>1. /\ TypeOK /\ SlotAccounting /\ TransfersCounted /\ WriterInv
      /\ Holders' = Holders /\ CallerInv'
  BY SameCallers DEF IInv, TransferEnds
<1>2. aclOutQueue' \in Seq(Transfer) /\ Len(aclOutQueue') = Len(aclOutQueue)
  <2>1. PICK i \in DOMAIN aclOutQueue :
          aclOutQueue' = [aclOutQueue EXCEPT ![i].status = status]
    BY DEF TransferEnds
  <2>2. aclOutQueue' = [aclOutQueue EXCEPT ![i] = [aclOutQueue[i] EXCEPT !.status = status]]
    BY <2>1
  <2>3. [aclOutQueue[i] EXCEPT !.status = status] \in Transfer
    <3>1. aclOutQueue[i] \in Transfer
      BY <1>1, ElementOfSeq, LenProperties DEF TypeOK
    <3>2. QED
      BY <3>1 DEF Transfer
  <2>4. QED
    BY <1>1, <2>2, <2>3, ExceptSeq DEF TypeOK
<1>3. TypeOK' /\ SlotAccounting'
  BY <1>1, <1>2 DEF TransferEnds, TypeOK, SlotAccounting
<1>4. TransfersCounted'
  BY <1>1, <1>2, EmptySeq DEF TransferEnds, TransfersCounted, TypeOK
<1>5. WriterInv'
  BY <1>1 DEF TransferEnds, WriterInv
<1>6. QED
  BY <1>1, <1>3, <1>4, <1>5 DEF IInv

-----------------------------------------------------------------------------
LEMMA NextIInv == IInv /\ [Next]_vars => IInv'
<1> SUFFICES ASSUME IInv, [Next]_vars PROVE IInv'
  OBVIOUS
<1>1. CASE Next
  <2>1. ASSUME NEW c \in Callers,
               CanSendPacketNow(c) \/ (\E p \in Packets : SendPacket(c, p)) \/ CallerStep(c)
        PROVE  IInv'
    BY <2>1, CallStartIInv, CallerStepIInv
  <2>2. CASE CloseTake \/ CloseStop \/ NotifyReturn
    BY <2>2, ControlStepIInv
  <2>3. CASE WriterStep
    BY <2>3, ControlStepIInv, ReceiveIInv, CompletionIInv, WriterExitIInv DEF WriterStep
  <2>4. CASE \E ok \in BOOLEAN : CommandEnds(ok)
    BY <2>4, CompletionIInv
  <2>5. CASE \E status \in {"ok", "stall", "error"} : TransferEnds(status)
    BY <2>5, TransferEndsIInv
  <2>6. QED
    BY <1>1, <2>1, <2>2, <2>3, <2>4, <2>5 DEF Next
<1>2. CASE UNCHANGED vars
  BY <1>2 DEF vars, IInv, TypeOK, SlotAccounting, Holders, TransfersCounted,
    WriterInv, CallerInv
<1>3. QED
  BY <1>1, <1>2

THEOREM Inductive == Spec => []IInv
BY InitIInv, NextIInv, PTL DEF Spec

-----------------------------------------------------------------------------
(* What follows from the invariant.                                        *)

\* Type correctness: in particular outgoing_pending stays within 0..depth
\* (io.rs:127,152; lib.rs:227,235) and in_flight_out within its bound.
THEOREM TypeCorrect == Spec => []TypeOK
<1>1. IInv => TypeOK
  BY DEF IInv
<1>2. QED
  BY <1>1, Inductive, PTL

\* Every slot is counted exactly once, for any number of calling threads.
THEOREM SlotsAccounted == Spec => []SlotAccounting
<1>1. IInv => SlotAccounting
  BY DEF IInv
<1>2. QED
  BY <1>1, Inductive, PTL

\* in_flight_out is the length of the bulk queue.
THEOREM TransfersAreCounted == Spec => []TransfersCounted
<1>1. IInv => TransfersCounted
  BY DEF IInv
<1>2. QED
  BY <1>1, Inductive, PTL

\* try_send finds room for every packet whose slot was reserved: a holder
\* accounts for one of at most QueueDepth slots, so the channel for fewer.
THEOREM ReservationIsRoom == Spec => []ReservedMeansRoom
<1>1. ASSUME IInv, NEW c \in Callers, spc[c] = "push" PROVE Len(channel) < QueueDepth
  <2>1. Cardinality(Holders) \in Nat /\ Cardinality(Holders) # 0
    <3>1. c \in Holders
      BY <1>1 DEF Holders
    <3>2. QED
      BY <3>1, HoldersFinite, FS_EmptySet
  <2>2. Len(channel) \in Nat
    BY <1>1 DEF IInv, TypeOK
  <2>3. QED
    BY <1>1, <2>1, <2>2, DepthPositive DEF IInv, TypeOK, SlotAccounting
<1>2. IInv => ReservedMeansRoom
  BY <1>1 DEF ReservedMeansRoom
<1>3. QED
  BY <1>2, Inductive, PTL

\* No command waits behind a bulk queue that is full, as long as the channel
\* is no deeper than the bulk queue (constants.rs:9,13).
THEOREM CommandsNotBlocked ==
  ASSUME QueueDepth <= AclOutInFlight
  PROVE  Spec => []NoHeadOfLineBlocking
<1>1. ASSUME IInv, inFlightOut = AclOutInFlight PROVE channel = <<>>
  <2>1. Cardinality(Holders) \in Nat /\ Len(channel) \in Nat
    BY <1>1, HoldersFinite DEF IInv, TypeOK
  <2>2. Len(channel) = 0
    BY <1>1, <2>1, DepthPositive, InFlightPositive DEF IInv, TypeOK, SlotAccounting
  <2>3. QED
    BY <1>1, <2>2, EmptySeq DEF IInv, TypeOK
<1>2. IInv => NoHeadOfLineBlocking
  BY <1>1 DEF NoHeadOfLineBlocking
<1>3. QED
  BY <1>2, Inductive, PTL

\* The writer implements the worker that transport_open starts and
\* transport_close joins.
THEOREM WriterIsWorker == Spec => WorkerSpec
<1>1. Init => Worker!Init
  BY DEF Init, Worker!Init
<1>2. IInv /\ [Next]_vars => [Worker!Next]_(Worker!vars)
  <2> SUFFICES ASSUME IInv, [Next]_vars PROVE [Worker!Next]_(Worker!vars)
    OBVIOUS
  <2> USE DEF Worker!Next, Worker!vars, shared, caller, writer
  <2>1. CASE PollCompletion \/ \E ok \in BOOLEAN : CommandEnds(ok)
    BY <2>1 DEF PollCompletion, CommandEnds, Emit, Worker!Call
  <2>2. CASE NotifyReturn
    BY <2>2 DEF NotifyReturn, Worker!Return
  <2>3. CASE CloseStop
    BY <2>3 DEF CloseStop, Worker!RaiseStop
  <2>4. CASE WriterExit
    BY <2>4 DEF WriterExit, Worker!Exit
  <2>5. CASE \/ WriterTop \/ RecvCommand \/ RecvBulk \/ RecvTimeout \/ WriterCheckStop
             \/ WriterGoOn \/ PollNothing \/ CloseTake
             \/ \E status \in {"ok", "stall", "error"} : TransferEnds(status)
    BY <2>5 DEF WriterTop, RecvCommand, RecvBulk, RecvTimeout, WriterCheckStop,
      WriterGoOn, PollNothing, CloseTake, TransferEnds
  <2>6. ASSUME NEW c \in Callers,
               CanSendPacketNow(c) \/ (\E p \in Packets : SendPacket(c, p)) \/ CallerStep(c)
        PROVE  UNCHANGED <<wpc, stop>>
    BY <2>6 DEF CanSendPacketNow, SendPacket, CallerStep, ReserveLoad, ReserveFull,
      ReserveOk, ReserveRetry, Push, PushRefused, Undo
  <2>7. CASE UNCHANGED vars
    BY <2>7 DEF vars
  <2>8. QED
    BY <2>1, <2>2, <2>3, <2>4, <2>5, <2>6, <2>7 DEF Next, WriterStep
<1>3. QED
  BY <1>1, <1>2, Inductive, PTL DEF Spec, WorkerSpec, Worker!Spec

-----------------------------------------------------------------------------
(* The service: the threads, the channel and the transfers implement the   *)
(* slot pool and the two lanes of SendService.                             *)

\* The packets that bulk transfers carry.
Carried(queue) == [i \in DOMAIN queue |-> queue[i].packet]

PacketOf == [transfer \in Transfer |-> transfer.packet]

LEMMA CarriedIsMapped ==
  ASSUME NEW q \in Seq(Transfer)
  PROVE  Carried(q) = Mapped(q, PacketOf) /\ PacketOf \in [Transfer -> BulkPackets]
<1>1. \A i \in DOMAIN q : q[i] \in Transfer
  BY ElementOfSeq, LenProperties
<1>2. PacketOf \in [Transfer -> BulkPackets]
  BY DEF PacketOf, Transfer
<1>3. QED
  BY <1>1, <1>2 DEF Carried, Mapped, PacketOf

LEMMA CarriedType ==
  ASSUME NEW q \in Seq(Transfer)
  PROVE  /\ Carried(q) \in Seq(BulkPackets)
         /\ Len(Carried(q)) = Len(q)
BY CarriedIsMapped, MappedType DEF IsImage

LEMMA CarriedAppend ==
  ASSUME NEW q \in Seq(Transfer), NEW t \in Transfer
  PROVE  Carried(Append(q, t)) = Append(Carried(q), t.packet)
<1>1. Append(q, t) \in Seq(Transfer)
  OBVIOUS
<1>2. MapsAppend(q, t, PacketOf)
  BY CarriedIsMapped, MappedAppend
<1>3. Carried(Append(q, t)) = Mapped(Append(q, t), PacketOf)
  BY <1>1, CarriedIsMapped
<1>4. PacketOf[t] = t.packet
  BY DEF PacketOf
<1>5. QED
  BY <1>2, <1>3, <1>4, CarriedIsMapped, Zenon DEF MapsAppend

LEMMA CarriedTail ==
  ASSUME NEW q \in Seq(Transfer), q # <<>>
  PROVE  /\ Carried(q) # <<>>
         /\ Carried(Tail(q)) = Tail(Carried(q))
<1>1. Tail(q) \in Seq(Transfer)
  BY TailShorter
<1>2. MapsTail(q, PacketOf)
  BY CarriedIsMapped, MappedTail
<1>3. Carried(Tail(q)) = Mapped(Tail(q), PacketOf)
  BY <1>1, CarriedIsMapped
<1>4. QED
  BY <1>2, <1>3, CarriedIsMapped, Zenon DEF MapsTail

\* The two parts of each lane.
Commanded == IF command = NoPacket THEN <<>> ELSE <<command>>

LEMMA LaneParts ==
  ASSUME TypeOK
  PROVE  /\ Commanded \in Seq(CommandPackets)
         /\ Len(Commanded) = IF command = NoPacket THEN 0 ELSE 1
         /\ Lane(channel, CommandPackets) \in Seq(CommandPackets)
         /\ CommandLane = Commanded \o Lane(channel, CommandPackets)
         /\ Carried(aclOutQueue) \in Seq(BulkPackets)
         /\ Len(Carried(aclOutQueue)) = Len(aclOutQueue)
         /\ Lane(channel, BulkPackets) \in Seq(BulkPackets)
         /\ BulkLane = Carried(aclOutQueue) \o Lane(channel, BulkPackets)
<1>1. channel \in Seq(CommandPackets \cup BulkPackets) /\ aclOutQueue \in Seq(Transfer)
      /\ command \in CommandPackets \cup {NoPacket}
  BY DEF TypeOK
<1>2. Commanded \in Seq(CommandPackets) /\ Len(Commanded) = IF command = NoPacket THEN 0 ELSE 1
  BY <1>1 DEF Commanded
<1>3. /\ Lane(channel, CommandPackets) \in Seq(CommandPackets)
      /\ Lane(channel, BulkPackets) \in Seq(BulkPackets)
  BY <1>1, LaneType
<1>4. QED
  BY <1>1, <1>2, <1>3, CarriedType, Zenon DEF CommandLane, Commanded, BulkLane, Carried

\* A slot that a caller holds is one that the two lanes leave to spare.
LEMMA HolderSpares ==
  ASSUME IInv, Holders # {}
  PROVE  Len(CommandLane) + Len(BulkLane) < outgoingPending
<1> DEFINE cs == Lane(channel, CommandPackets)
           bs == Lane(channel, BulkPackets)
<1>1. /\ TypeOK /\ SlotAccounting /\ TransfersCounted
      /\ Cardinality(Holders) \in Nat /\ Cardinality(Holders) # 0
  BY HoldersFinite, FS_EmptySet DEF IInv
<1>2. channel \in Seq(CommandPackets \cup BulkPackets) /\ Len(channel) \in Nat
  BY <1>1 DEF TypeOK
<1>3. Len(cs) + Len(bs) <= Len(channel)
  BY <1>2, LaneLengths, PacketKindsDisjoint
<1>4. /\ Len(CommandLane) = Len(Commanded) + Len(cs)
      /\ Len(BulkLane) = Len(aclOutQueue) + Len(bs)
      /\ Len(cs) \in Nat /\ Len(bs) \in Nat
      /\ Len(Commanded) = IF command = NoPacket THEN 0 ELSE 1
  <2>1. /\ Commanded \in Seq(CommandPackets) /\ cs \in Seq(CommandPackets)
        /\ Carried(aclOutQueue) \in Seq(BulkPackets) /\ bs \in Seq(BulkPackets)
        /\ CommandLane = Commanded \o cs /\ BulkLane = Carried(aclOutQueue) \o bs
        /\ Len(Carried(aclOutQueue)) = Len(aclOutQueue)
        /\ Len(Commanded) = IF command = NoPacket THEN 0 ELSE 1
    BY <1>1, LaneParts
  <2> HIDE DEF cs, bs
  <2>2. Len(Commanded \o cs) = Len(Commanded) + Len(cs)
    BY <2>1, ConcatProperties
  <2>3. Len(Carried(aclOutQueue) \o bs) = Len(Carried(aclOutQueue)) + Len(bs)
    BY <2>1, ConcatProperties
  <2>4. Len(cs) \in Nat /\ Len(bs) \in Nat
    BY <2>1, LenProperties
  <2>5. QED
    BY <2>1, <2>2, <2>3, <2>4
<1> HIDE DEF cs, bs
<1>5. /\ outgoingPending =
           Cardinality(Holders) + Len(channel) + Len(Commanded) + Len(aclOutQueue) + leaked
      /\ leaked \in Nat /\ Len(aclOutQueue) \in Nat /\ Len(Commanded) \in Nat
  BY <1>1, <1>4 DEF SlotAccounting, TransfersCounted, TypeOK
<1> DEFINE h == Cardinality(Holders)
           n == Len(channel)
           k == Len(Commanded)
           q == Len(aclOutQueue)
           c == Len(cs)
           b == Len(bs)
           sum == Len(CommandLane) + Len(BulkLane)
<1>6. /\ sum = (k + c) + (q + b) /\ c + b <= n
      /\ outgoingPending = h + n + k + q + leaked
      /\ h \in Nat \ {0} /\ n \in Nat /\ k \in Nat /\ q \in Nat /\ c \in Nat /\ b \in Nat
      /\ leaked \in Nat
  BY <1>1, <1>2, <1>3, <1>4, <1>5
<1> HIDE DEF h, n, k, q, c, b, sum
<1>7. sum < outgoingPending
  BY <1>6
<1>8. QED
  BY <1>7 DEF sum

-----------------------------------------------------------------------------
(* Each step is one of the service, or leaves it alone.                    *)

LEMMA LanesStay ==
  ASSUME UNCHANGED <<channel, command, aclOutQueue>>
  PROVE  UNCHANGED <<CommandLane, BulkLane>>
BY DEF CommandLane, BulkLane

\* The caller that reserves or gives back.
LEMMA ReservationServes ==
  ASSUME IInv, NEW c \in Callers, ReserveOk(c) \/ Undo(c)
  PROVE  Service!Reserve \/ Service!Release
<1>1. UNCHANGED <<CommandLane, BulkLane, wpc>>
  BY LanesStay DEF ReserveOk, Undo, writer
<1>2. CASE ReserveOk(c)
  BY <1>1, <1>2 DEF ReserveOk, Service!Reserve
<1>3. CASE Undo(c)
  <2>1. Holders # {}
    BY <1>3 DEF Undo, Holders
  <2>2. Len(CommandLane) + Len(BulkLane) < outgoingPending /\ Cardinality(Holders) > 0
    BY <2>1, HolderSpares, HoldersFinite, FS_EmptySet
  <2>3. outgoingPending > 0
    <3>1. SlotAccounting /\ TypeOK /\ Cardinality(Holders) \in Nat /\ Len(channel) \in Nat
      BY HoldersFinite DEF IInv, TypeOK
    <3>2. QED
      BY <2>2, <3>1 DEF SlotAccounting, TypeOK
  <2>4. QED
    BY <1>1, <1>3, <2>2, <2>3 DEF Undo, Service!Release, Service!SlotToSpare
<1>4. QED
  BY <1>2, <1>3

\* The caller whose packet is accepted: at the end of its lane.
LEMMA PushServes ==
  ASSUME IInv, NEW c \in Callers, Push(c)
  PROVE  \/ \E p \in CommandPackets : Service!AcceptCommand(p)
         \/ \E p \in BulkPackets : Service!AcceptBulk(p)
<1> DEFINE p == packet[c]
           cs == Lane(channel, CommandPackets)
           bs == Lane(channel, BulkPackets)
           transfers == Carried(aclOutQueue)
<1>1. /\ TypeOK /\ channel \in Seq(CommandPackets \cup BulkPackets)
      /\ p \in CommandPackets \cup BulkPackets
      /\ channel' = Append(channel, p)
      /\ UNCHANGED <<outgoingPending, command, aclOutQueue, wpc>>
      /\ wpc # "exited"
  BY DEF IInv, TypeOK, CallerInv, Push, writer
<1>2. /\ Lane(channel', CommandPackets) = IF p \in CommandPackets THEN Append(cs, p) ELSE cs
      /\ Lane(channel', BulkPackets) = IF p \in BulkPackets THEN Append(bs, p) ELSE bs
  <2> HIDE DEF p
  <2>1. QED
    BY <1>1, LaneAppend
<1>3. /\ Commanded \in Seq(CommandPackets) /\ cs \in Seq(CommandPackets)
      /\ transfers \in Seq(BulkPackets) /\ bs \in Seq(BulkPackets)
      /\ CommandLane = Commanded \o cs /\ BulkLane = transfers \o bs
  BY <1>1, LaneParts
<1>4. /\ CommandLane' = Commanded \o Lane(channel', CommandPackets)
      /\ BulkLane' = transfers \o Lane(channel', BulkPackets)
  BY <1>1, Zenon DEF CommandLane, BulkLane, Commanded, Carried
<1>5. Len(CommandLane) + Len(BulkLane) < outgoingPending
  <2>1. Holders # {}
    BY DEF Push, Holders
  <2>2. QED
    BY <2>1, HolderSpares
<1> HIDE DEF p, cs, bs, transfers
<1>6. CASE p \in CommandPackets
  <2>1. p \notin BulkPackets
    BY <1>6, PacketKindsDisjoint
  <2>2. AppendsLast(Commanded, cs, p)
    BY <1>3, <1>6, ConcatAppend
  <2>3. CommandLane' = Append(CommandLane, p) /\ BulkLane' = BulkLane
    BY <1>2, <1>3, <1>4, <1>6, <2>1, <2>2, Zenon DEF AppendsLast
  <2>4. Service!AcceptCommand(p)
    BY <1>1, <1>5, <2>3 DEF Service!AcceptCommand, Service!SlotToSpare
  <2>5. QED
    BY <1>6, <2>4
<1>7. CASE p \in BulkPackets
  <2>1. p \notin CommandPackets
    BY <1>7, PacketKindsDisjoint
  <2>2. AppendsLast(transfers, bs, p)
    BY <1>3, <1>7, ConcatAppend
  <2>3. BulkLane' = Append(BulkLane, p) /\ CommandLane' = CommandLane
    BY <1>2, <1>3, <1>4, <1>7, <2>1, <2>2, Zenon DEF AppendsLast
  <2>4. Service!AcceptBulk(p)
    BY <1>1, <1>5, <2>3 DEF Service!AcceptBulk, Service!SlotToSpare
  <2>5. QED
    BY <1>7, <2>4
<1>8. QED
  BY <1>1, <1>6, <1>7

\* The writer that takes a packet out of the channel keeps its place.
LEMMA ReceiveServes ==
  ASSUME IInv, RecvCommand \/ RecvBulk
  PROVE  UNCHANGED <<CommandLane, BulkLane>>
<1> DEFINE p == Head(channel)
           rest == Tail(channel)
           cs == Lane(rest, CommandPackets)
           bs == Lane(rest, BulkPackets)
           transfers == Carried(aclOutQueue)
<1>1. /\ TypeOK /\ channel \in Seq(CommandPackets \cup BulkPackets)
      /\ channel # <<>> /\ channel' = rest /\ wpc = "recv" /\ command = NoPacket
      /\ NoPacket \notin CommandPackets
  BY PacketKindsDisjoint DEF IInv, TypeOK, WriterInv, RecvCommand, RecvBulk, Packets
<1>2. /\ Lane(channel, CommandPackets) = IF p \in CommandPackets THEN <<p>> \o cs ELSE cs
      /\ Lane(channel, BulkPackets) = IF p \in BulkPackets THEN <<p>> \o bs ELSE bs
  BY <1>1, LaneTail
<1>3. rest \in Seq(CommandPackets \cup BulkPackets)
  BY <1>1, TailShorter
<1>4. cs \in Seq(CommandPackets) /\ bs \in Seq(BulkPackets) /\ transfers \in Seq(BulkPackets)
  <2> HIDE DEF rest
  <2>1. cs \in Seq(CommandPackets) /\ bs \in Seq(BulkPackets)
    BY <1>3, LaneType
  <2>2. QED
    BY <1>1, <2>1, LaneParts
<1>5. /\ CommandLane = <<>> \o Lane(channel, CommandPackets)
      /\ BulkLane = transfers \o Lane(channel, BulkPackets)
      /\ CommandLane' = (IF command' = NoPacket THEN <<>> ELSE <<command'>>) \o cs
      /\ BulkLane' = Carried(aclOutQueue') \o bs
  BY <1>1, Zenon DEF CommandLane, BulkLane, Carried
<1> HIDE DEF p, cs, bs, transfers
<1>6. CASE RecvCommand
  <2>1. /\ p \in CommandPackets /\ p \notin BulkPackets
        /\ command' = p /\ p # NoPacket /\ aclOutQueue' = aclOutQueue
    BY <1>1, <1>6, PacketKindsDisjoint DEF RecvCommand, p
  <2>2. CommandLane' = <<p>> \o cs
    BY <1>5, <2>1
  <2>3. CommandLane = <<p>> \o cs
    <3>1. <<p>> \o cs \in Seq(CommandPackets)
      BY <1>4, <2>1, ConcatProperties
    <3>2. CommandLane = <<>> \o (<<p>> \o cs)
      BY <1>2, <1>5, <2>1
    <3>3. QED
      BY <3>1, <3>2, ConcatEmptySeq
  <2>4. BulkLane' = BulkLane
    BY <1>2, <1>5, <2>1 DEF transfers
  <2>5. QED
    BY <2>2, <2>3, <2>4
<1>7. CASE RecvBulk
  <2> DEFINE t == [packet |-> p, status |-> "posted"]
  <2>1. /\ p \in BulkPackets /\ p \notin CommandPackets
        /\ command' = NoPacket /\ aclOutQueue' = Append(aclOutQueue, t)
    BY <1>1, <1>7, PacketKindsDisjoint DEF RecvBulk, p
  <2>2. t \in Transfer /\ t.packet = p /\ aclOutQueue \in Seq(Transfer)
    BY <1>1, <2>1 DEF Transfer, TypeOK
  <2>3. Carried(aclOutQueue') = Append(transfers, p)
    <3> HIDE DEF t
    <3>1. Carried(Append(aclOutQueue, t)) = Append(Carried(aclOutQueue), t.packet)
      BY <2>2, CarriedAppend
    <3>2. QED
      BY <2>1, <2>2, <3>1 DEF transfers
  <2>4. Regroups(transfers, p, bs)
    BY <1>4, <2>1, AppendConcat
  <2>5. BulkLane' = BulkLane
    BY <1>2, <1>5, <2>1, <2>3, <2>4, Zenon DEF Regroups
  <2>6. CommandLane' = CommandLane
    BY <1>2, <1>5, <2>1
  <2>7. QED
    BY <2>5, <2>6
<1>8. QED
  BY <1>6, <1>7

\* The transfer that ends is that of the oldest packet of its lane.
LEMMA CompletionServes ==
  ASSUME IInv, PollCompletion \/ \E ok \in BOOLEAN : CommandEnds(ok)
  PROVE  Service!BulkEnds \/ Service!CommandEnds
<1> DEFINE cs == Lane(channel, CommandPackets)
           bs == Lane(channel, BulkPackets)
           transfers == Carried(aclOutQueue)
<1>1. /\ TypeOK /\ TransfersCounted /\ WriterInv
      /\ outgoingPending' = outgoingPending - 1 /\ channel' = channel
      /\ wpc # "exited" /\ wpc' # "exited"
  BY DEF IInv, PollCompletion, CommandEnds, Emit
<1>2. /\ Commanded \in Seq(CommandPackets) /\ cs \in Seq(CommandPackets)
      /\ transfers \in Seq(BulkPackets) /\ bs \in Seq(BulkPackets)
      /\ CommandLane = Commanded \o cs /\ BulkLane = transfers \o bs
  BY <1>1, LaneParts
<1>3. CASE PollCompletion
  <2>1. /\ aclOutQueue \in Seq(Transfer) /\ aclOutQueue # <<>>
        /\ aclOutQueue' = Tail(aclOutQueue) /\ command' = command
    BY <1>1, <1>3 DEF PollCompletion, TypeOK, TransfersCounted
  <2>2. transfers # <<>> /\ Carried(aclOutQueue') = Tail(transfers)
    BY <2>1, CarriedTail
  <2>3. BulkLane' = Carried(aclOutQueue') \o bs /\ CommandLane' = CommandLane
    BY <1>1, <2>1, Zenon DEF BulkLane, CommandLane, Carried
  <2> HIDE DEF transfers, bs
  <2>4. LosesHead(transfers, bs)
    BY <1>2, <2>2, TailConcat
  <2>5. BulkLane # <<>> /\ BulkLane' = Tail(BulkLane)
    BY <1>2, <2>2, <2>3, <2>4, Zenon DEF LosesHead
  <2>6. Service!BulkEnds
    BY <1>1, <2>3, <2>5 DEF Service!BulkEnds
  <2>7. QED
    BY <2>6
<1>4. CASE \E ok \in BOOLEAN : CommandEnds(ok)
  <2>1. /\ command \in CommandPackets /\ command # NoPacket
        /\ command' = NoPacket /\ aclOutQueue' = aclOutQueue
    BY <1>1, <1>4 DEF CommandEnds, WriterInv, TypeOK
  <2>2. Commanded = <<command>> /\ Commanded # <<>> /\ Tail(Commanded) = <<>>
    BY <2>1 DEF Commanded
  <2>3. CommandLane' = <<>> \o cs /\ BulkLane' = BulkLane
    BY <1>1, <2>1, Zenon DEF BulkLane, CommandLane
  <2> HIDE DEF cs
  <2>4. LosesHead(Commanded, cs)
    BY <1>2, <2>2, TailConcat
  <2>5. CommandLane # <<>> /\ CommandLane' = Tail(CommandLane)
    BY <1>2, <2>2, <2>3, <2>4, Zenon DEF LosesHead
  <2>6. Service!CommandEnds
    BY <1>1, <2>3, <2>5 DEF Service!CommandEnds
  <2>7. QED
    BY <2>6
<1>5. QED
  BY <1>3, <1>4

\* The writer ends with no transfer under way, so both lanes end with it.
LEMMA ExitServes ==
  ASSUME IInv, WriterExit
  PROVE  Service!ShutDown
<1>1. /\ TypeOK /\ TransfersCounted /\ WriterInv
      /\ wpc = "idle" /\ wpc' = "exited" /\ inFlightOut = 0
      /\ channel' = <<>> /\ UNCHANGED <<outgoingPending, command, aclOutQueue>>
  BY DEF IInv, WriterExit
<1>2. command = NoPacket /\ Len(aclOutQueue) = 0 /\ aclOutQueue \in Seq(Transfer)
  BY <1>1 DEF WriterInv, TransfersCounted, TypeOK
<1>3. Carried(aclOutQueue) = <<>>
  <2>1. Carried(aclOutQueue) \in Seq(BulkPackets) /\ Len(Carried(aclOutQueue)) = 0
    BY <1>2, CarriedType
  <2>2. QED
    BY <2>1, EmptySeq
<1>4. Lane(<<>>, CommandPackets) = <<>> /\ Lane(<<>>, BulkPackets) = <<>>
  <2>1. <<>> \in Seq(CommandPackets)
    BY EmptySeq
  <2>2. QED
    BY <2>1, LaneType
<1>5. CommandLane' = <<>> \o Lane(channel', CommandPackets)
  BY <1>1, <1>2 DEF CommandLane
<1>6. BulkLane' = Carried(aclOutQueue) \o Lane(channel', BulkPackets)
  BY <1>1, Zenon DEF BulkLane, Carried
<1>7. <<>> \o <<>> = <<>>
  BY EmptySeq, ConcatEmptySeq
<1>8. CommandLane' = <<>> /\ BulkLane' = <<>>
  BY <1>1, <1>3, <1>4, <1>5, <1>6, <1>7, Zenon
<1>9. QED
  BY <1>1, <1>8 DEF Service!ShutDown

\* The end of a transfer that is not yet collected is not seen.
LEMMA TransferEndsServes ==
  ASSUME IInv, NEW status \in {"ok", "stall", "error"}, TransferEnds(status)
  PROVE  UNCHANGED <<CommandLane, BulkLane>>
<1>1. PICK i \in DOMAIN aclOutQueue :
        /\ aclOutQueue' = [aclOutQueue EXCEPT ![i].status = status]
        /\ UNCHANGED <<channel, command>>
  BY DEF TransferEnds
<1>2. aclOutQueue \in Seq(Transfer) /\ aclOutQueue' \in Seq(Transfer)
  BY TransferEndsIInv DEF IInv, TypeOK
<1> DEFINE q == aclOutQueue
           r == aclOutQueue'
<1>3. DOMAIN r = DOMAIN q /\ \A j \in DOMAIN q : r[j].packet = q[j].packet
  <2>1. \A j \in DOMAIN q : q[j] \in Transfer
    BY <1>2, ElementOfSeq, LenProperties
  <2>2. r = [q EXCEPT ![i] = [q[i] EXCEPT !.status = status]]
    BY <1>1
  <2>3. QED
    BY <1>2, <2>1, <2>2 DEF Transfer
<1>4. Carried(r) = Carried(q)
  BY <1>3 DEF Carried
<1>5. CommandLane' = CommandLane
  BY <1>1 DEF CommandLane
<1>6. BulkLane' = Carried(r) \o Lane(channel, BulkPackets)
      /\ BulkLane = Carried(q) \o Lane(channel, BulkPackets)
  BY <1>1, Zenon DEF BulkLane, Carried
<1>7. QED
  BY <1>4, <1>5, <1>6

\* The calling threads, the channel, the control transfer and the bulk queue
\* implement the service, for any number of threads and any depths: no packet
\* is accepted without a slot, overtakes another of its lane, is finished
\* twice, or leaves before its transfer ended (lib.rs:200-239, io.rs:115-161).
THEOREM ServiceImplemented == Spec => ServiceSpec
<1>1. Init => Service!Init
  <2> SUFFICES ASSUME Init PROVE Service!Init
    OBVIOUS
  <2>1. IInv /\ command = NoPacket /\ channel = <<>> /\ aclOutQueue = <<>>
    BY InitIInv DEF Init
  <2>2. Carried(aclOutQueue) = <<>> /\ Commanded = <<>>
    BY <2>1 DEF Carried, Commanded
  <2>3. Lane(channel, CommandPackets) = <<>> /\ Lane(channel, BulkPackets) = <<>>
    BY <2>1, LaneType DEF IInv, TypeOK
  <2>4. <<>> \o <<>> = <<>>
    BY EmptySeq, ConcatEmptySeq
  <2>5. CommandLane = <<>> /\ BulkLane = <<>>
    BY <2>1, <2>2, <2>3, <2>4, LaneParts, Zenon DEF IInv
  <2>6. QED
    BY <2>5 DEF Init, Service!Init
<1>2. IInv /\ [Next]_vars => [Service!Next]_(Service!vars)
  <2> SUFFICES ASSUME IInv, [Next]_vars PROVE [Service!Next]_(Service!vars)
    OBVIOUS
  <2> USE DEF Service!vars
  <2>1. ASSUME NEW c \in Callers, ReserveOk(c) \/ Undo(c) \/ Push(c)
        PROVE  Service!Next
    BY <2>1, ReservationServes, PushServes DEF Service!Next
  <2>2. CASE PollCompletion \/ \E ok \in BOOLEAN : CommandEnds(ok)
    BY <2>2, CompletionServes DEF Service!Next
  <2>3. CASE WriterExit
    BY <2>3, ExitServes DEF Service!Next
  <2>4. CASE RecvCommand \/ RecvBulk
    <3>1. UNCHANGED <<outgoingPending, wpc = "exited">>
      BY <2>4 DEF RecvCommand, RecvBulk
    <3>2. QED
      BY <2>4, <3>1, ReceiveServes
  <2>5. CASE \E status \in {"ok", "stall", "error"} : TransferEnds(status)
    <3>1. UNCHANGED <<outgoingPending, wpc = "exited">>
      BY <2>5 DEF TransferEnds
    <3>2. QED
      BY <2>5, <3>1, TransferEndsServes
  <2>6. CASE UNCHANGED <<outgoingPending, channel, command, aclOutQueue, wpc = "exited">>
    BY <2>6, LanesStay
  <2>7. ASSUME NEW c \in Callers,
               \/ CanSendPacketNow(c) \/ \E p \in Packets : SendPacket(c, p)
               \/ ReserveLoad(c) \/ ReserveFull(c) \/ ReserveRetry(c) \/ PushRefused(c)
        PROVE  UNCHANGED <<outgoingPending, channel, command, aclOutQueue, wpc>>
    BY <2>7 DEF CanSendPacketNow, SendPacket, ReserveLoad, ReserveFull, ReserveRetry,
      PushRefused, writer
  <2>8. CASE \/ WriterTop \/ RecvTimeout \/ WriterCheckStop \/ WriterGoOn
             \/ PollNothing \/ NotifyReturn \/ CloseTake \/ CloseStop
    <3>1. UNCHANGED <<outgoingPending, channel, command, aclOutQueue, wpc = "exited">>
      BY <2>8 DEF WriterTop, RecvTimeout, WriterCheckStop, WriterGoOn, PollNothing,
        NotifyReturn, CloseTake, CloseStop, writer
    <3>2. QED
      BY <2>6, <3>1
  <2>9. CASE UNCHANGED vars
    BY <2>6, <2>9 DEF vars
  <2>10. QED
    BY <2>1, <2>2, <2>3, <2>4, <2>5, <2>6, <2>7, <2>8, <2>9 DEF Next, CallerStep, WriterStep
<1>3. QED
  BY <1>1, <1>2, Inductive, PTL DEF Spec, ServiceSpec, Service!Spec

-----------------------------------------------------------------------------
(* One thread does all the sending.                                        *)

\* What a caller that was told it can send still knows before it has a slot.
GrantInv ==
  \A c \in Callers : grant[c] = "yes" /\ spc[c] \in {"idle", "load", "cas"} =>
    /\ outgoingPending < QueueDepth
    /\ spc[c] = "cas" => current[c] < QueueDepth

LEMMA GrantInvStep ==
  ASSUME NEW bt, Callers = {bt}, IInv, IInv', GrantInv, [Next]_vars
  PROVE  GrantInv'
<1> USE DEF shared, caller, writer
<1>0. /\ bt \in Callers /\ TypeOK /\ TypeOK'
      /\ QueueDepth \in Nat /\ outgoingPending \in Nat /\ outgoingPending' \in Nat
  BY DepthPositive DEF IInv, TypeOK
<1>1. CASE CanSendPacketNow(bt)
  BY <1>0, <1>1 DEF CanSendPacketNow, MayCall, TypeOK, GrantInv
<1>2. CASE \E p \in Packets : SendPacket(bt, p)
  BY <1>0, <1>2 DEF SendPacket, MayCall, TypeOK, GrantInv
<1>3. CASE CallerStep(bt)
  <2>1. CASE ReserveLoad(bt)
    BY <1>0, <2>1 DEF ReserveLoad, TypeOK, GrantInv
  <2>2. CASE ReserveRetry(bt)
    BY <1>0, <2>2 DEF ReserveRetry, TypeOK, GrantInv
  <2>3. CASE ReserveOk(bt) \/ PushRefused(bt)
    BY <1>0, <2>3 DEF ReserveOk, PushRefused, TypeOK, GrantInv
  <2>4. CASE ReserveFull(bt) \/ Push(bt) \/ Undo(bt)
    BY <1>0, <2>4 DEF ReserveFull, Push, Undo, Return, TypeOK, GrantInv
  <2>5. QED
    BY <1>3, <2>1, <2>2, <2>3, <2>4 DEF CallerStep
<1>4. CASE PollCompletion \/ \E ok \in BOOLEAN : CommandEnds(ok)
  <2>1. /\ outgoingPending' < outgoingPending
        /\ grant'[bt] = "yes" => grant[bt] = "yes"
        /\ UNCHANGED <<spc, current>>
    BY <1>0, <1>4 DEF PollCompletion, CommandEnds, Emit, TypeOK
  <2>2. QED
    BY <1>0, <2>1 DEF GrantInv
<1>5. CASE UNCHANGED <<outgoingPending, spc, current, grant>>
  BY <1>5 DEF GrantInv
<1>6. CASE WriterStep
  BY <1>4, <1>5, <1>6 DEF WriterStep, WriterTop, RecvCommand, RecvBulk, RecvTimeout,
    WriterCheckStop, WriterGoOn, WriterExit, PollNothing
<1>7. CASE CloseTake \/ CloseStop \/ NotifyReturn \/ UNCHANGED vars
           \/ \E status \in {"ok", "stall", "error"} : TransferEnds(status)
  BY <1>5, <1>7 DEF CloseTake, CloseStop, NotifyReturn, TransferEnds, vars
<1>8. QED
  BY <1>1, <1>2, <1>3, <1>4, <1>6, <1>7 DEF Next

\* Where a single thread sends (BTstack's run loop, or any one thread),
\* transport_send_packet after transport_can_send_packet_now said 1 is never
\* refused for want of a slot (lib.rs:189,217).
THEOREM SoleSenderKept ==
  ASSUME NEW bt, Callers = {bt}
  PROVE  Spec => GrantKept
<1>1. Init => GrantInv
  BY DepthPositive DEF Init, GrantInv
<1>2. IInv /\ IInv' /\ GrantInv /\ [Next]_vars => GrantInv'
  BY GrantInvStep
<1>3. IInv /\ GrantInv /\ [Next]_vars =>
        [\A c \in Callers :
           grant[c] = "yes" /\ spc[c] = "cas" /\ spc'[c] # "cas" => spc'[c] # "idle"]_vars
  <2> SUFFICES ASSUME IInv, GrantInv, Next,
                      grant[bt] = "yes", spc[bt] = "cas", spc'[bt] # "cas"
               PROVE  spc'[bt] # "idle"
    OBVIOUS
  <2> USE DEF shared, caller, writer
  <2>0. bt \in Callers /\ TypeOK /\ current[bt] < QueueDepth
    BY DEF IInv, GrantInv
  <2>1. CASE CallerStep(bt)
    BY <2>0, <2>1, DepthPositive DEF CallerStep, ReserveLoad, ReserveFull, ReserveOk,
      ReserveRetry, Push, PushRefused, Undo, TypeOK
  <2>2. CASE CanSendPacketNow(bt) \/ \E p \in Packets : SendPacket(bt, p)
    BY <2>2 DEF CanSendPacketNow, SendPacket, MayCall
  <2>3. CASE UNCHANGED spc
    BY <2>3
  <2>4. CASE WriterStep
    BY <2>3, <2>4 DEF WriterStep, WriterTop, RecvCommand, RecvBulk, RecvTimeout,
      WriterCheckStop, WriterGoOn, WriterExit, PollNothing, PollCompletion
  <2>5. QED
    BY <2>1, <2>2, <2>3, <2>4 DEF Next, CloseTake, CloseStop, NotifyReturn,
      TransferEnds, CommandEnds
<1>4. QED
  BY <1>1, <1>2, <1>3, Inductive, PTL DEF Spec, GrantKept
=============================================================================
