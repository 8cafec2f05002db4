------------------------- MODULE TransportLifecycle -------------------------
(***************************************************************************)
(* Opening and closing of the transport (btstack-hci-transport-nusb): the  *)
(* global STATE behind its mutex, transport_open, transport_close and      *)
(* transport_register_packet_handler as the threads that call them see it, *)
(* and the three worker threads of every session.                          *)
(*                                                                         *)
(* A session is one successful claim of the USB interface with the stop    *)
(* flag and the threads that come with it.  A worker is the WorkerThread   *)
(* that InboundReader and OutgoingQueue implement, with what matters here  *)
(* of their loops: a reader looks at the stop flag only after a completion,*)
(* and emit_packet reads the handler before it calls it.  Each section     *)
(* under the STATE lock is one step; a completion is found in the step of  *)
(* the look at the handler, since nobody else sees what is in between.     *)
(*                                                                         *)
(* A session is a name, used again once nothing of it is left.  Every open *)
(* selects a device anew, so two sessions may be of two adapters, and the  *)
(* second then takes the place of the first in STATE.                      *)
(***************************************************************************)
EXTENDS Naturals, FiniteSets

CONSTANTS
  ApiThreads,  \* threads that call the transport from outside
  Reentrant,   \* workers whose packet handler may call it: a subset of Kinds
  Sessions,    \* names of sessions
  Adapters,    \* USB adapters that may be plugged in
  NoSession,   \* marks the absence of a session
  Handlers,    \* what is registered; NoHandler may be among them
  NoHandler    \* marks the absence of a handler

Readers == {"event", "acl"}
Kinds == Readers \cup {"writer"}

\* A worker is a caller itself while it runs the packet handler.
Threads == ApiThreads \cup (Sessions \X Reentrant)

ASSUME ReentrantAreWorkers == Reentrant \subseteq Kinds

ASSUME NoSessionIsNone == NoSession \notin Sessions

VARIABLES
  active,   \* the session in STATE.active
  handler,  \* STATE.packet_handler
  tpc,      \* where each thread is in transport_open or transport_close
  mine,     \* the session each thread is opening or closing
  stop,     \* the stop flag of each session
  worker,   \* where each worker of each session is
  adapter,  \* the adapter whose interface each session has claimed
  replaced  \* history: the sessions that were dropped from STATE.active

vars == <<active, handler, tpc, mine, stop, worker, adapter, replaced>>

TypeOK ==
  /\ active \in Sessions \cup {NoSession}
  /\ handler \in Handlers \cup {NoHandler}
  /\ tpc \in [Threads -> {"idle", "select", "info", "event", "acl", "writer", "publish",
                          "return", "close", "joinEvent", "joinAcl", "joinWriter"}]
  /\ mine \in [Threads -> Sessions \cup {NoSession}]
  /\ \A t \in Threads : mine[t] = NoSession <=> tpc[t] \in {"idle", "select"}
  /\ stop \in [Sessions -> BOOLEAN]
  /\ worker \in [Sessions -> [Kinds -> {"none", "running", "calling", "check", "exited"}]]
  /\ adapter \in [Sessions -> Adapters]
  /\ replaced \subseteq Sessions

\* The adapter of a session that has claimed none is not looked at.
Init ==
  /\ active = NoSession
  /\ handler = NoHandler
  /\ tpc = [t \in Threads |-> "idle"]
  /\ mine = [t \in Threads |-> NoSession]
  /\ stop = [s \in Sessions |-> FALSE]
  /\ worker = [s \in Sessions |-> [k \in Kinds |-> "none"]]
  /\ adapter \in [Sessions -> Adapters]
  /\ replaced = {}

-----------------------------------------------------------------------------
(* Who holds what.                                                         *)

IsLive(s, k) == worker[s][k] \notin {"none", "exited"}

Live(s) == \E k \in Kinds : IsLive(s, k)

\* Threads between the claim of the interface and the end of transport_open.
Opening(s) ==
  \E t \in Threads : mine[t] = s /\ tpc[t] \in {"info", "event", "acl", "writer", "publish", "return"}

\* Threads between taking the session and the end of transport_close.
Closing(s) ==
  \E t \in Threads : mine[t] = s /\ tpc[t] \in {"close", "joinEvent", "joinAcl", "joinWriter"}

\* The interface is released when its last clone is dropped; transport_open
\* and each of the workers hold one.
HoldsInterface(s) == Opening(s) \/ Live(s)

\* Nothing of the session is left; its name may stand for a new one.
Gone(s) == active # s /\ ~HoldsInterface(s) /\ ~Closing(s)

\* A thread may call if it is not in a call, a worker only from the handler.
MayCall(t) ==
  /\ tpc[t] = "idle"
  /\ t \in Sessions \X Kinds => worker[t[1]][t[2]] = "calling"

-----------------------------------------------------------------------------
\* transport_register_packet_handler.
RegisterPacketHandler(t, h) ==
  /\ MayCall(t)
  /\ handler' = h
  /\ UNCHANGED <<active, tpc, mine, stop, worker, adapter, replaced>>

(* transport_open.                                                         *)

\* STATE is looked at under the lock, which is then released.  (With a
\* session in place the call returns 0 and changes nothing.)
Open(t) ==
  /\ MayCall(t)
  /\ active = NoSession
  /\ tpc' = [tpc EXCEPT ![t] = "select"]
  /\ UNCHANGED <<active, handler, mine, stop, worker, adapter, replaced>>

\* No device is selected, it cannot be opened, or its interface is claimed
\* already or cannot be claimed: -1.
OpenFails(t) ==
  /\ tpc[t] = "select"
  /\ tpc' = [tpc EXCEPT ![t] = "idle"]
  /\ UNCHANGED <<active, handler, mine, stop, worker, adapter, replaced>>

\* A device is selected, of those plugged in by now, and opened, and
\* claim_interface succeeds, which it does for one holder of an adapter at a time.
Claim(t, s) ==
  /\ tpc[t] = "select"
  /\ Gone(s)
  /\ \E a \in Adapters :
       /\ \A r \in Sessions : adapter[r] = a => ~HoldsInterface(r)
       /\ adapter' = [adapter EXCEPT ![s] = a]
  /\ tpc' = [tpc EXCEPT ![t] = "info"]
  /\ mine' = [mine EXCEPT ![t] = s]
  /\ stop' = [stop EXCEPT ![s] = FALSE]
  /\ worker' = [worker EXCEPT ![s] = [k \in Kinds |-> "none"]]
  /\ UNCHANGED <<active, handler, replaced>>

\* emit_usb_info calls the handler on this thread and returns.
EmitUsbInfo(t) ==
  /\ tpc[t] = "info"
  /\ tpc' = [tpc EXCEPT ![t] = "event"]
  /\ UNCHANGED <<active, handler, mine, stop, worker, adapter, replaced>>

\* The three workers are spawned one after the other and run at once.
Spawn(t) ==
  /\ tpc[t] \in Kinds
  /\ worker' = [worker EXCEPT ![mine[t]][tpc[t]] = "running"]
  /\ tpc' = [tpc EXCEPT ![t] =
       CASE tpc[t] = "event" -> "acl"
         [] tpc[t] = "acl" -> "writer"
         [] tpc[t] = "writer" -> "publish"]
  /\ UNCHANGED <<active, handler, mine, stop, adapter, replaced>>

\* STATE.active is set under the lock.  A session it held is dropped, and with
\* it the handles of its threads, the sender of its channel and the only way
\* to its stop flag.
Publish(t) ==
  /\ tpc[t] = "publish"
  /\ active' = mine[t]
  /\ replaced' = replaced \cup ({active} \ {NoSession})
  /\ tpc' = [tpc EXCEPT ![t] = "return"]
  /\ UNCHANGED <<handler, mine, stop, worker, adapter>>

\* The call returns 0; its own clone of the interface is dropped.
OpenReturns(t) ==
  /\ tpc[t] = "return"
  /\ tpc' = [tpc EXCEPT ![t] = "idle"]
  /\ mine' = [mine EXCEPT ![t] = NoSession]
  /\ UNCHANGED <<active, handler, stop, worker, adapter, replaced>>

(* transport_close.                                                        *)

\* Mutant of Close: the session is looked at but not taken.
CloseWithoutTake(t) ==
  /\ MayCall(t)
  /\ active # NoSession
  /\ mine' = [mine EXCEPT ![t] = active]
  /\ tpc' = [tpc EXCEPT ![t] = "close"]
  /\ UNCHANGED <<active, handler, stop, worker, adapter, replaced>>

\* STATE.active is taken under the lock.  (Without a session, be it that
\* another thread is closing it, the call returns 0 at once.)
Close(t) ==
  /\ MayCall(t)
  /\ active # NoSession
  /\ mine' = [mine EXCEPT ![t] = active]
  /\ active' = NoSession
  /\ tpc' = [tpc EXCEPT ![t] = "close"]
  /\ UNCHANGED <<handler, stop, worker, adapter, replaced>>

\* The stop flag is stored.
CloseStop(t) ==
  /\ tpc[t] = "close"
  /\ stop' = [stop EXCEPT ![mine[t]] = TRUE]
  /\ tpc' = [tpc EXCEPT ![t] = "joinEvent"]
  /\ UNCHANGED <<active, handler, mine, worker, adapter, replaced>>

\* The readers are joined, the event reader first.
JoinReader(t) ==
  \/ /\ tpc[t] = "joinEvent"
     /\ worker[mine[t]]["event"] = "exited"
     /\ tpc' = [tpc EXCEPT ![t] = "joinAcl"]
     /\ UNCHANGED <<active, handler, mine, stop, worker, adapter, replaced>>
  \/ /\ tpc[t] = "joinAcl"
     /\ worker[mine[t]]["acl"] = "exited"
     /\ tpc' = [tpc EXCEPT ![t] = "joinWriter"]
     /\ UNCHANGED <<active, handler, mine, stop, worker, adapter, replaced>>

\* Mutant of JoinWriter: the handle of the writer is dropped, not joined.
DetachWriter(t) ==
  /\ tpc[t] = "joinWriter"
  /\ tpc' = [tpc EXCEPT ![t] = "idle"]
  /\ mine' = [mine EXCEPT ![t] = NoSession]
  /\ UNCHANGED <<active, handler, stop, worker, adapter, replaced>>

\* The writer is joined; the call returns 0.
JoinWriter(t) ==
  /\ tpc[t] = "joinWriter"
  /\ worker[mine[t]]["writer"] = "exited"
  /\ tpc' = [tpc EXCEPT ![t] = "idle"]
  /\ mine' = [mine EXCEPT ![t] = NoSession]
  /\ UNCHANGED <<active, handler, stop, worker, adapter, replaced>>

OpenOrCloseStep(t) ==
  \/ OpenFails(t)
  \/ \E s \in Sessions : Claim(t, s)
  \/ EmitUsbInfo(t)
  \/ Spawn(t)
  \/ Publish(t)
  \/ OpenReturns(t)
  \/ CloseStop(t)
  \/ JoinReader(t)
  \/ JoinWriter(t)

-----------------------------------------------------------------------------
(* The workers.                                                            *)

MoveTo(s, k, place) ==
  /\ worker' = [worker EXCEPT ![s][k] = place]
  /\ UNCHANGED <<active, handler, tpc, mine, stop, adapter, replaced>>

\* Where a worker goes on when emit_packet returns.
AfterEmit(k) == IF k \in Readers THEN "check" ELSE "running"

\* emit_packet reads the handler under the lock and, if there is one, calls it
\* after the lock is released.
EmitPacket(s, k) == MoveTo(s, k, IF handler = NoHandler THEN AfterEmit(k) ELSE "calling")

\* A reader finds an IN transfer completed, with or without a packet to emit.
InboundCompletes(s, k) ==
  /\ worker[s][k] = "running"
  /\ EmitPacket(s, k) \/ MoveTo(s, k, "check")

\* The writer finds an OUT transfer completed and emits
\* HCI_EVENT_TRANSPORT_PACKET_SENT.
OutboundCompletes(s) ==
  /\ worker[s]["writer"] = "running"
  /\ EmitPacket(s, "writer")

\* The packet handler returns.
HandlerReturns(s, k) ==
  /\ worker[s][k] = "calling"
  /\ <<s, k>> \in Threads => tpc[<<s, k>>] = "idle"
  /\ MoveTo(s, k, AfterEmit(k))

\* Mutant of ReaderChecksStop: the reader submits the buffer and goes on.
ReaderNeverChecks(s, k) ==
  /\ worker[s][k] = "check"
  /\ MoveTo(s, k, "running")

\* After a completion the reader looks at the flag: it cancels, drains and
\* ends, or goes on.
ReaderChecksStop(s, k) ==
  /\ worker[s][k] = "check"
  /\ MoveTo(s, k, IF stop[s] THEN "exited" ELSE "running")

\* Mutant of WriterEnds: a failed transfer ends the writer.
WriterEndsUnasked(s) ==
  /\ worker[s]["writer"] = "running"
  /\ MoveTo(s, "writer", "exited")

\* The writer sees the flag within a poll interval, drains and ends.
WriterEnds(s) ==
  /\ worker[s]["writer"] = "running"
  /\ stop[s]
  /\ MoveTo(s, "writer", "exited")

\* With the sender dropped, recv_timeout says Disconnected once the channel is
\* empty, and the writer returns although nobody stopped it.
WriterLosesSender(s) ==
  /\ worker[s]["writer"] = "running"
  /\ s \in replaced
  /\ MoveTo(s, "writer", "exited")

WorkerStep(s, k) ==
  \/ k \in Readers /\ ReaderChecksStop(s, k)
  \/ k = "writer" /\ WriterEnds(s)

-----------------------------------------------------------------------------
Next ==
  \/ \E t \in Threads, h \in Handlers : RegisterPacketHandler(t, h)
  \/ \E t \in Threads : Open(t)
  \/ \E t \in Threads : Close(t)
  \/ \E t \in Threads : OpenOrCloseStep(t)
  \/ \E s \in Sessions, k \in Readers : InboundCompletes(s, k)
  \/ \E s \in Sessions : OutboundCompletes(s)
  \/ \E s \in Sessions, k \in Kinds : HandlerReturns(s, k)
  \/ \E s \in Sessions, k \in Kinds : WorkerStep(s, k)
  \/ \E s \in Sessions : WriterLosesSender(s)

Spec == Init /\ [][Next]_vars

\* A thread that can go on does; the packet handler returns, after finitely
\* many calls into the transport if it makes any; the writer, which emits no
\* more than it has in flight, ends in spite of emitting.
ThreadsFair ==
  /\ \A t \in Threads : WF_vars(OpenOrCloseStep(t))
  /\ \A s \in Sessions, k \in Kinds \ Reentrant : WF_vars(HandlerReturns(s, k))
  /\ \A s \in Sessions, k \in Reentrant : SF_vars(HandlerReturns(s, k))
  /\ \A s \in Sessions, k \in Readers : WF_vars(ReaderChecksStop(s, k))
  /\ \A s \in Sessions : SF_vars(WriterEnds(s))

\* The controller sends something on both IN endpoints, now and then.
ControllerTalks ==
  \A s \in Sessions, k \in Readers : WF_vars(InboundCompletes(s, k))

QuietSpec == Spec /\ ThreadsFair
TalkSpec == Spec /\ ThreadsFair /\ ControllerTalks

-----------------------------------------------------------------------------
(* Safety.                                                                 *)

\* Setting STATE.active drops a session only for one of another adapter
\* (lib.rs:134): the look at STATE.active (lib.rs:94) and its update are two
\* critical sections, and what holds a second open of the same adapter off in
\* between is the claim (lib.rs:110) and the clones the workers keep of it
\* (lib.rs:122-126).
ReplacedOnlyByAnother ==
  \A t \in Threads :
    tpc[t] = "publish" /\ active # NoSession => adapter[active] # adapter[mine[t]]

\* No thread is left behind but those of a replaced session: a running worker
\* belongs to the session in STATE or to one a thread is opening or closing
\* (lib.rs:121-141,156-159).
NoOrphans ==
  \A s \in Sessions :
    Live(s) => active = s \/ Opening(s) \/ Closing(s) \/ s \in replaced

\* What "joins Rust worker threads" (lib.rs:147) promises of transport_close:
\* with no session in STATE and no call of the transport under way, none of
\* the worker threads runs.  (True of one adapter; a replaced session refutes it.)
ClosedIsQuiet ==
  active = NoSession /\ (\A t \in Threads : tpc[t] = "idle") => \A s \in Sessions : ~Live(s)

\* A published session can be used: its workers all run until transport_close
\* has taken it, so what is queued is sent and what arrives is delivered.
ActiveIsComplete ==
  active # NoSession => ~stop[active] /\ \A k \in Kinds : IsLive(active, k)

\* When transport_close returns from closing a session (lib.rs:156-162), none
\* of its workers runs, hence none calls the packet handler any more.
CloseLeavesNothing ==
  [][\A t \in Threads : tpc[t] = "joinWriter" /\ tpc'[t] = "idle" => ~Live(mine[t])]_vars

\* A worker of a session as WorkerThread sees it.
Worker(s, k) == INSTANCE WorkerThread WITH
  phase <- CASE worker[s][k] = "exited" -> "exited"
             [] worker[s][k] = "calling" -> "calling"
             [] OTHER -> "running",
  stop <- stop[s]

\* What the life cycle takes its workers for is the contract that the loops of
\* io.rs:34-55,72-93,115-161 are shown to keep: each step is one of that
\* contract for every worker of every session, the spawns (lib.rs:122-126)
\* and the stop of a close (lib.rs:154-155) included, or leaves the worker alone,
\* or begins the session anew.  The one exception is the writer of a replaced
\* session, which ends without having been stopped (io.rs:120).
WorkersKeepContract ==
  [][\A s \in Sessions, k \in Kinds :
       \/ Worker(s, k)!Next
       \/ UNCHANGED Worker(s, k)!vars
       \/ (\E t \in Threads : Claim(t, s)) /\ Worker(s, k)!Init'
       \/ k = "writer" /\ WriterLosesSender(s)]_vars

-----------------------------------------------------------------------------
(* Liveness.                                                               *)

\* transport_close "joins Rust worker threads" (lib.rs:147): it returns.
CloseReturns ==
  \A t \in ApiThreads : tpc[t] = "close" ~> tpc[t] = "idle"
=============================================================================
