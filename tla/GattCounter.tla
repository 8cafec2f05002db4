---------------------------- MODULE GattCounter ----------------------------
(***************************************************************************)
(* The GATT counter example (btstack-gatt/src/gatt_counter.rs): its static *)
(* state and the callbacks BTstack makes on the run-loop thread, one at a  *)
(* time, over any number of starts and shutdowns of the runtime.           *)
(*                                                                         *)
(* Of the counter, its text and its length the model keeps whether the     *)
(* text has changed since it was last sent.  External: the link layer,     *)
(* which gives handles to connections and uses them again, and lets one    *)
(* client connect at a time (BTstack's default, which nothing here         *)
(* raises); and BTstack's promise of one ATT_EVENT_CAN_SEND_NOW for a      *)
(* connection that asked for it, unless it ends.                           *)
(***************************************************************************)
EXTENDS Naturals

CONSTANTS
  Clients,   \* devices that connect
  Handles,   \* values of hci_con_handle_t
  NoHandle   \* marks a client that is not connected

ASSUME NoHandleIsNone == NoHandle \notin Handles

VARIABLES
  up,                    \* the run loop executes
  NOTIFICATION_ENABLED,
  CONNECTION_HANDLE,
  HEARTBEAT_TIMER,       \* the timer is in the run loop's list
  unsent,                \* COUNTER_BUFFER holds a text that was not notified yet
  link,                  \* the connection handle of each client
  requested,             \* connections with an ATT_EVENT_CAN_SEND_NOW to come
  wants,                 \* history: what the code made of the client's last write
                         \* of its configuration since it connected
  unwanted,              \* history: notifications (2 stands for more) a client
                         \* got since it connected, or wrote its configuration
  carried                \* history: the flag was set before the last shutdown

code == <<NOTIFICATION_ENABLED, CONNECTION_HANDLE, HEARTBEAT_TIMER, unsent>>
clients == <<link, wants>>
vars == <<up, code, clients, requested, unwanted, carried>>

TypeOK ==
  /\ up \in BOOLEAN /\ NOTIFICATION_ENABLED \in BOOLEAN /\ HEARTBEAT_TIMER \in BOOLEAN
  /\ unsent \in BOOLEAN /\ carried \in BOOLEAN
  /\ CONNECTION_HANDLE \in Handles
  /\ link \in [Clients -> Handles \cup {NoHandle}]
  /\ requested \subseteq Handles
  /\ wants \in [Clients -> BOOLEAN]
  /\ unwanted \in [Clients -> 0..2]

Connected == {c \in Clients : link[c] # NoHandle}

Init ==
  /\ up = FALSE
  /\ NOTIFICATION_ENABLED = FALSE
  /\ CONNECTION_HANDLE \in Handles
  /\ HEARTBEAT_TIMER = FALSE
  /\ unsent = FALSE
  /\ link = [c \in Clients |-> NoHandle]
  /\ requested = {}
  /\ wants = [c \in Clients |-> FALSE]
  /\ unwanted = [c \in Clients |-> 0]
  /\ carried = FALSE

-----------------------------------------------------------------------------
(* The runtime.                                                            *)

\* btstack_main: setup wires the callbacks, starts the timer and formats the
\* first text.  The other statics keep what an earlier run left in them.
Setup ==
  /\ ~up
  /\ up' = TRUE
  /\ HEARTBEAT_TIMER' = TRUE
  /\ unsent' = TRUE
  /\ UNCHANGED <<NOTIFICATION_ENABLED, CONNECTION_HANDLE, clients, requested, unwanted, carried>>

\* The runtime is shut down: its timers and connections are gone.  Whether
\* the end of a connection is still reported is BTstack's business.
Shutdown ==
  /\ up
  /\ up' = FALSE
  /\ NOTIFICATION_ENABLED' \in {FALSE, NOTIFICATION_ENABLED}
  /\ carried' = NOTIFICATION_ENABLED'
  /\ HEARTBEAT_TIMER' = FALSE
  /\ link' = [c \in Clients |-> NoHandle]
  /\ requested' = {}
  /\ wants' = [c \in Clients |-> FALSE]
  /\ unwanted' = [c \in Clients |-> 0]
  /\ UNCHANGED <<CONNECTION_HANDLE, unsent>>

-----------------------------------------------------------------------------
(* The callbacks.                                                          *)

\* btstack_run_loop_add_timer and att_server_request_can_send_now_event as the
\* handler calls them; the latter does nothing for a handle without connection.
Beat(beats, asks, rearms) ==
  /\ up
  /\ HEARTBEAT_TIMER
  /\ HEARTBEAT_TIMER' = rearms
  /\ unsent' = (unsent \/ beats)
  /\ requested' = requested \cup
       {h \in {CONNECTION_HANDLE} : asks /\ \E c \in Clients : link[c] = h}
  /\ UNCHANGED <<up, NOTIFICATION_ENABLED, CONNECTION_HANDLE, clients, unwanted, carried>>

\* Mutants of heartbeat_handler: it asks whether or not it has beaten; it
\* starts the timer again only while notifications are on.
HeartbeatAsksAlways == Beat(NOTIFICATION_ENABLED, TRUE, TRUE)
HeartbeatStops == Beat(NOTIFICATION_ENABLED, NOTIFICATION_ENABLED, NOTIFICATION_ENABLED)

\* heartbeat_handler.
heartbeat_handler == Beat(NOTIFICATION_ENABLED, NOTIFICATION_ENABLED, TRUE)

\* packet_handler, ATT_EVENT_CAN_SEND_NOW: the text goes to the connection in
\* CONNECTION_HANDLE, whatever the flag and whoever asked for the event.
CanSendNow(h) ==
  /\ h \in requested
  /\ requested' = requested \ {h}
  /\ unsent' = (unsent /\ \A c \in Clients : link[c] # CONNECTION_HANDLE)
  /\ unwanted' = [c \in Clients |->
       IF link[c] = CONNECTION_HANDLE /\ ~wants[c] /\ unwanted[c] < 2
       THEN unwanted[c] + 1 ELSE unwanted[c]]
  /\ UNCHANGED <<up, NOTIFICATION_ENABLED, CONNECTION_HANDLE, HEARTBEAT_TIMER, clients, carried>>

\* att_write_callback for the client configuration.  Of a write of one byte
\* the high byte is whatever follows it in BTstack's buffer.
WriteConfiguration(c, config, size) ==
  /\ c \in Connected
  /\ NOTIFICATION_ENABLED' \in IF size = 1 /\ config = 1 THEN BOOLEAN ELSE {config = 1}
  /\ CONNECTION_HANDLE' = link[c]
  /\ wants' = [wants EXCEPT ![c] = NOTIFICATION_ENABLED']
  /\ unwanted' = [unwanted EXCEPT ![c] = 0]
  /\ carried' = FALSE
  /\ UNCHANGED <<up, HEARTBEAT_TIMER, unsent, link, requested>>

\* The connection of c ends; packet_handler is told what it does to the flag.
Gone(c, flag) ==
  /\ c \in Connected
  /\ NOTIFICATION_ENABLED' = flag
  /\ carried' = (carried /\ flag)
  /\ link' = [link EXCEPT ![c] = NoHandle]
  /\ requested' = requested \ {link[c]}
  /\ wants' = [wants EXCEPT ![c] = FALSE]
  /\ unwanted' = [unwanted EXCEPT ![c] = 0]
  /\ UNCHANGED <<up, CONNECTION_HANDLE, HEARTBEAT_TIMER, unsent>>

\* Mutant of Disconnect: the flag stays.
DisconnectKeepsFlag(c) == Gone(c, NOTIFICATION_ENABLED)

\* packet_handler, HCI_EVENT_DISCONNECTION_COMPLETE.
Disconnect(c) == Gone(c, FALSE)

\* A client connects (external).
Connect(c, h) ==
  /\ up
  /\ Connected = {}
  /\ link' = [link EXCEPT ![c] = h]
  /\ UNCHANGED <<up, code, requested, wants, unwanted, carried>>

-----------------------------------------------------------------------------
Next ==
  \/ Setup
  \/ Shutdown
  \/ heartbeat_handler
  \/ \E h \in Handles : CanSendNow(h)
  \/ \E c \in Clients, config \in 0..2, size \in 1..2 : WriteConfiguration(c, config, size)
  \/ \E c \in Clients : Disconnect(c)
  \/ \E c \in Clients, h \in Handles : Connect(c, h)

Spec == Init /\ [][Next]_vars

\* The timer expires, and a connection that asked gets to send.
FairSpec == Spec /\ WF_vars(heartbeat_handler) /\ WF_vars(\E h \in Handles : CanSendNow(h))

-----------------------------------------------------------------------------
(* Properties.                                                             *)

\* A client that has not asked for notifications, or no longer wants them, gets
\* one at most: the one whose event was on its way when it switched them off,
\* which packet_handler sends without a look at the flag (gatt_counter.rs:142-149).
\* What a client left behind never reaches the next one with its handle.  There
\* is one exception, to which there is no limit: setup resets neither flag nor
\* handle (gatt_counter.rs:83-108), so a flag that was up when the runtime was shut
\* down notifies the client that is given the handle of its client thereafter,
\* until that one writes its configuration or goes.
UnwantedOnce ==
  \A c \in Clients : unwanted[c] > 1 => carried /\ link[c] = CONNECTION_HANDLE

\* A notification always carries a text the client has not been sent: the
\* counter has beaten since, also when an event is late and further
\* heartbeats come before it (gatt_counter.rs:123-131).
NotificationsAreNews == requested # {} => unsent

\* A client whose write the code took for switching notifications on goes on
\* getting them: the timer survives every heartbeat, and the handle is that of
\* the client whatever connections there were before (gatt_counter.rs:123-131,
\* 186-190).
SubscriberHears ==
  \A c \in Clients :
    /\ wants[c] ~> (unsent \/ ~wants[c])
    /\ wants[c] /\ unsent ~> (~unsent \/ ~wants[c])
=============================================================================
