----------------------------- MODULE GattServer -----------------------------
(***************************************************************************)
(* The GATT server with its attributes (btstack-gatt/src/peripheral.rs):   *)
(* PeripheralServer, whose new and Drop make and destroy the tables in     *)
(* RUNTIME, and the callbacks BTstack makes on the run-loop thread for a   *)
(* client that connects, reads, writes and goes away while that happens.   *)
(*                                                                         *)
(* UUIDs are model values, bytes and handles small numbers.  Lengths and   *)
(* offsets are below LenMod, which stands for 2^16.  The characteristics   *)
(* of a specification are listed in one sequence, each with its service.   *)
(* External: the ATT database with its lookups, and the ATT server, which  *)
(* has one client at a time (BTstack's default, which nothing here raises) *)
(* and makes the calls for it, while the run loop is in no other callback. *)
(***************************************************************************)
EXTENDS PeripheralServer, Naturals, Sequences

CONSTANTS
  Clients,         \* devices that connect
  NoClient,        \* marks the absence of one
  LenMod,          \* one more than the largest u16
  Byte,            \* values of bytes; 0 is one of them
  Blocks,          \* the data clients write
  ServiceRange,    \* the handles of the database's services, by UUID
  Attributes,      \* its characteristics: [uuid, value, ccc] (ccc 0: there is none)
  Specs            \* arguments of new: [services, characteristics]

Handles == UNION {{a.value, a.ccc} : a \in Attributes} \ {0}

Characteristic ==
  [service : DOMAIN ServiceRange \cup UNION {s.services : s \in Specs},
   uuid : {a.uuid : a \in Attributes}, notify : BOOLEAN, write : BOOLEAN, initial_value : Seq(Byte)]

ASSUME ClientAssumption == NoClient \notin Clients
ASSUME DataAssumption ==
  /\ LenMod \in Nat \ {0}
  /\ 0 \in Byte
  /\ Byte \subseteq Nat
  /\ \A b \in Blocks : b \in Seq(Byte) /\ Len(b) < LenMod
\* Handles are unique, and a CCC belongs to one characteristic.
ASSUME DatabaseAssumption ==
  /\ \A a \in Attributes : a.value \in Nat \ {0} /\ a.ccc \in Nat
  /\ \A a, b \in Attributes : a.value # b.ccc
  /\ \A a, b \in Attributes : a.value = b.value \/ (a.ccc = b.ccc /\ a.ccc # 0) => a = b
ASSUME SpecAssumption == \A s \in Specs : s.characteristics \in Seq(Characteristic)

VARIABLES
  chars,                 \* characteristics_by_value_handle
  ccc_to_value_handle,
  notification_enabled,
  connected_handle,      \* _connected_handle: whose it is
  peer,                  \* the client that is connected
  transaction,           \* "open": it has prepared writes; "cancelled": it had
  asked,                 \* history: the CCCs with which it has switched notifications
                         \* on since it connected and the tables are there
  written,               \* history: what each value should read as, byte by byte
  before                 \* history: the values before its prepared write

tables == <<chars, ccc_to_value_handle, notification_enabled, connected_handle>>
history == <<asked, written, before>>
attributes == <<tables, peer, transaction, history>>
allVars == <<vars, attributes>>

Empty == [h \in {} |-> 0]
Values == [h \in DOMAIN chars |-> chars[h].value]

-----------------------------------------------------------------------------
(* resolve_characteristics.                                                *)

\* gatt_server_get_value_handle_for_characteristic_with_uuid16 and its likes
\* find the first characteristic with the UUID in a range of handles.
Found(range, uuid) == {a \in Attributes : a.uuid = uuid /\ a.value \in range}
First(range, uuid) ==
  CHOOSE a \in Found(range, uuid) : \A b \in Found(range, uuid) : a.value <= b.value

ValueHandle(ch) == First(ServiceRange[ch.service], ch.uuid).value

\* Mutant of CccHandle: the range of the service is ignored.
CccHandleAnywhere(ch) == First(Handles, ch.uuid).ccc

CccHandle(ch) == First(ServiceRange[ch.service], ch.uuid).ccc

\* Every service, characteristic and CCC that the specification needs is there.
Resolvable(spec) ==
  /\ spec.services \subseteq DOMAIN ServiceRange
  /\ \A i \in DOMAIN spec.characteristics :
       LET ch == spec.characteristics[i]
       IN  /\ ch.service \in DOMAIN ServiceRange
           /\ Found(ServiceRange[ch.service], ch.uuid) # {}
           /\ ch.notify => CccHandle(ch) # 0

\* Of two characteristics with the same value handle the later one stays.
Resolve(spec) ==
  LET cs == spec.characteristics
      ListedAs(h) == {i \in DOMAIN cs : ValueHandle(cs[i]) = h}
  IN  [h \in {ValueHandle(cs[i]) : i \in DOMAIN cs} |->
         LET i == CHOOSE j \in ListedAs(h) : \A k \in ListedAs(h) : k <= j
         IN  [spec |-> cs[i],
              ccc |-> IF cs[i].notify THEN CccHandle(cs[i]) ELSE 0,
              value |-> cs[i].initial_value]]

-----------------------------------------------------------------------------
(* The server.                                                             *)

\* Every byte that is not there counts as 0.
AsWritten(value) ==
  [size |-> Len(value),
   bytes |-> [i \in 1..2 * (LenMod - 1) |-> IF i <= Len(value) THEN value[i] ELSE 0]]

\* RUNTIME = Some(..), with the table of the values.
InstallTables(c, spec) ==
  /\ Install(c)
  /\ Resolvable(spec)
  /\ chars' = Resolve(spec)
  /\ ccc_to_value_handle' = Empty
  /\ notification_enabled' = Empty
  /\ connected_handle' = NoClient
  /\ asked' = {}
  /\ written' = [h \in DOMAIN chars' |-> AsWritten(chars'[h].value)]
  /\ transaction' = "none"
  /\ before' = Empty
  /\ UNCHANGED peer

\* The ? on resolve_characteristics.
RefuseSpec(c, spec) ==
  /\ ResolveFails(c)
  /\ ~Resolvable(spec)
  /\ UNCHANGED attributes

\* The CCC tables are computed, in any order of the characteristics.
FillTables(c) ==
  LET notifiable == {h \in DOMAIN chars : chars[h].ccc # 0}
      cccs == {chars[h].ccc : h \in notifiable}
  IN  /\ Register(c)
      /\ ccc_to_value_handle' \in {f \in [cccs -> notifiable] : \A k \in cccs : chars[f[k]].ccc = k}
      /\ notification_enabled' = [h \in notifiable |-> FALSE]
      /\ UNCHANGED <<chars, connected_handle, peer, transaction, history>>

\* RUNTIME = None.
ClearTables(c) ==
  /\ Forget(c)
  /\ chars' = Empty
  /\ ccc_to_value_handle' = Empty
  /\ notification_enabled' = Empty
  /\ connected_handle' = NoClient
  /\ asked' = {}
  /\ written' = Empty
  /\ transaction' = "none"
  /\ before' = Empty
  /\ UNCHANGED peer

\* The steps of the server that leave the tables alone.
Elsewhere ==
  /\ \/ \E c \in Creators : New(c) \/ Drop(c)
     \/ \E u \in Users, c \in Creators, on \in BOOLEAN : Request(u, c, on)
     \/ \E u \in Users : Post(u)
     \/ Update
  /\ UNCHANGED attributes

-----------------------------------------------------------------------------
(* The client and the callbacks.                                           *)

\* The run-loop thread may enter a callback.
RunLoop == UNCHANGED vars /\ lpc = "idle"

\* ATT_EVENT_CONNECTED reaches packet_handler.
Connect(p) ==
  /\ RunLoop
  /\ peer = NoClient
  /\ peer' = p
  /\ connected_handle' = IF RUNTIME THEN p ELSE connected_handle
  /\ UNCHANGED <<chars, ccc_to_value_handle, notification_enabled, transaction, history>>

\* The client is gone, and what it has prepared; this is what ATT_EVENT_DISCONNECTED
\* makes of the server's state.
Leaves(handle, enabled) ==
  /\ RunLoop
  /\ peer # NoClient
  /\ peer' = NoClient
  /\ connected_handle' = handle
  /\ notification_enabled' = enabled
  /\ transaction' = "none"
  /\ asked' = {}
  /\ before' = Empty
  /\ UNCHANGED <<chars, ccc_to_value_handle, written>>

\* Mutants of Disconnect: the flags stay; the handle of the client stays.
DisconnectKeepsFlags == Leaves(NoClient, notification_enabled)
DisconnectKeepsHandle == Leaves(connected_handle, [h \in DOMAIN notification_enabled |-> FALSE])

\* packet_handler, ATT_EVENT_DISCONNECTED.  (Without a server there are no flags.)
Disconnect == Leaves(NoClient, [h \in DOMAIN notification_enabled |-> FALSE])

\* The data is laid over a value that was resized, with zeros, to hold at
\* least required bytes.
OverlayIn(value, required, offset, block) ==
  [i \in 1..(IF Len(value) < required THEN required ELSE Len(value)) |->
     IF offset < i /\ i <= offset + Len(block) THEN block[i - offset]
     ELSE IF i <= Len(value) THEN value[i] ELSE 0]

\* Mutant of Overlay: there is room for the data, not for its offset.
OverlayWithoutOffset(value, offset, block) == OverlayIn(value, Len(block), offset, block)

\* resize and copy_nonoverlapping.
Overlay(value, offset, block) == OverlayIn(value, offset + Len(block), offset, block)

\* att_write_callback for data; the transaction mode is not looked at.
att_write_callback(h, offset, block) ==
  \/ /\ h \in DOMAIN ccc_to_value_handle
     /\ notification_enabled' =
          IF Len(block) >= 2
          THEN [notification_enabled EXCEPT ![ccc_to_value_handle[h]] = (block[1] % 2 = 1)]
          ELSE notification_enabled
     /\ UNCHANGED chars
  \/ /\ h \notin DOMAIN ccc_to_value_handle
     /\ chars' = IF h \in DOMAIN chars /\ chars[h].spec.write
                 THEN [chars EXCEPT ![h].value = Overlay(@, offset, block)] ELSE chars
     /\ UNCHANGED notification_enabled

Recorded(w, offset, block) ==
  [size |-> IF w.size < offset + Len(block) THEN offset + Len(block) ELSE w.size,
   bytes |-> [i \in DOMAIN w.bytes |->
                IF i \in offset + 1..offset + Len(block) THEN block[i - offset] ELSE w.bytes[i]]]

\* What the client has told the server by it.
Remember(h, offset, block) ==
  /\ asked' =
       CASE Len(block) >= 2 /\ RUNTIME /\ (\A c \in Creators : cpc[c] # "register")
              /\ (\E a \in Attributes : a.ccc = h) ->
              IF block[1] % 2 = 1 THEN asked \cup {h} ELSE asked \ {h}
         [] OTHER -> asked
  /\ written' = IF h \in DOMAIN chars /\ chars[h].spec.write
                THEN [written EXCEPT ![h] = Recorded(@, offset, block)] ELSE written

\* A write request or command, while no prepared write waits (a bound).
Write(h, offset, block) ==
  /\ RunLoop
  /\ peer # NoClient
  /\ transaction # "open"
  /\ transaction' = "none"
  /\ before' = Empty
  /\ att_write_callback(h, offset, block)
  /\ Remember(h, offset, block)
  /\ UNCHANGED <<ccc_to_value_handle, connected_handle, peer>>

\* A prepared write request; a transaction has one of them (a bound).
Prepare(h, offset, block) ==
  /\ RunLoop
  /\ peer # NoClient
  /\ transaction # "open"
  /\ transaction' = "open"
  /\ before' = Values
  /\ att_write_callback(h, offset, block)
  /\ Remember(h, offset, block)
  /\ UNCHANGED <<ccc_to_value_handle, connected_handle, peer>>

\* An execute write request: att_write_callback gets no data, and returns 0.
Execute ==
  /\ RunLoop
  /\ transaction = "open"
  /\ transaction' = "none"
  /\ before' = Empty
  /\ UNCHANGED <<tables, peer, asked, written>>

\* One that says to cancel: att_write_callback gets ATT_TRANSACTION_MODE_CANCEL
\* and no data, and returns 0.
Cancel ==
  /\ RunLoop
  /\ transaction = "open"
  /\ transaction' = "cancelled"
  /\ UNCHANGED <<tables, peer, history>>

\* att_read_callback, with BTstack's att_read_callback_handle_blob: the bytes
\* it puts into the buffer.
att_read_callback(h, offset, size) ==
  IF h \in DOMAIN chars
  THEN LET value == chars[h].value
           length == Len(value) % LenMod
       IN  [i \in 1..(IF length < offset THEN 0
                      ELSE IF size < length - offset THEN size ELSE length - offset) |->
              value[offset + i]]
  ELSE <<>>

-----------------------------------------------------------------------------
Data(h) == IF \E a \in Attributes : a.ccc = h THEN {<<1>>, <<0, 0>>, <<3, 0>>} ELSE Blocks

ServerNext ==
  \/ \E c \in Creators, spec \in Specs : InstallTables(c, spec) \/ RefuseSpec(c, spec)
  \/ \E c \in Creators : FillTables(c)
  \/ \E c \in Creators : ClearTables(c)
  \/ Elsewhere
  \/ \E p \in Clients : Connect(p)
  \/ Disconnect
  \/ \E h \in Handles, offset \in 0..LenMod - 1 : \E block \in Data(h) :
       Write(h, offset, block) \/ Prepare(h, offset, block)
  \/ Execute
  \/ Cancel

ServerInit ==
  /\ Init
  /\ chars = Empty
  /\ ccc_to_value_handle = Empty
  /\ notification_enabled = Empty
  /\ connected_handle = NoClient
  /\ peer = NoClient
  /\ transaction = "none"
  /\ asked = {}
  /\ written = Empty
  /\ before = Empty

ServerSpec == ServerInit /\ [][ServerNext]_allVars

\* The run loop runs; a thread that has set the flag goes on to post, and one
\* that has begun to drop a server goes on to forget it.  Nothing is asked of
\* the client.
FairServerSpec ==
  /\ ServerSpec
  /\ WF_allVars(Update /\ UNCHANGED attributes)
  /\ \A u \in Users : WF_allVars(Post(u) /\ UNCHANGED attributes)
  /\ \A c \in Creators : WF_allVars(ClearTables(c))

-----------------------------------------------------------------------------
(* Properties.                                                             *)

ServerTypeOK ==
  /\ TypeOK
  /\ chars \in [DOMAIN chars -> [spec : Characteristic, ccc : Nat, value : Seq(Byte)]]
  /\ DOMAIN notification_enabled \subseteq DOMAIN chars
  /\ notification_enabled \in [DOMAIN notification_enabled -> BOOLEAN]
  /\ ccc_to_value_handle \in [DOMAIN ccc_to_value_handle -> DOMAIN notification_enabled]
  /\ peer \in Clients \cup {NoClient}
  /\ connected_handle \in {NoClient, peer}
  /\ transaction \in {"none", "open", "cancelled"}

\* A characteristic's flag is what its client has written to its CCC: not the
\* end of another client, nor a server that was dropped and made anew, nor a
\* characteristic with the same UUID in another service, has a say in it
\* (peripheral.rs:253-260, 423-450, 464-470, 513-521).
SubscriptionsKept ==
  \A a \in Attributes, c \in Creators :
    cpc[c] \in {"owns", "drop"} /\ a.value \in DOMAIN chars /\ chars[a.value].spec.notify =>
      (notification_enabled[a.value] <=> a.ccc \in asked)

\* A read, of any part, returns bytes written last at their place, zeros where a
\* write left a gap, and none past the end of the longest write; it returns all
\* of them if the value is shorter than 2^16, the 2^16 of which the length is
\* taken as a u16 (peripheral.rs:487-493, 538-545).
ReadsReturnWrites ==
  \A h \in DOMAIN chars, offset, size \in 0..LenMod - 1 :
    LET read == att_read_callback(h, offset, size)
        there == {i \in 1..size : offset + i <= written[h].size}
    IN  /\ DOMAIN read \subseteq there
        /\ written[h].size < LenMod => DOMAIN read = there
        /\ \A i \in DOMAIN read : read[i] = written[h].bytes[offset + i]

\* "Otherwise, all callbacks will be called with ATT_TRANSACTION_MODE_CANCEL"
\* (libusb_main_bindings.rs:5288): prepared writes that are cancelled leave the
\* values as they were.
CancelUndoes == transaction = "cancelled" => Values = before
=============================================================================
