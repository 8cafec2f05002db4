# A TLA+ model of btstack-rs

This directory holds a specification of the Rust side of btstack-rs: the HCI
transport over nusb with its choice of a device, the process-wide owner of
BTstack, the GATT server on top of it with its attributes, and the counter
example. The modules are checked with TLC on small instances; the invariants and
the refinements are proved with TLAPS for every value of the constants. Source locations are given as `file.rs:line`; `lib.rs`, `io.rs`,
`types.rs`, `state.rs`, `usb.rs` are those of `btstack-hci-transport-nusb/src`,
`runtime.rs`, `peripheral.rs`, `gatt_counter.rs` those of `btstack-gatt/src`.

## 1. The system

BTstack, a C library, is single threaded: everything in it runs on the thread
that executes its run loop. The Rust code puts threads around it.

    program ── BtstackRuntime ──> run-loop thread: BTstack ──> hci_transport_t
                                      │      ▲                     │
               GattPeripheralServer ──┘      │ packet handler      │ can_send_packet_now
                                             │                     ▼ send_packet
       event reader ─┐                       │               bounded channel
       ACL reader   ─┼── emit_packet ────────┘                     │
       writer       ─┘ <───────────────────────────────────────────┘
            │ nusb endpoints (interrupt IN, bulk IN, bulk OUT, control)
         USB controller

### 1.1 Components

| component | state | operations | interacts with |
|---|---|---|---|
| outgoing path (`lib.rs:175-239`, `io.rs:99-194,225-244`) | `outgoing_pending` (atomic), the `sync_channel`, `in_flight_out`, the bulk OUT queue, the `stop` flag | `can_send_packet_now`, `send_packet`, the writer loop | any thread of BTstack calls it; it calls the packet handler (`HCI_EVENT_TRANSPORT_PACKET_SENT`), possibly re-entered from there |
| inbound path (`io.rs:19-97,180-187`) | per reader: the nusb queue with its buffers, `stop` | the event and ACL reader loops | calls the packet handler; ended by `transport_close` |
| transport life cycle (`lib.rs:87-172`, `state.rs`, `io.rs:196-223`) | `STATE` (mutex): `active`, `packet_handler`, `selected` | `init`, `open`, `close`, `register_packet_handler` | starts, publishes, stops and joins the three workers |
| USB device selection (`usb.rs`, `lib.rs:47-117`, `io.rs:196-208`) | `STATE.selected` | `transport_init`, `select_device`, `is_candidate_device`, `detect_endpoints`, `usb_path`, `emit_usb_info` | its device and endpoints are what `open` and the workers use; the report goes to the packet handler |
| runtime owner (`runtime.rs`) | `RUNTIME_ACTIVE` (atomic), the loop handle, BTstack's globals (external) | `start`, `start_with_init`, `join`, `shutdown`, `Drop` | owns the run-loop thread |
| GATT peripheral server (`peripheral.rs`) | `static mut RUNTIME`: characteristics, CCC table, advertising configuration | `new`, `start_advertising`, `stop`, `Drop`; callbacks for ATT reads, writes, connection events, the marshalled advertising update | called by the program and, on the run-loop thread, by BTstack |
| GATT counter example (`gatt_counter.rs`) | counter, text, notification flag, connection handle, heartbeat timer | `setup`, heartbeat, packet handler, ATT callbacks | run-loop thread only |
| build script and bindings (`btstack-sys`) | none | none | not part of the behaviour |

### 1.2 What is hard in it

* **Outgoing path.** A slot is reserved on an atomic by a load and a
  compare-exchange; the packet is put into a channel by another call; the writer
  takes it out, and gives the slot back at yet another place, once per way a
  transfer can end. Several threads do the first part at once. Correct means:
  the counter always equals the packets somewhere between reservation and
  completion; a reservation is worth a place in the channel; a thread that was
  told "not now" hears of it when that changes; accepted packets end; the
  writer ends after stop.
* **Inbound path.** A ring of transfers must never lose a buffer whatever its
  completion; packets go up in order and once; the stop flag is read at one
  place only; a stalled endpoint must come back although the result of
  `clear_halt` is dropped.
* **Life cycle.** The check for an open transport and its publication are two
  critical sections with blocking USB work and thread creation in between, and every
  open selects a device anew, which need not be the one another open has claimed;
  close takes the session out first and joins after; both may be called by
  several threads, and by the packet handler on the very threads that close
  joins.
* **Runtime owner.** An atomic flag guards C globals; the thread handle doubles
  as "there is something to shut down"; `?` leaves shutdown half-way; `hci_close`
  closes the transport, which waits for its workers.
* **Device selection.** The selection outlives a session; a device is named by bus
  and ports, which a report gives in one form and a configuration takes in
  another; devices come and go; a descriptor lists endpoints in any order.
* **GATT server.** `static mut` shared by the program's threads and the run-loop
  thread; one callback registration posted repeatedly, by several threads, while
  the update it stands for is running; `new` and Drop around all of it; CCC
  state by handle, for a client that comes and goes at any moment of this. Correct
  means: the controller ends up with what was asked for last, and advertises only
  for a server that is there; a notification flag is what the present client asked
  for; reads return what was written, at any offset.
* **Counter example.** One flag, one connection handle and one text for all
  clients, callbacks that refer to them later, and statics that outlive the
  runtime. Correct means: a subscriber goes on hearing, of new texts only, and
  nobody else hears more than what was on its way.

`PROJECT.json` lists these one by one, at their lines, with the property that
watches over each, or the reason why none does.

## 2. Modules

| module | what it is |
|---|---|
| `OutgoingQueue` | the outgoing path in detail: one step per access to shared state |
| `SendService` | abstract: a pool of slots, and two FIFO lanes (commands, bulk data) for accepted packets |
| `WorkerThread` | abstract: what `open` and `close` rely on in a worker: calls the handler one at a time, ends only after stop, is silent then |
| `Lanes` | the packets of one kind in a queue that carries several: what the mappings to `SendService` and `PacketStream` are made of |
| `MCOutgoingQueue` | symmetry sets for TLC |
| `InboundReader` | a reader thread, its ring of transfers and the endpoint |
| `PacketStream` | abstract: packets are delivered once and in order until the stream is closed |
| `TransportLifecycle` | `STATE` and the sessions: open, close, register by several threads and from handlers, with the workers reduced to their places |
| `BtstackRuntime` | the runtime flag, owners and run-loop threads |
| `PeripheralServer` | the server in `static mut RUNTIME`, requests for advertising and the update on the run loop |
| `GattServer` | `PeripheralServer` with what `new` resolves, attribute values, CCC tables, and a client with the ATT callbacks |
| `MCGattServer` | a database and two specifications for TLC |
| `GattCounter` | the counter example: its statics and callbacks over connections and restarts |
| `UsbSelection` | configurations, selections, the device that is opened, its endpoints and its report |
| `MCUsbSelection` | adapters with their descriptors, and configurations for TLC |
| `OutgoingQueueProofs`, `InboundReaderProofs`, `TransportLifecycleProofs`, `BtstackRuntimeProofs`, `GattServerProofs` (with `PeripheralServer`), `GattCounterProofs`, `UsbSelectionProofs` | theorems |
| `LanesProofs` | lemmas about lanes and sequences, and the induction they rest on |

`OutgoingQueue` implements `SendService` and `WorkerThread`; `InboundReader`
implements `PacketStream` and `WorkerThread`; `TransportLifecycle` uses workers
that do what `WorkerThread` says (they leave only after `stop`, from outside a
call), which is a property of its own, `WorkersKeepContract`: every step is one of `WorkerThread`
for each worker of each session, or leaves the worker alone, or begins the session anew. So the life cycle
is checked against the contract the detailed loops
are shown to keep, not against their detail. There is one exception: the writer of a session that was
replaced in `STATE` ends for want of a sender (`io.rs:120`). `OutgoingQueue` is about the other sessions, whose
sender stays with `STATE` until the stop flag is up; hence its `RecvTimeout` has no such outcome. `GattServer` extends
`PeripheralServer`: each step of the server is one of that module's with what it
does to the tables, and it is proved that it implements that module.
`UsbSelection` fills in what `TransportLifecycle` leaves open, the outcome of
`transport_open`'s search; the two share no other state.

### 2.1 OutgoingQueue

Each caller (`spc`) goes through `can_send_packet_now` (one load), then
`send_packet`: `ReserveLoad`/`ReserveFull`/`ReserveOk`/`ReserveRetry` are
`try_reserve_send_slot` with its `compare_exchange_weak` loop (spurious failure
included), `Push`/`PushRefused` the `try_send`, `Undo` the `fetch_sub` of the
error paths. The writer (`wpc`): `RecvCommand`, `RecvBulk` and `RecvTimeout` are
the inner loop `while in_flight_out < ACL_OUT_IN_FLIGHT`, `CommandEnds` the
awaited control transfer with its slot and its event, `WriterCheckStop`,
`WriterGoOn`, `WriterExit`, `PollNothing`, `PollCompletion` the second half of
the loop. `Emit` is the call of the packet handler; `Writer \in Callers` lets
the handler call back into the transport from the writer thread.
`TransferEnds` is the environment: completions come in submission order, with a
status; `cancel_all` makes the rest come back cancelled.

Abstractions. A packet is a model value with a kind (command, bulk: ACL or ISO,
unsupported). `outgoing_pending` is accessed with `Relaxed` and `AcqRel`
orderings; it is a single location, whose modifications are totally ordered, and
no other data is published through it, so its accesses are atomic steps here.
The stop flag is a single location too. Time is left out: `recv_timeout` may time out
at any moment, and `block_on(poll_once(queue.next_complete()))` looks once, at any moment, and yields
a completion if there is one. The `fetch_sub` that gives a slot back and the completion or the start of the
event that follows it are one step, so `CallerIsWoken` is about a wake-up that is lost between a refusal and the
next completion, not about the order of the two within one. The environment reuses a
packet once nobody has it any more, so executions are infinite on finite data.

### 2.2 InboundReader

`queue` is the nusb queue: each transfer posted or completed, with what it
brought. `PollCompletion`, `Emit`, `HandlerReturns`, `ClearHalt`, `Resubmit`
follow the loop body; `CancelAll`, `Drain`, `DrainEnd`, `Exit` its end. The event
and the ACL reader differ in buffer size and transfer type only, so one module
stands for both. The endpoint is external: it completes the oldest transfer with
a packet, empty, stalled (and then is halted until cleared) or failed.
`lateCalls` counts the handler calls begun after the stop flag; it is a history
variable no guard reads.

### 2.3 TransportLifecycle

Threads of the API, and the packet handler on the workers in `Reentrant`, call
`open`, `close` and `register_packet_handler`. `Open` is the first critical
section, `OpenFails` any failing USB step, `Claim` the claim of the interface
(refused while any thread still has a clone of it), `EmitUsbInfo`, `Spawn`,
`Publish` the rest. `Close` takes the session out of `STATE`, `CloseStop` raises
the flag, `JoinReader` and `JoinWriter` are the joins in the order of the code.

A session is a name, used again once nothing of it is left. `Claim` selects its adapter: every open does so anew,
as `lib.rs:93-113` copies the selection, releases the lock, and takes a device of those plugged in by then.
The interface of one adapter is claimed by one holder at a time, which is what USB gives; its
release when the last clone is dropped is nusb's. The claims of two adapters do not exclude each other, so
`Publish` may find a session in `STATE` and drop it (`lib.rs:134`). `replaced`, a history variable, holds the sessions
dropped so. Nothing reaches the stop flag of such a session any more: its readers run
as long as the process does, its writer ends once its channel is empty (`WriterLosesSender`, the one
action that looks at `replaced`, which there stands for the sender that was dropped with the session).

A worker finds a completion and, in the same step, looks at the handler under the lock (`EmitPacket`): nobody
else sees what is in between. The call begins with that look, so a handler may be exchanged while it runs. `Handlers` are what
is registered; with `NoHandler` among them (the code takes `None`) it may be taken back. The runs leave that out: nothing in the repository registers `None`.

### 2.4 BtstackRuntime

Owners start, join, shut down and drop their runtimes; each has its loop thread.
`InitGlobals`, `Deinit` go through BTstack's globals one at a time. `HciClose` (`runtime.rs:113`) is a step of its
own, without fairness of its own: `hci_close` closes the transport, and
`transport_close` returns only if the controller talks (`CloseReturns`, `lifecycle_quiet`). `Clients`
says what a program does besides start, shutdown and drop: `"join"`,
`"init panics"`, `"shutdown again"` (calling shutdown on a runtime that was shut
down successfully; calling it again after an error is always allowed). No run has
`"shutdown again"`, and the theorems exclude it: with it `ExitFindsRunLoop` fails
at once, since `shutdown` takes `&mut self` and does not remember that it has run, so
that a second call triggers the exit of a run loop that is deinitialised
(`runtime.rs:105-107`), or of the one another owner has started since. Assumed of BTstack: an exit request
holds until the run loop is initialised anew, so that it is not lost if it comes
before `btstack_run_loop_execute`. `ShutdownCompletes` rests on this, and on `TransportCloses` (section 3).

### 2.5 PeripheralServer

A thread in `Creators` makes servers (`New`, `ResolveFails`, `Install`,
`Register`) and drops them (`Drop`, `Forget`); threads in `Users` call
`start_advertising` and `stop` through a shared reference: `Request` sets the flag,
`Post` posts the update. The type system of Rust gives the guards of `Drop`: nobody
uses the server any more. `RUNTIME` has no lock. That its accesses by two threads are data
races is left aside; each access is a step, and the steps interleave, which
is what the build makes of accesses to a `bool` and a discriminant.
On the run-loop thread, `Call` takes the registration out of the list
(`pending`; a registration is in it at most once), and `Look`, `SetData`,
`Enable` are `run_loop_advertising_update`. `gap_advertisements_enable` and
`gap_advertisements_set_data` are external: `radio` and `advData` hold what
BTstack was told last. The parameters given with the data are not told apart.
`overlap` is a history variable: Drop and an update ran at the same time. No
guard reads it.

### 2.6 GattServer

`InstallTables`, `RefuseSpec`, `FillTables` and `ClearTables` are the steps of
`PeripheralServer` that touch the tables (`Install`, `ResolveFails`, `Register`,
`Forget`) with what they do to them. `Resolve` is `resolve_characteristics`:
the lookups `gatt_server_get_*` find the first characteristic with a UUID in a range
of handles, so two of one UUID in one service collapse into one entry, of which
the later wins. `att_write_callback`, `att_read_callback`, `Connect` and
`Disconnect` are the callbacks. They run on the run-loop thread, so never inside
`run_loop_advertising_update` (`RunLoop`), but between any two steps of the program.
A callback that Drop meets half-way, on another thread, is the same hazard as
in `peripheral_drop` and is not shown again: a callback is one step.

Lengths, offsets and sizes are below `LenMod`, which stands for 2^16; a length is taken
modulo it, as the cast to `u16` does. Bytes are numbers of a small set; a
configuration is enabled by its lowest bit. Properties of a characteristic are reduced to
`notify` (NOTIFY or INDICATE) and `write` (WRITE or WRITE_WITHOUT_RESPONSE).
`asked`, `written` and `before` are history: what the client has told the server. No
guard reads them.

External: the database, taken to stay as it was (`att_server_init` keeps a pointer
into a vector that `new` drops, `peripheral.rs:218`), and the ATT server, with one
client at a time: BTstack's default for peripheral connections ("default: 1",
`libusb_main_bindings.rs:4631`), which nothing in the repository raises. Bounds on the client: one prepared
write per transaction, no other writes while it is open.

The model shows some things that are no property's business. A client
configuration of one byte is acknowledged and ignored. One that is written between
`peripheral.rs:246` and `260` is acknowledged and lost, so `asked` counts from `Register`
on. A write never shortens a value. The configuration itself always reads as
empty.

### 2.7 GattCounter

All of it runs on the run-loop thread, one callback at a time. `Setup` is
`btstack_main`, `Shutdown` the end of a run loop, after which the statics are still what
they were. The text and the counter are reduced to `unsent`: the text has changed
since it was notified. `requested` are the connections that wait for
`ATT_EVENT_CAN_SEND_NOW`; the event may come during the request
(`libusb_main_bindings.rs:6623`), which is the same as right after it, for all that is
left of the caller then is to start its timer. Clients get handles from a finite
set in any order, so handles are used again. `wants`, `unwanted` and `carried`
are history. `wants` is what the code made of the client's write, not what the client meant by it: the two differ
for a write of one byte only, and no property is about that. `carried` says that the flag
was up when a runtime was shut down and has not been written since; `setup` resets neither flag nor handle, and the
client that is then given the old handle is notified without having asked and without limit. `UnwantedOnce` names
this as its one exception. `WriteConfiguration` compares the whole word with 1, unlike
`peripheral.rs:519`, which looks at one bit; of a write of one byte the other is whatever
is in the buffer.

### 2.8 UsbSelection

An optional value is a set with at most one element. `transport_init` makes the
selection, `transport_open` picks any plugged device that `is_candidate_device`
accepts (`nusb` lists them in any order), with `detect_endpoints`, a fold over the descriptor,
and `Reported` is the content of `HCI_EVENT_TRANSPORT_USB_INFO`, read back as a
configuration. A sysfs name is the sequence of its ports; `usb_path` is what
`parse_usb_path` makes of it: none for a root hub, for a port above 255 or for more
than `MaxPathLen` ports. On other systems than Linux and Android there is no path at all.
Assumed: there is one device at a port at a time.

## 3. What is checked

| run | instance | shows |
|---|---|---|
| `queue_safety` | callers `bt`, `rd` and the writer; 2 commands, 2 bulk packets, 1 unsupported; depth 2, 2 in flight | `SlotAccounting`: every slot counted once, through all error paths and after the receiver is gone. `ReservedMeansRoom`, `NoHeadOfLineBlocking`; refinement of `SendService` (`ServiceSpec`) and `WorkerThread` (`WorkerSpec`) |
| `queue_live` | one caller, depth 2, 1 in flight, a transfer fails only if cancelled | `GrantKept`, `AcceptedPacketsEnd`, `CallerIsWoken`, `WriterEnds` |
| `reader` | 3 buffers, 3 packets | `RingComplete`, `FewLateCalls`, `StreamSpec`, `WorkerSpec`, `HaltIsCleared`, `ReaderEnds` |
| `lifecycle` | 1 API thread and a packet handler that calls from the event readers, 2 sessions, 2 adapters; IN traffic on both endpoints | `ReplacedOnlyByAnother`, `NoOrphans`, `ActiveIsComplete`, `CloseLeavesNothing`, `WorkersKeepContract`, `CloseReturns` |
| `lifecycle_quiet` | 2 API threads, 1 adapter, no traffic | `CloseReturns` is violated |
| `runtime` | 3 owners that join and whose init panics | `LoopFindsGlobals`, `InactiveMeansGone`, `ExitFindsRunLoop`, `ShutdownReleases`; `ShutdownCompletes`, if `hci_close` returns |
| `runtime_join` | 3 owners that join | `ActiveHasOwner` is violated |
| `gatt_server` | 1 thread that makes and drops servers, 2 that start and stop advertising, 1 client; 2 services with a characteristic of one UUID each, one of them writable; values empty at first, writes of 2 bytes at offsets 0 to 3, 4 for 2^16 | `LastRequestWins`, `SilentWithoutServer`, `RequestsTakeEffect` of the server; `SubscriptionsKept`, `ReadsReturnWrites` of the attributes |
| `peripheral_drop` | `PeripheralServer` alone | `AdvDataStaysValid` is violated |
| `gatt_cancel` | as `gatt_server` | `CancelUndoes` is violated |
| `counter` | 3 clients, 3 handles, any number of runtimes | `UnwantedOnce`, with its exception; `NotificationsAreNews`, `SubscriberHears` |
| `selection` | 6 adapters, 6 configurations and the last report, paths of up to 3 ports | `SelectionHonoured`, `ReportFindsItAgain`, `WorkersGetTheirEndpoints` |

Proved, and implied by what the runs check, but no longer checked by a run of their own:
`TransfersCounted`, `OneLoop`, and the type invariants of `InboundReader`, `TransportLifecycle`,
`BtstackRuntime`, `GattCounter` and `UsbSelection`.

Bounds. Depth 2 lets two slots be taken, the third be refused, a compare-exchange
fail because of another caller, the channel hold a command behind a bulk packet,
and, with one transfer in flight (`queue_live`), the inner loop close with something
left in the channel. Three callers are two in a race plus the writer in the handler. The
code's own numbers (depth 4, 4 in flight) only lengthen this; the proofs
hold for all of them. Three buffers are the code's own number for both readers. Two sessions make one being closed
while another is opened, of the same adapter or of another, and one replaced by the other. The threads that do it are three: one of the
API and, while its packet handler runs, the event reader of each session, so that opens and closes meet inside
and outside of each other (a handler opens while the thread that spawned its worker is yet to publish). What more threads and
sessions add is for the proofs.
With three owners two can fail to start while a third
is on its way. Two users set and post in any order around one update; the
server is dropped and made again without end, so an update posted for one server meets the next.
Values are empty at first, and two bytes are written. At offset 0 they begin the value; at offset 1 they leave a gap in an
empty value, whose length of 3 is below the 4 that stand for 2^16, so that it is read in full, and lie across the end of a value of 2 bytes or
inside a longer one; at offsets 2 and 3 they make 4 or 5 bytes, whose length as a u16 is 0 or 1. The first and the second
of two characteristics with one UUID differ in everything. Three clients and three
handles: a client comes back with its handle, with another, or with another's.
The adapters are two of one make at the same ports of two buses, one that takes the place of
the first, one of another make with its endpoints in a strange order, one that is not Bluetooth and
a root hub. Deadlock checking is off in `reader` (the thread ends, and then
nothing is left to do) and in `runtime*` with clients that leak the flag (nobody
can start again; this is what `runtime_join` shows).

Fairness. `ThreadsFair`: a thread that can take a step does (weak fairness per
caller, writer, reader, open/close, owner, loop thread): the operating system
schedules them. Strong fairness only where a step comes and goes with the actions
of others: a packet handler that may call into the transport any number of times
returns in the end; the writer, busy with a finite number of transfers, gets to the stop
flag; `clear_halt` succeeds in the end if it is tried again and again, and a halted
endpoint stalls what it is given. `TransfersEnd` (the controller takes every OUT transfer)
is a premise of `AcceptedPacketsEnd` and `CallerIsWoken` only; the specification that
`queue_live` runs, and `WriterEnds`, assume less, that cancelled bulk transfers come back and the control transfer ends.
`GattServer` asks that the run loop runs, that a thread that has set the flag
goes on to post, and that a Drop that has begun ends; nothing of the client.
`GattCounter` asks that its timer expires and that a connection that has asked gets to
send: both are promises of BTstack.
`ControllerTalks` (one more IN transfer completes) is what `ReaderEnds` and
`CloseReturns` need, and `lifecycle_quiet` shows that they do.
`TransportCloses` (`hci_close`, once called, returns) is what `ShutdownCompletes` needs; it is not the code's to give
but the conclusion of `CloseReturns`, so that with a controller that has nothing to send `shutdown` does not return either.

Conditions that show in the properties. `AcceptedPacketsEnd` has the premise that
the writer leaves its inner loop again and again: the code drains the channel,
awaiting each command, before it looks at bulk completions. `GrantKept` is about
one sending thread: with two, the answer may be stale. `CallerIsWoken` is about
transfers that do not fail: a failed one frees its slot without
`HCI_EVENT_TRANSPORT_PACKET_SENT`.

A second adapter takes the place of the first. The look at `STATE.active` (`lib.rs:94`) and the store (`lib.rs:134`) are two
critical sections, and what keeps two opens apart in between is the claim of one interface. Two opens that select different
adapters, because one was plugged in or configured between them, both succeed; the second store drops the first
session, whose threads are detached, and whose readers nobody can stop. The repository does not say what should happen there, so
the properties say how far it goes: `ReplacedOnlyByAnother` that a session is replaced by one of another adapter only, and
`NoOrphans` that the threads of a replaced session are the only ones left behind. Where there is one adapter, nothing
runs once the transport is closed (`ClosedIsQuiet`, proved in `OneAdapterIsQuiet`; with two adapters, TLC refutes it).

### 3.1 Disagreements

* **`transport_close` waits for the controller.** The readers read the stop flag
  only after a completion (`io.rs:46`, `io.rs:86`), and pending IN transfers are
  cancelled by the reader itself, after it has seen the flag. With no traffic the join in
  `transport_close` does not return (`lifecycle_quiet`).
* **A joined runtime is not cleaned up by Drop** (`runtime_join`): `join` takes the
  handle by which Drop decides whether to shut down. `gatt_counter_main` does
  exactly this. The same happens when init panicked and `shutdown` has returned the error.
* **Drop of the server bypasses the run loop** (`peripheral_drop`). The update is
  marshalled onto the run-loop thread, but Drop disables advertising and frees
  `RUNTIME` on the program's thread (`peripheral.rs:299-306`). If an update has already looked
  at `RUNTIME`, it enables advertising after Drop disabled it, with a pointer to
  data that is gone. `SilentWithoutServer` says that this is the only way.
* **Prepared writes are not undone** (`gatt_cancel`). `att_write_callback` ignores the
  transaction mode: data that is prepared is in the value at once, and a transaction
  that is cancelled (a call with `ATT_TRANSACTION_MODE_CANCEL` and without data, at
  which the callback returns) leaves it there.

Two threads that call `new` at once may both find `RUNTIME` empty
(`peripheral.rs:211,246`); the instance and the theorems have one creating thread.

## 4. What is proved

All theorems are about the specifications TLC runs, for every value of the
constants that satisfies the named assumptions.

`OutgoingQueueProofs`. Inductive invariant `IInv`: `TypeOK`, `SlotAccounting`,
`TransfersCounted`, and what the program counters say (`WriterInv`, `CallerInv`).
`SlotAccounting` alone is not inductive: the writer's decrement needs that the packet
it completed is still counted, and the poll that the queue it polls has a
transfer, which only its place in the loop tells. From `Inductive` follow
`TypeCorrect`, `SlotsAccounted`, `TransfersAreCounted`, `ReservationIsRoom`,
`CommandsNotBlocked` (where the depth does not exceed the transfers in flight, an
assumption about two unrelated constants of the code) and `WriterIsWorker` (every
step is a `WorkerThread` step or a stutter). `SoleSenderKept` proves `GrantKept`
for one caller, from an invariant of its own: while a grant stands, the counter
is below the depth. `ServiceImplemented` is the refinement of `SendService`: each
action, under `IInv`, maps to one of its steps or to a stutter. A packet the
writer takes out of the channel keeps its place in its lane (a stutter); a transfer that ends is that of the oldest
packet of its lane; the writer ends with no transfer under way, so that both lanes are dropped
with the channel. That an acceptance, or a slot given back, finds a slot to spare there needs `SlotAccounting` and a count
(`HolderSpares`): the packets in both lanes are no more than those the channel, the bulk queue and the writer
hold (`LaneLengths`), and the slot of the caller is one more.

`InboundReaderProofs`. `IInv`: `TypeOK`, `RingComplete`, where the stop flag
stands (`StopInv`) and how many late calls each place allows (`LateInv`). From it
`TypeCorrect`, `RingStaysComplete`, `LateCallsBounded`, `ReaderIsWorker`. `StreamImplemented`,
the refinement of `PacketStream`, needs one thing more (`OrderInv`): completions come in the order of submission,
so the transfers still posted are the last of the ring. Then a packet that arrives is the
last of the lane wherever in the ring it is filled in (`LaneFilled`).

`TransportLifecycleProofs`, for any number of adapters, threads and sessions. `IInv`: `TypeOK`, `ActiveIsComplete`, and
parts the properties do not show: an adapter's interface is held by one session (`OneClaim`), a session is in one hand (one thread, or
`STATE`) at a time (`OneHand`), one that was replaced is in none but that of a thread about to return from opening it, its flag is down and its event reader
runs (`ReplacedRun`), one that holds the interface is held by someone or was replaced (`LiveIsHeld`), and the workers'
places agree with how far the owner has come with opening or closing (`WorkersByPlace`). Theorems:
`TypeCorrect`, `PublishIsSafe` (`ReplacedOnlyByAnother`), `NobodyOrphaned`,
`ActiveComplete`, `CloseEndsWorkers`; and, with the hypothesis that there is one adapter (`OneAdapter`),
`OneAdapterIsQuiet`: `ClosedIsQuiet`, since nothing is ever replaced then. `ContractKept` proves `WorkersKeepContract`; a spawn is the only step it could
fail at, and there an invariant of its own (`Unborn`) says that what an opening thread
is about to spawn has not been spawned yet. With `WriterIsWorker` and `ReaderIsWorker` this
closes the circle: what is assumed of workers in the life cycle is proved of the loops.

`BtstackRuntimeProofs`. `IInv`: `TypeOK`, the flag is a lock (one owner at most is
between start and the end of shutdown), and the globals and the loop thread by the
owner's place. All theorems assume that no runtime that was shut down is shut
down again (`"shutdown again" \notin Clients`), without which the properties fail
(section 2.4): `TypeCorrect`, `GlobalsOutliveLoop`, `ClearMeansGone`,
`OneLoopAtATime`, `ExitIsSafe`, `OkMeansReleased`.

`GattServerProofs`, first about `PeripheralServer`, for one creating thread and any number of users. `IInv`:
`TypeOK`, whose state `RUNTIME` can hold (`ServerByPlace`), that without an overlap an
update about to enable advertising, and the controller while it advertises, work for
a server that is owned (`AdvertisingIsOwned`), and `LastRequestWins`. Theorems:
`TypeCorrect`, `LastRequestPrevails`, `DropSilences`.

Then about `GattServer`, for one creating thread, any database with unique handles and any
specifications. `ServerImplements`: every step is one of `PeripheralServer` or leaves
its variables alone, so the theorems above hold of it (`AdvertisingWithClients`). Inductive invariant
(`ServerInductive`): an entry of the table is a characteristic of the database and has its CCC
(from the lemmas about the lookups, which need the well-foundedness of the naturals for
"the first"), the CCC tables are there between `Register` and `Forget` and agree with each
other, and what is `asked` and `written` is what flags and values say. The flag of one characteristic is
safe from writes to another because CCCs are unique in the database and survive
resolution. From it `FlagsAreTheClients`, `ReadsAreWrites` (for values of any size: of one that has outgrown 16 bits a read
may stop short, but what it returns is what was written there) and, with what is known of the client at any time
(`ClientSide`), `ServerTypeCorrect`.

`GattCounterProofs`. `IInv`: there is one connection at most; a client that wants
notifications is the one the statics speak of, and the flag is set for no other,
unless it was carried over a restart; a client that was notified against its will has
used up the last event there was. Theorems: `NoSecondUnwanted`, with the exception that `UnwantedOnce` names (a flag
carried over a restart, and the client with the handle it was for), and `NoTextTwice`.

`UsbSelectionProofs`. `IInv`: the selection is that of the last configuration alone, what is open
agrees with it, and no two plugged devices are at one port. Theorems: `ConfigurationHonoured`,
`ReportIsAnAddress`. `EndpointsAreFound` is about the fold over a descriptor: after `i` endpoints each kind
has the first that fits among these, or the default, by induction on `i`. It
assumes that endpoints are numbered and that the default ones are numbers (`EndpointsAreListed`).

`LanesProofs`. A lane is a recursive function over a queue (`Lane`), and a
recursive function is what its equations say only if there is one that satisfies
them. The induction theorems of the library take an operator as a parameter, which the provers
here cannot instantiate; but the natural numbers are well-founded (a fact without such a
parameter), so a set of numbers that is not empty has a least one (`Least`), and a *set*
that contains 0 and with each number the next contains them all (`Induction`). With the set
of the indices at which a fact holds this is the induction one needs; `Recursion` is the
existence of the function, of which `LaneTable` is the case of lanes. The rest says how a lane changes when its queue
grows, loses its head, or has an element changed in place (`LaneAppend`, `LaneTail`, `LaneFilled`,
`LaneSame`), and the same for sequences that are joined or mapped.

Only model-checked: all liveness (`AcceptedPacketsEnd`, `CallerIsWoken`, `WriterEnds`,
`HaltIsCleared`, `ReaderEnds`, `CloseReturns`, `ShutdownCompletes`, `RequestsTakeEffect`,
`SubscriberHears`), which needs ENABLED, out of the provers' reach. Every safety property of a passing run is stated by a theorem.

## 5. Not modelled

The build script (`build.rs`: CMake and bindgen calls) and the generated bindings have no behaviour of
their own; the bindings alone are 11160 of the 12935 lines of the implementation, so
that the share of lines these modules stand for is small although they cover nearly
every function of the hand-written Rust. BTstack and
nusb are external and appear as the environment. `emit_usb_info` is modelled as a
call of the handler. The Rust `Mutex` around `STATE` is never poisoned in the
model: no code panics while holding it. Thread creation is assumed to succeed. The
advertising parameters, the security levels of characteristics and the text of the counter
are data no property is about. `setup` in `gatt_counter.rs` and `GattPeripheralServer` are not
used together.

Some hazards have no property, because the repository promises nothing that the code does not do, and each says so
in its note. In the transport: a failed transfer frees its slot without an event; an answer of `can_send_packet_now` is stale
if there are several sending threads; a stream of commands without a pause keeps bulk completions waiting; packets
that were accepted are dropped by a close; a packet handler that closes the transport joins its own thread. In the
runtime: a second `shutdown` after a successful one. In the server and the counter: a client configuration in the window of section 2.6, a `new` by
two threads, the database behind a pointer into a dropped vector, a flag carried over a restart, a configuration of one byte.

## 6. Plan

In this order, the most important behaviour first:

1. `OutgoingQueue`, `SendService`, proofs: done.
2. `InboundReader`, `PacketStream`, `WorkerThread`, proofs: done.
3. `TransportLifecycle`, `BtstackRuntime`, proofs: done.
4. `PeripheralServer`, `GattServer`, proofs: done.
5. `GattCounter`, proofs: done.
6. `UsbSelection`, proofs: done.
7. Refinements of `SendService` and `PacketStream`, `detect_endpoints`, the workers' contract in the life
   cycle, type correctness of `GattServer`: proved.
8. Left: several clients at once in `GattServer`, should the repository raise the number of
   connections; several prepared writes in a transaction.
