---------------------------- MODULE UsbSelection ----------------------------
(***************************************************************************)
(* Which USB adapter the nusb transport opens, and with which endpoints    *)
(* (usb.rs, lib.rs:59-86, types.rs:8-45 of btstack-hci-transport-nusb):    *)
(* a configuration is turned into a selection by transport_init, the       *)
(* selection into a device by transport_open, while devices come and go.   *)
(* transport_open reports the device it has opened with                    *)
(* HCI_EVENT_TRANSPORT_USB_INFO, and a program may select by that report.  *)
(*                                                                         *)
(* An optional value is a set of at most one element.  A sysfs name is the *)
(* sequence of its ports, which for a root hub ("usb1") is empty.  A       *)
(* configuration's path has path_len elements.  External: nusb's list of   *)
(* devices, in any order, and their descriptors.                           *)
(***************************************************************************)
EXTENDS Naturals, Sequences

CONSTANTS
  Devices,       \* the adapters there may be
  Info,          \* of each: vendor_id, product_id, bus_number, ports, bluetooth, endpoints
  Configs,       \* hci_transport_config_nusb_t; the null pointer counts as all zero
  NoDevice,      \* marks that the transport is not open
  DefaultEndpoints,
  MaxPathLen     \* USB_MAX_PATH_LEN

ASSUME NoDeviceIsNone == NoDevice \notin Devices
\* The kernel numbers buses from 1.
ASSUME BusesCountFromOne == \A d \in Devices : Info[d].bus_number # 0
ASSUME PathsAreSequences ==
  /\ MaxPathLen \in Nat
  /\ \A d \in Devices : Info[d].ports \in Seq(Nat)
  /\ \A c \in Configs : c.path \in Seq(Nat)

Kinds == {"event_in", "acl_in", "acl_out"}

\* A descriptor may list endpoints of other kinds as well.
ASSUME EndpointsAreListed ==
  /\ DefaultEndpoints \in [Kinds -> Nat]
  /\ \A d \in Devices :
       Info[d].endpoints \in Seq([interface : Nat, setting : Nat, kind : STRING, address : Nat])

VARIABLES
  plugged,    \* devices that are there
  selected,   \* STATE.selected
  opened,     \* the device of the active transport
  endpoints,  \* what its workers use
  config,     \* history: the last configuration
  last        \* history: the device reported last

vars == <<plugged, selected, opened, endpoints, config, last>>

Option(x) == IF x = 0 THEN {} ELSE {x}
NoConfig == [vendor_id |-> 0, product_id |-> 0, bus_number |-> 0, path |-> <<>>]

-----------------------------------------------------------------------------
(* transport_init.                                                         *)

Selection(c) ==
  [vendor_id |-> Option(c.vendor_id),
   product_id |-> Option(c.product_id),
   bus_number |-> Option(c.bus_number),
   path |-> IF Len(c.path) \in 1..MaxPathLen THEN {c.path} ELSE {}]

\* Mutant of transport_init: what is not configured stays selected.
InitWithoutReset(c) ==
  /\ opened = NoDevice
  /\ config' = c
  /\ selected' = [f \in DOMAIN selected |->
                    IF Selection(c)[f] = {} THEN selected[f] ELSE Selection(c)[f]]
  /\ UNCHANGED <<plugged, opened, endpoints, last>>

\* BTstack's hci_init calls it before the transport is opened.
transport_init(c) ==
  /\ opened = NoDevice
  /\ config' = c
  /\ selected' = Selection(c)
  /\ UNCHANGED <<plugged, opened, endpoints, last>>

-----------------------------------------------------------------------------
(* transport_open.                                                         *)

\* parse_usb_path: a port is a u8.
usb_path(d) ==
  LET ports == Info[d].ports
  IN  IF Len(ports) \in 1..MaxPathLen /\ (\A i \in 1..Len(ports) : ports[i] < 256)
      THEN {ports} ELSE {}

\* The fields that are given agree, of those that are compared.
Agrees(d, selection, compared) ==
  /\ \A f \in compared : \A x \in selection[f] : Info[d][f] = x
  /\ \A path \in selection.path : usb_path(d) = {path}
  /\ (\A f \in DOMAIN selection : selection[f] = {}) => Info[d].bluetooth

\* Mutant of is_candidate_device: the bus is not compared.
CandidateOnAnyBus(d, selection) == Agrees(d, selection, {"vendor_id", "product_id"})

is_candidate_device(d, selection) ==
  Agrees(d, selection, {"vendor_id", "product_id", "bus_number"})

\* The loop of detect_endpoints over the endpoints of some alternate settings
\* of the interface that is claimed (number 0); a kind that was found is not
\* overwritten.
Scan(d, settings) ==
  LET eps == Info[d].endpoints
      scan[i \in 0..Len(eps)] ==
        IF i = 0 THEN [addresses |-> DefaultEndpoints, found |-> {}]
        ELSE LET e == eps[i]
                 before == scan[i - 1]
             IN  IF e.interface = 0 /\ e.setting \in settings /\ e.kind \in Kinds \ before.found
                 THEN [addresses |-> [before.addresses EXCEPT ![e.kind] = e.address],
                       found |-> before.found \cup {e.kind}]
                 ELSE before
  IN  scan[Len(eps)].addresses

\* Mutant of detect_endpoints: every alternate setting is looked at.
DetectInAllSettings(d) == Scan(d, Nat)

detect_endpoints(d) == Scan(d, {0})

\* A candidate is opened, and reported.  (Failures leave everything as it is.)
transport_open ==
  /\ opened = NoDevice
  /\ \E d \in plugged :
       /\ is_candidate_device(d, selected)
       /\ opened' = d
       /\ endpoints' = detect_endpoints(d)
       /\ last' = d
  /\ UNCHANGED <<plugged, selected, config>>

transport_close ==
  /\ opened # NoDevice
  /\ opened' = NoDevice
  /\ UNCHANGED <<plugged, selected, endpoints, config, last>>

\* The configuration that emit_usb_info's report of d makes.
Reported(d) ==
  [vendor_id |-> Info[d].vendor_id,
   product_id |-> Info[d].product_id,
   bus_number |-> Info[d].bus_number,
   path |-> IF usb_path(d) = {} THEN <<>> ELSE CHOOSE path \in usb_path(d) : TRUE]

-----------------------------------------------------------------------------
\* Devices come and go, also while they are open; there is one at a port at a time.
Plug(d) ==
  /\ \A e \in plugged \ {d} :
       Info[d].bus_number # Info[e].bus_number \/ Info[d].ports # Info[e].ports
  /\ plugged' = (plugged \ {d}) \cup ({d} \ plugged)
  /\ UNCHANGED <<selected, opened, endpoints, config, last>>

Init ==
  /\ plugged = {}
  /\ config = NoConfig
  /\ selected = Selection(config)
  /\ opened = NoDevice
  /\ endpoints = DefaultEndpoints
  /\ last = NoDevice

Next ==
  \/ \E c \in Configs \cup {Reported(d) : d \in {last} \cap Devices} : transport_init(c)
  \/ transport_open
  \/ transport_close
  \/ \E d \in Devices : Plug(d)

Spec == Init /\ [][Next]_vars

-----------------------------------------------------------------------------
(* Properties.                                                             *)

\* Whatever was configured before, the device that is open is as the last
\* configuration says in all it says, and a Bluetooth adapter if it says
\* nothing (lib.rs:64-85, usb.rs:19-47).  A path of more than MaxPathLen ports
\* says nothing.
SelectionHonoured ==
  opened # NoDevice =>
    LET i == Info[opened]
        given == {f \in {"vendor_id", "product_id", "bus_number"} : config[f] # 0}
    IN  /\ \A f \in given : i[f] = config[f]
        /\ config.path # <<>> /\ Len(config.path) <= MaxPathLen => i.ports = config.path
        /\ given = {} /\ (config.path = <<>> \/ Len(config.path) > MaxPathLen) => i.bluetooth

\* A program that selects by what HCI_EVENT_TRANSPORT_USB_INFO reported gets
\* that adapter as long as it stays plugged in, also if others of its make, or
\* with its path on another bus, are there (usb.rs:36-40, 112-123, io.rs:196-208).
\* (Not so for a device without a path.)
ReportFindsItAgain ==
  [][ transport_open /\ last \in plugged /\ usb_path(last) # {} /\ config = Reported(last)
        => opened' = last ]_vars

\* A worker gets an endpoint of its kind in alternate setting 0 of the
\* interface, the first in the descriptor, if there is one, and the default
\* only if there is none (usb.rs:61-92).
WorkersGetTheirEndpoints ==
  opened # NoDevice =>
    LET eps == Info[opened].endpoints
        Fit(kind) == {i \in DOMAIN eps :
                        eps[i].interface = 0 /\ eps[i].setting = 0 /\ eps[i].kind = kind}
    IN  \A kind \in Kinds :
          IF Fit(kind) = {} THEN endpoints[kind] = DefaultEndpoints[kind]
          ELSE \E i \in Fit(kind) :
                 endpoints[kind] = eps[i].address /\ \A j \in Fit(kind) : i <= j
=============================================================================
