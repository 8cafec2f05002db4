--------------------------- MODULE MCUsbSelection ---------------------------
(* Adapters for UsbSelection: two of one make, at the same ports of two    *)
(* buses, and a third to take the place of the first; one of another make  *)
(* that lists its endpoints in another order, twice, and others in another *)
(* alternate setting; one that is no Bluetooth adapter; and one whose name *)
(* has no path, without endpoints.                                         *)
EXTENDS UsbSelection

Endpoint(interface, setting, kind, address) ==
  [interface |-> interface, setting |-> setting, kind |-> kind, address |-> address]

Device(vendor_id, bus_number, ports, bluetooth, eps) ==
  [vendor_id |-> vendor_id, product_id |-> 1, bus_number |-> bus_number, ports |-> ports,
   bluetooth |-> bluetooth, endpoints |-> eps]

Usual == <<Endpoint(0, 0, "event_in", 1), Endpoint(0, 0, "acl_in", 2), Endpoint(0, 0, "acl_out", 3)>>
Unusual ==
  <<Endpoint(1, 0, "acl_in", 8), Endpoint(0, 1, "acl_in", 7), Endpoint(0, 0, "acl_out", 4),
    Endpoint(0, 0, "event_in", 5), Endpoint(0, 0, "acl_in", 6), Endpoint(0, 0, "acl_out", 9)>>

MCDevices == {"left", "right", "spare", "other", "mouse", "hub"}
MCInfo ==
  [d \in MCDevices |->
     CASE d \in {"left", "spare"} -> Device(1, 1, <<2>>, TRUE, Usual)
       [] d = "right" -> Device(1, 2, <<2>>, TRUE, Usual)
       [] d = "other" -> Device(2, 1, <<2, 3>>, TRUE, Unusual)
       [] d = "mouse" -> Device(3, 1, <<1>>, FALSE, Usual)
       [] d = "hub" -> Device(3, 2, <<>>, FALSE, <<>>)]

Config(vendor_id, bus_number, path) ==
  [vendor_id |-> vendor_id, product_id |-> 0, bus_number |-> bus_number, path |-> path]

MCConfigs ==
  {Config(0, 0, <<>>), Config(1, 0, <<>>), Config(0, 2, <<>>), Config(0, 0, <<2>>),
   Config(2, 0, <<1, 1, 1, 1>>), Config(0, 0, <<1, 1, 1, 1>>)}

MCDefaultEndpoints == [event_in |-> 1, acl_in |-> 2, acl_out |-> 2]
=============================================================================
