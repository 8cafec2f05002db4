---------------------------- MODULE MCGattServer ----------------------------
(* A database for GattServer: two services with a characteristic of the    *)
(* same UUID each, empty at first, one of them writable, and two           *)
(* specifications, of which the second names a service the database does   *)
(* not have; writes of two bytes.                                          *)
EXTENDS GattServer

MCServiceRange == [s \in {"battery", "counter"} |-> IF s = "battery" THEN 1..3 ELSE 4..6]

MCAttributes ==
  {[uuid |-> "level", value |-> 2, ccc |-> 3], [uuid |-> "level", value |-> 5, ccc |-> 6]}

Level(service, write) ==
  [service |-> service, uuid |-> "level", notify |-> TRUE, write |-> write, initial_value |-> <<>>]

MCSpecs ==
  {[services |-> {"battery", "counter"},
    characteristics |-> <<Level("battery", FALSE), Level("counter", TRUE)>>],
   [services |-> {"missing"}, characteristics |-> <<Level("missing", TRUE)>>]}

MCBlocks == {<<1, 1>>}
=============================================================================
