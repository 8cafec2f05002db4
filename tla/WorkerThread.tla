---------------------------- MODULE WorkerThread ----------------------------
(***************************************************************************)
(* What transport_open and transport_close rely on for every thread they   *)
(* start (event reader, ACL reader, writer): it runs until it is told to   *)
(* stop and not a step less, it calls the packet handler only while it     *)
(* runs, one call at a time, and once it has ended it never calls again.   *)
(*                                                                         *)
(* InboundReader and OutgoingQueue are shown to implement this module;     *)
(* TransportLifecycle is built from threads that behave like it.           *)
(***************************************************************************)

VARIABLES
  phase,  \* "running", "calling" the packet handler, or "exited"
  stop    \* the stop flag of the session

vars == <<phase, stop>>

Init ==
  /\ phase = "running"
  /\ stop = FALSE

RaiseStop ==
  /\ ~stop
  /\ stop' = TRUE
  /\ UNCHANGED phase

Call ==
  /\ phase = "running"
  /\ phase' = "calling"
  /\ UNCHANGED stop

Return ==
  /\ phase = "calling"
  /\ phase' = "running"
  /\ UNCHANGED stop

Exit ==
  /\ phase = "running"
  /\ stop
  /\ phase' = "exited"
  /\ UNCHANGED stop

Next ==
  \/ RaiseStop
  \/ Call
  \/ Return
  \/ Exit

Spec == Init /\ [][Next]_vars
=============================================================================
