-------------------------- MODULE PeripheralServer --------------------------
(***************************************************************************)
(* The life of a GattPeripheralServer (btstack-gatt/src/peripheral.rs) and *)
(* its control of advertising: the static RUNTIME with the server's state, *)
(* new, start_advertising, stop and Drop on the threads of the program,    *)
(* and run_loop_advertising_update on the run-loop thread.                 *)
(*                                                                         *)
(* new and Drop need the server value, start_advertising and stop a shared *)
(* reference, which threads may hold at the same time.  RUNTIME has no     *)
(* lock: its reads and writes by different threads interleave.  External:  *)
(* the run loop's list of callbacks, in which a registration is at most    *)
(* once and from which it is removed before it is called, and the          *)
(* controller, which BTstack lets advertise data it does not copy.         *)
(***************************************************************************)

CONSTANTS
  Creators,  \* threads that create, own and drop servers
  Users,     \* threads that call start_advertising and stop
  NoServer   \* marks a user that is in neither call

ASSUME NoServerIsNone == NoServer \notin Creators

VARIABLES
  RUNTIME,              \* the static holds a RuntimeState
  advertising_enabled,  \* its flag of that name
  pending,              \* its run_loop_callback is in the run loop's list
  cpc,                  \* where each creator is
  upc,                  \* the server on whose behalf a user is about to post
  lpc,                  \* where the run-loop thread is in the update
  radio,                \* the controller advertises
  advData,              \* the data BTstack was given: its owner is there or not
  overlap               \* history: Drop and an update ran at the same time

vars == <<RUNTIME, advertising_enabled, pending, cpc, upc, lpc, radio, advData, overlap>>
program == <<RUNTIME, advertising_enabled, cpc, upc>>
btstack == <<pending, lpc, radio, advData>>

TypeOK ==
  /\ RUNTIME \in BOOLEAN
  /\ advertising_enabled \in BOOLEAN
  /\ pending \in BOOLEAN
  /\ cpc \in [Creators -> {"none", "resolve", "register", "owns", "drop"}]
  /\ upc \in [Users -> Creators \cup {NoServer}]
  /\ lpc \in {"idle", "called", "advertise", "enable", "silence"}
  /\ radio \in BOOLEAN
  /\ advData \in {"none", "there", "freed"}
  /\ overlap \in BOOLEAN
  /\ ~RUNTIME => ~advertising_enabled /\ advData # "there"

Init ==
  /\ RUNTIME = FALSE
  /\ advertising_enabled = FALSE
  /\ pending = FALSE
  /\ cpc = [c \in Creators |-> "none"]
  /\ upc = [u \in Users |-> NoServer]
  /\ lpc = "idle"
  /\ radio = FALSE
  /\ advData = "none"
  /\ overlap = FALSE

\* The state in RUNTIME goes away, and with it the data BTstack points to.
Freed(data) == IF data = "there" THEN "freed" ELSE data

-----------------------------------------------------------------------------
(* new.                                                                    *)

\* There is no server: BTstack's services are initialised.
New(c) ==
  /\ cpc[c] = "none"
  /\ ~RUNTIME
  /\ cpc' = [cpc EXCEPT ![c] = "resolve"]
  /\ UNCHANGED <<RUNTIME, advertising_enabled, upc, btstack, overlap>>

\* A service or characteristic is not found in the database.
ResolveFails(c) ==
  /\ cpc[c] = "resolve"
  /\ cpc' = [cpc EXCEPT ![c] = "none"]
  /\ UNCHANGED <<RUNTIME, advertising_enabled, upc, btstack, overlap>>

\* RUNTIME is set to a new state, whatever it held.
Install(c) ==
  /\ cpc[c] = "resolve"
  /\ RUNTIME' = TRUE
  /\ advertising_enabled' = FALSE
  /\ advData' = Freed(advData)
  /\ cpc' = [cpc EXCEPT ![c] = "register"]
  /\ UNCHANGED <<upc, pending, lpc, radio, overlap>>

\* The CCC tables are filled in and the event handler is registered.
Register(c) ==
  /\ cpc[c] = "register"
  /\ cpc' = [cpc EXCEPT ![c] = "owns"]
  /\ UNCHANGED <<RUNTIME, advertising_enabled, upc, btstack, overlap>>

-----------------------------------------------------------------------------
(* start_advertising, stop.                                                *)

\* The flag is set.  (Without a state in RUNTIME the call does nothing.)
Request(u, c, on) ==
  /\ upc[u] = NoServer
  /\ cpc[c] = "owns"
  /\ RUNTIME
  /\ advertising_enabled' = on
  /\ upc' = [upc EXCEPT ![u] = c]
  /\ UNCHANGED <<RUNTIME, cpc, btstack, overlap>>

\* Mutant of Post: an update that is running is taken for this request's.
PostUnlessBusy(u) ==
  /\ upc[u] # NoServer
  /\ upc' = [upc EXCEPT ![u] = NoServer]
  /\ pending' = (pending \/ lpc = "idle")
  /\ UNCHANGED <<RUNTIME, advertising_enabled, cpc, lpc, radio, advData, overlap>>

\* The update is posted; a registration in the list stays where it is.
Post(u) ==
  /\ upc[u] # NoServer
  /\ upc' = [upc EXCEPT ![u] = NoServer]
  /\ pending' = TRUE
  /\ UNCHANGED <<RUNTIME, advertising_enabled, cpc, lpc, radio, advData, overlap>>

-----------------------------------------------------------------------------
(* Drop.                                                                   *)

\* Mutant of Drop: the controller is left as it is.
DropKeepsRadio(c) ==
  /\ cpc[c] = "owns"
  /\ \A u \in Users : upc[u] # c
  /\ overlap' = (overlap \/ lpc # "idle")
  /\ cpc' = [cpc EXCEPT ![c] = "drop"]
  /\ UNCHANGED <<RUNTIME, advertising_enabled, upc, btstack>>

\* Nobody uses the server any more; advertising is disabled on this thread.
Drop(c) ==
  /\ cpc[c] = "owns"
  /\ \A u \in Users : upc[u] # c
  /\ radio' = FALSE
  /\ overlap' = (overlap \/ lpc # "idle")
  /\ cpc' = [cpc EXCEPT ![c] = "drop"]
  /\ UNCHANGED <<RUNTIME, advertising_enabled, upc, pending, lpc, advData>>

\* RUNTIME is set to None.
Forget(c) ==
  /\ cpc[c] = "drop"
  /\ RUNTIME' = FALSE
  /\ advertising_enabled' = FALSE
  /\ advData' = Freed(advData)
  /\ cpc' = [cpc EXCEPT ![c] = "none"]
  /\ UNCHANGED <<upc, pending, lpc, radio, overlap>>

-----------------------------------------------------------------------------
(* The run-loop thread.                                                    *)

\* The run loop removes the registration from its list and calls it.
Call ==
  /\ lpc = "idle"
  /\ pending
  /\ pending' = FALSE
  /\ lpc' = "called"
  /\ overlap' = (overlap \/ \E c \in Creators : cpc[c] = "drop")
  /\ UNCHANGED <<program, radio, advData>>

\* run_loop_advertising_update reads RUNTIME and the flag.
Look ==
  /\ lpc = "called"
  /\ lpc' = CASE ~RUNTIME -> "idle"
              [] RUNTIME /\ advertising_enabled -> "advertise"
              [] RUNTIME /\ ~advertising_enabled -> "silence"
  /\ UNCHANGED <<program, pending, radio, advData, overlap>>

\* BTstack is given the parameters and a pointer to the data.
SetData ==
  /\ lpc = "advertise"
  /\ advData' = IF RUNTIME THEN "there" ELSE "freed"
  /\ lpc' = "enable"
  /\ UNCHANGED <<program, pending, radio, overlap>>

\* Mutant of Enable: advertising is never disabled.
EnableOnly ==
  /\ lpc \in {"enable", "silence"}
  /\ radio' = (radio \/ lpc = "enable")
  /\ lpc' = "idle"
  /\ UNCHANGED <<program, pending, advData, overlap>>

\* Advertising is enabled, or disabled.
Enable ==
  /\ lpc \in {"enable", "silence"}
  /\ radio' = (lpc = "enable")
  /\ lpc' = "idle"
  /\ UNCHANGED <<program, pending, advData, overlap>>

Update == Call \/ Look \/ SetData \/ Enable

-----------------------------------------------------------------------------
Next ==
  \/ \E c \in Creators : New(c)
  \/ \E c \in Creators : ResolveFails(c)
  \/ \E c \in Creators : Install(c)
  \/ \E c \in Creators : Register(c)
  \/ \E u \in Users, c \in Creators, on \in BOOLEAN : Request(u, c, on)
  \/ \E u \in Users : Post(u)
  \/ \E c \in Creators : Drop(c)
  \/ \E c \in Creators : Forget(c)
  \/ Update

Spec == Init /\ [][Next]_vars

-----------------------------------------------------------------------------
(* Safety.                                                                 *)

\* The controller does what was asked for last, or an update is under way
\* that will make it (peripheral.rs:275-278, 290-293, 350-371): requests of
\* several threads, an update between them, and an update still in the list
\* when its server is dropped and another one made, are never out of step.
LastRequestWins ==
  ~overlap =>
    \/ \A c \in Creators : cpc[c] # "owns"
    \/ pending
    \/ lpc = "called"
    \/ \E u \in Users : upc[u] # NoServer
    \/ advertising_enabled = IF lpc = "idle" THEN radio ELSE lpc \in {"advertise", "enable"}

\* "data is not copied, pointer has to stay valid" (gap_advertisements_set_data,
\* libusb_main_bindings.rs:4372): while the controller advertises, the server
\* that owns the data is there.
AdvDataStaysValid == radio => RUNTIME /\ advData = "there"

\* So it is, unless Drop ran at the same time as an update (peripheral.rs:299-306).
SilentWithoutServer == ~overlap => AdvDataStaysValid

-----------------------------------------------------------------------------
(* Liveness.                                                               *)

\* "the callback will run at least once after the last item was added"
\* (btstack_run_loop_execute_on_main_thread, libusb_main_bindings.rs:5252):
\* a request that is not followed by another one takes effect.
RequestsTakeEffect ==
  \A on \in BOOLEAN :
    RUNTIME /\ advertising_enabled = on
      ~> (radio = on \/ ~RUNTIME \/ advertising_enabled # on \/ overlap)
=============================================================================
