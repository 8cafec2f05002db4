------------------------- MODULE UsbSelectionProofs -------------------------
(***************************************************************************)
(* Theorems about UsbSelection, for any adapters, descriptors and          *)
(* configurations.                                                         *)
(***************************************************************************)
EXTENDS UsbSelection, LanesProofs

-----------------------------------------------------------------------------
(* detect_endpoints.  After each endpoint of the descriptor the loop has   *)
(* found the first one of each kind so far.                                *)

\* Of the endpoints up to the i-th, those that a worker of this kind may use.
Fitting(eps, settings, kind, i) ==
  {j \in 1..i : eps[j].interface = 0 /\ eps[j].setting \in settings /\ eps[j].kind = kind}

\* What is known of a kind after the i-th endpoint.
FirstOf(eps, settings, kind, i, scanned) ==
  IF Fitting(eps, settings, kind, i) = {}
  THEN kind \notin scanned.found /\ scanned.addresses[kind] = DefaultEndpoints[kind]
  ELSE /\ kind \in scanned.found
       /\ \E j \in Fitting(eps, settings, kind, i) :
            /\ scanned.addresses[kind] = eps[j].address
            /\ \A k \in Fitting(eps, settings, kind, i) : j <= k

\* One turn of the loop.
Turn(eps, settings, i, before) ==
  IF eps[i].interface = 0 /\ eps[i].setting \in settings /\ eps[i].kind \in Kinds \ before.found
  THEN [addresses |-> [before.addresses EXCEPT ![eps[i].kind] = eps[i].address],
        found |-> before.found \cup {eps[i].kind}]
  ELSE before

Scanned == [addresses : [Kinds -> Nat], found : SUBSET Kinds]

LEMMA TurnFinds ==
  ASSUME NEW eps, NEW settings, NEW i \in Nat \ {0}, eps[i].address \in Nat, NEW before \in Scanned
  PROVE  /\ Turn(eps, settings, i, before) \in Scanned
         /\ \A kind \in Kinds : FirstOf(eps, settings, kind, i - 1, before) =>
              FirstOf(eps, settings, kind, i, Turn(eps, settings, i, before))
<1> DEFINE after == Turn(eps, settings, i, before)
           fits == eps[i].interface = 0 /\ eps[i].setting \in settings
<1>1. 1..i = (1..i - 1) \cup {i} /\ \A j \in 1..i - 1 : j <= i /\ j \in Nat
  OBVIOUS
<1>2. after \in Scanned
  BY DEF Turn, Scanned
<1>3. ASSUME NEW kind \in Kinds, FirstOf(eps, settings, kind, i - 1, before)
      PROVE  FirstOf(eps, settings, kind, i, after)
  <2> DEFINE old == Fitting(eps, settings, kind, i - 1)
             new == Fitting(eps, settings, kind, i)
  <2>1. new = IF fits /\ eps[i].kind = kind THEN old \cup {i} ELSE old
    BY <1>1 DEF Fitting
  <2>2. \A j \in old : j <= i /\ j \in Nat
    BY <1>1 DEF Fitting
  <2>3. CASE fits /\ eps[i].kind = kind /\ old = {}
    <3>1. kind \notin before.found
      BY <1>3, <2>3 DEF FirstOf
    <3>2. after.addresses[kind] = eps[i].address /\ kind \in after.found
      BY <2>3, <3>1 DEF Turn, Scanned
    <3>3. new = {i} /\ i <= i
      BY <2>1, <2>3
    <3>4. QED
      BY <3>2, <3>3 DEF FirstOf
  <2>4. CASE ~(fits /\ eps[i].kind = kind /\ old = {})
    <3>1. kind \in before.found \/ ~(fits /\ eps[i].kind = kind)
      BY <1>3, <2>4 DEF FirstOf
    <3>2. after.addresses[kind] = before.addresses[kind] /\ (kind \in after.found <=> kind \in before.found)
      BY <3>1 DEF Turn, Scanned
    <3>3. CASE old = {}
      BY <1>3, <2>1, <2>4, <3>2, <3>3 DEF FirstOf
    <3>4. CASE old # {}
      <4>1. kind \in before.found
        BY <1>3, <3>4 DEF FirstOf
      <4>2. PICK j \in old : before.addresses[kind] = eps[j].address /\ \A k \in old : j <= k
        BY <1>3, <3>4 DEF FirstOf
      <4>3. j \in new /\ \A k \in new : j <= k
        BY <2>1, <2>2, <4>2
      <4>4. QED
        BY <3>2, <4>1, <4>2, <4>3 DEF FirstOf
    <3>5. QED
      BY <3>3, <3>4
  <2>5. QED
    BY <2>3, <2>4
<1>4. QED
  BY <1>2, <1>3

\* What the loop has found when it ends.
LEMMA ScanFinds ==
  ASSUME NEW d \in Devices, NEW settings
  PROVE  \E scanned \in Scanned :
           /\ Scan(d, settings) = scanned.addresses
           /\ \A kind \in Kinds :
                FirstOf(Info[d].endpoints, settings, kind, Len(Info[d].endpoints), scanned)
<1> DEFINE eps == Info[d].endpoints
           n == Len(eps)
           none == [addresses |-> DefaultEndpoints, found |-> {}]
           next(i, v) == Turn(eps, settings, i, v)
           step == [i \in 1..n |-> [v \in Scanned |-> next(i, v)]]
           IsScan(f) == f = [i \in 0..n |-> IF i = 0 THEN none ELSE next(i, f[i - 1])]
           scan == CHOOSE f : IsScan(f)
           First(i, v) == \A kind \in Kinds : FirstOf(eps, settings, kind, i, v)
<1>1. n \in Nat /\ \A i \in 1..n : eps[i].address \in Nat
  <2>1. eps \in Seq([interface : Nat, setting : Nat, kind : STRING, address : Nat])
    BY EndpointsAreListed
  <2> HIDE DEF eps
  <2>2. n \in Nat
    BY <2>1, LenProperties
  <2>3. ASSUME NEW i \in 1..n
        PROVE  eps[i].address \in Nat
    <3>1. eps[i] \in [interface : Nat, setting : Nat, kind : STRING, address : Nat]
      BY <2>1, ElementOfSeq
    <3>2. QED
      BY <3>1
  <2>4. QED
    BY <2>2, <2>3
<1>2. ASSUME NEW i \in 1..n, NEW v \in Scanned
      PROVE  next(i, v) \in Scanned /\ (First(i - 1, v) => First(i, next(i, v)))
  <2> HIDE DEF eps
  <2>1. i \in Nat \ {0}
    BY <1>1
  <2>2. eps[i].address \in Nat
    BY <1>1
  <2>3. QED
    BY <2>1, <2>2, TurnFinds
<1>3. none \in Scanned /\ First(0, none)
  <2>1. \A kind \in Kinds : Fitting(eps, settings, kind, 0) = {}
    BY DEF Fitting
  <2>2. QED
    BY <2>1, EndpointsAreListed DEF Scanned, FirstOf
<1>4. Scan(d, settings) = scan[n].addresses
  BY DEF Scan, Turn
<1>5. SUFFICES scan[n] \in Scanned /\ First(n, scan[n])
  <2> HIDE DEF scan
  <2>1. QED
    BY <1>4
<1> HIDE DEF n, none, next, scan, First
<1>6. \A i \in 1..n : \A v \in Scanned : step[i][v] = next(i, v)
  OBVIOUS
<1>7. PICK f \in [0..n -> Scanned] : f[0] = none /\ \A i \in 1..n : f[i] = step[i][f[i - 1]]
  <2> HIDE DEF step
  <2>1. \A i \in 1..n : \A v \in Scanned : step[i][v] \in Scanned
    BY <1>2, <1>6
  <2>2. Computed(Scanned, none, n, step) # {}
    BY <1>1, <1>3, <2>1, Recursion
  <2>3. QED
    BY <2>2 DEF Computed
<1>8. \A i \in 0..n : i = 0 \/ (i \in 1..n /\ i - 1 \in 0..n)
  BY <1>1
<1>9. IsScan(f)
  <2> HIDE DEF step
  <2>1. \A i \in 0..n : f[i] = IF i = 0 THEN none ELSE next(i, f[i - 1])
    BY <1>6, <1>7, <1>8
  <2>2. QED
    BY <2>1
<1>10. IsScan(scan)
  <2> HIDE DEF IsScan
  <2>1. QED
    BY <1>9 DEF scan
<1>11. scan[0] = none /\ \A i \in 1..n : scan[i] = next(i, scan[i - 1])
  BY <1>1, <1>10
<1> DEFINE S == {i \in 0..n : scan[i] \in Scanned /\ First(i, scan[i])}
<1>12. 0 \in S
  BY <1>1, <1>3, <1>11
<1>13. \A i \in 1..n : i - 1 \in S => i \in S
  BY <1>2, <1>11
<1>14. n \in S
  <2> HIDE DEF S
  <2>1. 0..n \subseteq S
    BY <1>1, <1>12, <1>13, Induction
  <2>2. QED
    BY <1>1, <2>1
<1>15. QED
  BY <1>14

-----------------------------------------------------------------------------
(* The inductive invariant.                                                *)

\* The selection is that of the last configuration alone, and what is open agrees.
IInv ==
  /\ plugged \subseteq Devices
  /\ \A d, e \in plugged :
       Info[d].bus_number = Info[e].bus_number /\ Info[d].ports = Info[e].ports => d = e
  /\ selected = Selection(config)
  /\ config.path \in Seq(Nat)
  /\ opened # NoDevice =>
       /\ opened \in Devices
       /\ is_candidate_device(opened, selected)
       /\ endpoints = detect_endpoints(opened)
  /\ last # NoDevice => last \in Devices

LEMMA InitEstablishes == Init => IInv
  BY DEF Init, IInv, NoConfig

\* What emit_usb_info reports is the name of the device, if it has a path.
LEMMA ReportedPath ==
  ASSUME NEW d \in Devices
  PROVE  /\ Reported(d).path = IF usb_path(d) = {} THEN <<>> ELSE Info[d].ports
         /\ Reported(d).path \in Seq(Nat)
         /\ Reported(d).bus_number = Info[d].bus_number
         /\ usb_path(d) # {} => Len(Info[d].ports) \in 1..MaxPathLen
<1>1. Info[d].ports \in Seq(Nat)
  BY PathsAreSequences
<1>2. usb_path(d) = {} \/ (usb_path(d) = {Info[d].ports} /\ Len(Info[d].ports) \in 1..MaxPathLen)
  BY DEF usb_path
<1>3. /\ Reported(d).bus_number = Info[d].bus_number
      /\ Reported(d).path = IF usb_path(d) = {} THEN <<>> ELSE CHOOSE path \in usb_path(d) : TRUE
  BY DEF Reported
<1>4. (CHOOSE path \in {Info[d].ports} : TRUE) = Info[d].ports
  OBVIOUS
<1>5. CASE usb_path(d) = {}
  BY <1>3, <1>5
<1>6. CASE usb_path(d) = {Info[d].ports} /\ Len(Info[d].ports) \in 1..MaxPathLen
  BY <1>1, <1>3, <1>4, <1>6
<1>7. QED
  BY <1>2, <1>5, <1>6

LEMMA StepKeeps == IInv /\ [Next]_vars => IInv'
<1> SUFFICES ASSUME IInv, [Next]_vars
             PROVE  IInv'
  OBVIOUS
<1> USE DEF IInv
<1>1. ASSUME NEW c \in Configs \cup {Reported(d) : d \in {last} \cap Devices}, transport_init(c)
      PROVE  IInv'
  <2>1. c.path \in Seq(Nat)
    BY PathsAreSequences, ReportedPath
  <2>2. QED
    BY <1>1, <2>1 DEF transport_init
<1>2. CASE transport_open
  BY <1>2, NoDeviceIsNone DEF transport_open
<1>3. CASE transport_close
  BY <1>3 DEF transport_close
<1>4. ASSUME NEW d \in Devices, Plug(d)
      PROVE  IInv'
  BY <1>4 DEF Plug
<1>5. CASE UNCHANGED vars
  BY <1>5 DEF vars
<1>6. QED
  BY <1>1, <1>2, <1>3, <1>4, <1>5 DEF Next

THEOREM Inductive == Spec => []IInv
  BY InitEstablishes, StepKeeps, PTL DEF Spec

\* The device that is open is as the last configuration says, whatever was
\* selected before (lib.rs:64-85, usb.rs:19-47).
THEOREM ConfigurationHonoured == Spec => []SelectionHonoured
<1>1. IInv => SelectionHonoured
  <2> SUFFICES ASSUME IInv, opened # NoDevice
               PROVE  SelectionHonoured
    BY DEF SelectionHonoured
  <2>1. Agrees(opened, Selection(config), {"vendor_id", "product_id", "bus_number"})
    BY DEF IInv, is_candidate_device
  <2>2. /\ Selection(config).vendor_id = Option(config.vendor_id)
        /\ Selection(config).product_id = Option(config.product_id)
        /\ Selection(config).bus_number = Option(config.bus_number)
        /\ Selection(config).path = IF Len(config.path) \in 1..MaxPathLen THEN {config.path} ELSE {}
        /\ DOMAIN Selection(config) = {"vendor_id", "product_id", "bus_number", "path"}
    BY DEF Selection
  <2>3. config.path # <<>> /\ Len(config.path) <= MaxPathLen <=> Len(config.path) \in 1..MaxPathLen
    BY PathsAreSequences DEF IInv
  <2>4. ASSUME NEW f \in {"vendor_id", "product_id", "bus_number"}, config[f] # 0
        PROVE  Info[opened][f] = config[f]
    <3>1. \A x \in Selection(config)[f] : Info[opened][f] = x
      BY <2>1 DEF Agrees
    <3>2. CASE f = "vendor_id"
      BY <2>2, <2>4, <3>1, <3>2 DEF Option
    <3>3. CASE f = "product_id"
      BY <2>2, <2>4, <3>1, <3>3 DEF Option
    <3>4. CASE f = "bus_number"
      BY <2>2, <2>4, <3>1, <3>4 DEF Option
    <3>5. QED
      BY <3>2, <3>3, <3>4
  <2>5. config.path # <<>> /\ Len(config.path) <= MaxPathLen => Info[opened].ports = config.path
    BY <2>1, <2>2, <2>3 DEF Agrees, usb_path
  <2>6. ASSUME config.vendor_id = 0, config.product_id = 0, config.bus_number = 0,
               config.path = <<>> \/ Len(config.path) > MaxPathLen
        PROVE  Info[opened].bluetooth
    <3>1. ~(Len(config.path) \in 1..MaxPathLen)
      BY <2>6, PathsAreSequences DEF IInv
    <3>2. \A f \in DOMAIN Selection(config) : Selection(config)[f] = {}
      BY <2>2, <2>6, <3>1 DEF Option
    <3>3. QED
      BY <2>1, <3>2 DEF Agrees
  <2>7. QED
    BY <2>4, <2>5, <2>6 DEF SelectionHonoured
<1>2. QED
  BY <1>1, Inductive, PTL

\* The workers get the endpoints of their kinds, for any descriptor: the first
\* of each in alternate setting 0, whatever lies between (usb.rs:61-92).
THEOREM EndpointsAreFound == Spec => []WorkersGetTheirEndpoints
<1>1. IInv => WorkersGetTheirEndpoints
  <2> SUFFICES ASSUME IInv, opened # NoDevice
               PROVE  WorkersGetTheirEndpoints
    BY DEF WorkersGetTheirEndpoints
  <2> DEFINE eps == Info[opened].endpoints
             Fit(kind) == {i \in DOMAIN eps :
                             eps[i].interface = 0 /\ eps[i].setting = 0 /\ eps[i].kind = kind}
  <2>1. opened \in Devices /\ endpoints = Scan(opened, {0})
    BY DEF IInv, detect_endpoints
  <2>2. PICK scanned \in Scanned :
          /\ endpoints = scanned.addresses
          /\ \A kind \in Kinds : FirstOf(eps, {0}, kind, Len(eps), scanned)
    BY <2>1, ScanFinds
  <2>3. DOMAIN eps = 1..Len(eps)
    BY <2>1, EndpointsAreListed, LenProperties
  <2>4. \A kind \in Kinds : Fit(kind) = Fitting(eps, {0}, kind, Len(eps))
    BY <2>3 DEF Fitting
  <2>5. ASSUME NEW kind \in Kinds
        PROVE  IF Fit(kind) = {} THEN endpoints[kind] = DefaultEndpoints[kind]
               ELSE \E i \in Fit(kind) :
                      endpoints[kind] = eps[i].address /\ \A j \in Fit(kind) : i <= j
    <3>1. FirstOf(eps, {0}, kind, Len(eps), scanned) /\ Fit(kind) = Fitting(eps, {0}, kind, Len(eps))
      BY <2>2, <2>4
    <3> HIDE DEF eps, Fit
    <3>2. QED
      BY <2>2, <3>1 DEF FirstOf
  <2>6. QED
    BY <2>5 DEF WorkersGetTheirEndpoints
<1>2. QED
  BY <1>1, Inductive, PTL

\* The adapter that was reported is found again by its report
\* (usb.rs:36-40, io.rs:196-208).
THEOREM ReportIsAnAddress == Spec => ReportFindsItAgain
<1>1. IInv /\ [Next]_vars =>
        [ transport_open /\ last \in plugged /\ usb_path(last) # {} /\ config = Reported(last)
            => opened' = last ]_vars
  <2> SUFFICES ASSUME IInv, transport_open, last \in plugged, usb_path(last) # {}, config = Reported(last)
               PROVE  opened' = last
    OBVIOUS
  <2> DEFINE d == opened'
  <2>1. d \in plugged /\ d \in Devices /\ last \in Devices
    BY DEF IInv, transport_open
  <2>2. Agrees(d, Selection(config), {"vendor_id", "product_id", "bus_number"})
    BY DEF IInv, transport_open, is_candidate_device
  <2>3. Selection(config).bus_number = {Info[last].bus_number}
    BY <2>1, ReportedPath, BusesCountFromOne DEF Selection, Option
  <2>4. Selection(config).path = {Info[last].ports}
    BY <2>1, ReportedPath DEF Selection
  <2>5. Info[d].bus_number = Info[last].bus_number
    BY <2>2, <2>3 DEF Agrees
  <2>6. Info[d].ports = Info[last].ports
    BY <2>2, <2>4 DEF Agrees, usb_path
  <2>7. QED
    BY <2>1, <2>5, <2>6 DEF IInv
<1>2. QED
  BY <1>1, Inductive, PTL DEF Spec, ReportFindsItAgain
=============================================================================
