-------------------------- MODULE GattServerProofs --------------------------
(***************************************************************************)
(* Theorems about PeripheralServer, for any number of threads that start   *)
(* and stop advertising, where one thread makes and drops the servers, and *)
(* about GattServer: it is a PeripheralServer, and for any database, any   *)
(* specifications of characteristics and any lengths, flags are what the   *)
(* client asked for and reads return what was written.                     *)
(***************************************************************************)
EXTENDS GattServer, LanesProofs

-----------------------------------------------------------------------------
(* Advertising.  As long as no Drop has met an update, an update that is   *)
(* about to enable advertising runs on a server that is owned, and so does *)
(* the controller while it advertises.                                     *)

\* RUNTIME holds a state from Install to Forget, and calls need an owner.
ServerByPlace ==
  /\ \A c \in Creators : RUNTIME <=> cpc[c] \in {"register", "owns", "drop"}
  /\ \A c \in Creators : cpc[c] = "register" => ~advertising_enabled
  /\ \A u \in Users : upc[u] # NoServer => cpc[upc[u]] = "owns"

\* Advertising is for a server that is owned, unless Drop met an update.
AdvertisingIsOwned ==
  ~overlap =>
    /\ lpc \in {"advertise", "enable"} \/ radio => \A c \in Creators : cpc[c] = "owns"
    /\ lpc = "enable" \/ radio => advData = "there"
    /\ lpc # "idle" => \A c \in Creators : cpc[c] # "drop"

\* The inductive invariant.  An update is posted for a server, may run for a
\* later one, and acts on what it finds in RUNTIME, so the properties need to
\* say whose state that can be.
IInv ==
  /\ TypeOK
  /\ ServerByPlace
  /\ AdvertisingIsOwned
  /\ LastRequestWins

LEMMA InitEstablishes == Init => IInv
  BY NoServerIsNone DEF Init, IInv, TypeOK, ServerByPlace, AdvertisingIsOwned, LastRequestWins

\* Steps of the thread that owns the server.
LEMMA CreatorKeeps ==
  ASSUME NEW c, Creators = {c}, IInv,
         New(c) \/ ResolveFails(c) \/ Install(c) \/ Register(c) \/ Drop(c) \/ Forget(c)
  PROVE  IInv'
<1> USE DEF IInv, btstack
<1>0. c \in Creators
  OBVIOUS
<1>1. CASE New(c) \/ ResolveFails(c)
  BY <1>0, <1>1
  DEF New, ResolveFails, TypeOK, ServerByPlace, AdvertisingIsOwned, LastRequestWins
<1>2. CASE Install(c)
  BY <1>0, <1>2
  DEF Install, Freed, TypeOK, ServerByPlace, AdvertisingIsOwned, LastRequestWins
<1>3. CASE Register(c)
  BY <1>0, <1>3 DEF Register, TypeOK, ServerByPlace, AdvertisingIsOwned, LastRequestWins
<1>4. CASE Drop(c)
  BY <1>0, <1>4 DEF Drop, TypeOK, ServerByPlace, AdvertisingIsOwned, LastRequestWins
<1>5. CASE Forget(c)
  BY <1>0, <1>5
  DEF Forget, Freed, TypeOK, ServerByPlace, AdvertisingIsOwned, LastRequestWins
<1>6. QED
  BY <1>1, <1>2, <1>3, <1>4, <1>5

\* A request leaves a user that is about to post, then an update in the list.
LEMMA RequestKeeps ==
  ASSUME NEW c, Creators = {c}, IInv, NEW u \in Users, NEW on \in BOOLEAN, Request(u, c, on)
  PROVE  IInv'
<1> USE DEF IInv, Request, btstack
<1>0. c \in Creators
  OBVIOUS
<1>1. upc'[u] = c /\ c # NoServer
  BY <1>0, NoServerIsNone DEF TypeOK
<1>2. TypeOK'
  BY <1>0 DEF TypeOK
<1>3. ServerByPlace'
  BY <1>0 DEF TypeOK, ServerByPlace
<1>4. AdvertisingIsOwned'
  BY DEF TypeOK, AdvertisingIsOwned
<1>5. LastRequestWins'
  BY <1>1 DEF LastRequestWins
<1>6. QED
  BY <1>2, <1>3, <1>4, <1>5

LEMMA PostKeeps ==
  ASSUME IInv, NEW u \in Users, Post(u)
  PROVE  IInv'
<1> USE DEF IInv, Post
<1>1. TypeOK'
  BY DEF TypeOK
<1>2. ServerByPlace'
  BY DEF TypeOK, ServerByPlace
<1>3. AdvertisingIsOwned'
  BY DEF TypeOK, AdvertisingIsOwned
<1>4. LastRequestWins'
  BY DEF LastRequestWins
<1>5. QED
  BY <1>1, <1>2, <1>3, <1>4

\* An update reads the flag after it has left the list, so a request that
\* finds it gone posts another one.
LEMMA UpdateKeeps ==
  ASSUME NEW c, Creators = {c}, IInv, Update
  PROVE  IInv'
<1> USE DEF IInv, program
<1>0. c \in Creators
  OBVIOUS
<1>1. CASE Call
  BY <1>0, <1>1 DEF Call, TypeOK, ServerByPlace, AdvertisingIsOwned, LastRequestWins
<1>2. CASE Look
  BY <1>0, <1>2 DEF Look, TypeOK, ServerByPlace, AdvertisingIsOwned, LastRequestWins
<1>3. CASE SetData
  BY <1>0, <1>3 DEF SetData, TypeOK, ServerByPlace, AdvertisingIsOwned, LastRequestWins
<1>4. CASE Enable
  BY <1>0, <1>4 DEF Enable, TypeOK, ServerByPlace, AdvertisingIsOwned, LastRequestWins
<1>5. QED
  BY <1>1, <1>2, <1>3, <1>4 DEF Update

THEOREM Inductive ==
  ASSUME NEW c, Creators = {c}
  PROVE  Spec => []IInv
<1>1. IInv /\ [Next]_vars => IInv'
  <2> SUFFICES ASSUME IInv, [Next]_vars
               PROVE  IInv'
    OBVIOUS
  <2>1. CASE UNCHANGED vars
    BY <2>1 DEF vars, IInv, TypeOK, ServerByPlace, AdvertisingIsOwned, LastRequestWins
  <2>2. CASE Next
    BY <2>2, CreatorKeeps, RequestKeeps, PostKeeps, UpdateKeeps DEF Next
  <2>3. QED
    BY <2>1, <2>2
<1>2. QED
  BY <1>1, InitEstablishes, PTL DEF Spec

\* The controller never settles on anything but the last request, whatever
\* the number of threads that start and stop advertising
\* (peripheral.rs:272-296, 350-372).
THEOREM LastRequestPrevails ==
  ASSUME NEW c, Creators = {c}
  PROVE  Spec => []LastRequestWins
<1>1. IInv => LastRequestWins
  BY DEF IInv
<1>2. QED
  BY <1>1, Inductive, PTL

\* Without an update during Drop, advertising stops with its server, and
\* BTstack never advertises data that was freed (peripheral.rs:299-306).
THEOREM DropSilences ==
  ASSUME NEW c, Creators = {c}
  PROVE  Spec => []SilentWithoutServer
<1>1. IInv => SilentWithoutServer
  BY DEF IInv, ServerByPlace, AdvertisingIsOwned, SilentWithoutServer, AdvDataStaysValid
<1>2. QED
  BY <1>1, Inductive, PTL

\* The state is what the module says; without a state in RUNTIME there is no
\* flag and no data for BTstack to point to.
THEOREM TypeCorrect ==
  ASSUME NEW c, Creators = {c}
  PROVE  Spec => []TypeOK
<1>1. IInv => TypeOK
  BY DEF IInv
<1>2. QED
  BY <1>1, Inductive, PTL

-----------------------------------------------------------------------------
(* The attributes.  Each entry of the tables is traced to one              *)
(* characteristic of the database, by resolve_characteristics, so no two   *)
(* have a CCC in common; and the tables are there from Register to Forget. *)
(*                                                                         *)
(* The lookups.                                                            *)

\* A lookup that finds something finds a characteristic of the range.
LEMMA FirstIsFound ==
  ASSUME NEW range, NEW uuid, Found(range, uuid) # {}
  PROVE  First(range, uuid) \in Found(range, uuid)
<1> DEFINE F == Found(range, uuid)
           S == {a.value : a \in F}
<1>1. S \subseteq Nat /\ S # {}
  BY DatabaseAssumption DEF Found
<1>2. PICK n \in S : \A m \in S : n <= m
  BY <1>1, Least
<1>3. PICK a \in F : a.value = n
  BY <1>2
<1>4. \A b \in F : a.value <= b.value
  BY <1>2, <1>3
<1>5. QED
  BY <1>3, <1>4 DEF First

\* An entry of the table is a characteristic of the database with its CCC.
IsEntry(entry, h) ==
  \E a \in Attributes :
    /\ a.value = h
    /\ entry.ccc = IF entry.spec.notify THEN a.ccc ELSE 0
    /\ entry.spec.notify => a.ccc # 0

LEMMA Resolved ==
  ASSUME NEW spec \in Specs, Resolvable(spec)
  PROVE  \A h \in DOMAIN Resolve(spec) :
           /\ IsEntry(Resolve(spec)[h], h)
           /\ Resolve(spec)[h].spec \in Characteristic
           /\ Resolve(spec)[h].ccc \in Nat
           /\ Resolve(spec)[h].value \in Seq(Byte)
<1> DEFINE cs == spec.characteristics
           ListedAs(h) == {i \in DOMAIN cs : ValueHandle(cs[i]) = h}
<1> SUFFICES ASSUME NEW h \in DOMAIN Resolve(spec)
             PROVE  /\ IsEntry(Resolve(spec)[h], h)
                    /\ Resolve(spec)[h].spec \in Characteristic
                    /\ Resolve(spec)[h].ccc \in Nat
                    /\ Resolve(spec)[h].value \in Seq(Byte)
  OBVIOUS
<1>0. cs \in Seq(Characteristic) /\ Len(cs) \in Nat /\ DOMAIN cs = 1..Len(cs)
  BY SpecAssumption, LenProperties
<1>1. ListedAs(h) # {}
  BY DEF Resolve
<1>2. \E j \in ListedAs(h) : \A k \in ListedAs(h) : k <= j
  <2> DEFINE S == {Len(cs) - i : i \in ListedAs(h)}
  <2>1. S \subseteq Nat /\ S # {}
    <3>1. \A j \in ListedAs(h) : j \in 1..Len(cs)
      BY <1>0
    <3>2. \A j \in ListedAs(h) : Len(cs) - j \in Nat
      BY <1>0, <3>1
    <3> HIDE DEF ListedAs
    <3>3. QED
      BY <1>1, <3>2
  <2>2. PICK n \in S : \A m \in S : n <= m
    BY <2>1, Least
  <2>3. PICK j \in ListedAs(h) : n = Len(cs) - j
    BY <2>2
  <2>4. \A k \in ListedAs(h) : k <= j
    <3> SUFFICES ASSUME NEW k \in ListedAs(h)
                 PROVE  k <= j
      OBVIOUS
    <3>1. Len(cs) - j <= Len(cs) - k
      BY <2>2, <2>3
    <3>2. QED
      BY <1>0, <3>1
  <2>5. QED
    BY <2>4
<1> DEFINE i == CHOOSE j \in ListedAs(h) : \A k \in ListedAs(h) : k <= j
<1>3. i \in DOMAIN cs /\ ValueHandle(cs[i]) = h
  BY <1>2
<1> DEFINE a == First(ServiceRange[cs[i].service], cs[i].uuid)
<1>4. a \in Attributes
  BY <1>3, FirstIsFound DEF Resolvable, Found
<1>5. Resolve(spec)[h] =
        [spec |-> cs[i], ccc |-> IF cs[i].notify THEN a.ccc ELSE 0, value |-> cs[i].initial_value]
  BY <1>3 DEF Resolve, CccHandle
<1>6. cs[i] \in Characteristic
  BY <1>0, <1>3, ElementOfSeq
<1>7. h = a.value /\ (cs[i].notify => a.ccc # 0)
  BY <1>3 DEF ValueHandle, CccHandle, Resolvable
<1> HIDE DEF i, a
<1>8. QED
  BY <1>4, <1>5, <1>6, <1>7, DatabaseAssumption DEF IsEntry, Characteristic

-----------------------------------------------------------------------------
(* GattServer is a PeripheralServer.                                       *)

LEMMA StepsAreSteps == [ServerNext]_allVars => [Next]_vars
<1> SUFFICES ASSUME [ServerNext]_allVars
             PROVE  [Next]_vars
  OBVIOUS
<1>1. CASE UNCHANGED allVars
  BY <1>1 DEF allVars
<1>2. ASSUME NEW c \in Creators, NEW spec \in Specs, InstallTables(c, spec) \/ RefuseSpec(c, spec)
      PROVE  Next
  BY <1>2 DEF InstallTables, RefuseSpec, Next
<1>3. ASSUME NEW c \in Creators, FillTables(c) \/ ClearTables(c)
      PROVE  Next
  BY <1>3 DEF FillTables, ClearTables, Next
<1>4. CASE Elsewhere
  BY <1>4, Zenon DEF Elsewhere, Next
<1>5. ASSUME RunLoop
      PROVE  UNCHANGED vars
  BY <1>5 DEF RunLoop
<1>6. QED
  BY <1>1, <1>2, <1>3, <1>4, <1>5
  DEF ServerNext, Connect, Disconnect, Leaves, Write, Prepare, Execute, Cancel

\* The server with its tables makes the steps of PeripheralServer and no other:
\* what is proved of its life and of advertising holds with clients that come,
\* read, write and go at any moment (peripheral.rs:206-306, 452-550).
THEOREM ServerImplements == ServerSpec => Spec
<1>1. ServerInit => Init
  BY DEF ServerInit
<1>2. QED
  BY <1>1, StepsAreSteps, PTL DEF ServerSpec, Spec

-----------------------------------------------------------------------------
(* The inductive invariant.                                                *)

Notifiable == {h \in DOMAIN chars : chars[h].ccc # 0}

Entries ==
  /\ chars \in [DOMAIN chars -> [spec : Characteristic, ccc : Nat, value : Seq(Byte)]]
  /\ \A h \in DOMAIN chars : IsEntry(chars[h], h)

TablesFilled ==
  /\ notification_enabled \in [Notifiable -> BOOLEAN]
  /\ ccc_to_value_handle \in [{chars[h].ccc : h \in Notifiable} -> Notifiable]
  /\ \A k \in DOMAIN ccc_to_value_handle : chars[ccc_to_value_handle[k]].ccc = k

TablesByPlace ==
  \A c \in Creators :
    IF cpc[c] \in {"owns", "drop"} THEN TablesFilled
    ELSE ccc_to_value_handle = Empty /\ notification_enabled = Empty /\ asked = {}

\* The history of a value and the value say the same, byte by byte.
SameBytes(w, value) ==
  /\ w.size = Len(value)
  /\ \A i \in DOMAIN w.bytes : w.bytes[i] = IF i <= Len(value) THEN value[i] ELSE 0

WrittenIsStored ==
  /\ written \in [DOMAIN chars -> [size : Nat, bytes : [1..2 * (LenMod - 1) -> Nat]]]
  /\ \A h \in DOMAIN chars : SameBytes(written[h], chars[h].value)

AInv ==
  /\ Entries
  /\ TablesByPlace
  /\ SubscriptionsKept
  /\ peer = NoClient => asked = {}
  /\ WrittenIsStored

LEMMA ServerInitEstablishes == ServerInit => AInv
  BY DEF ServerInit, Init, Empty, AInv, Entries, TablesByPlace, SubscriptionsKept, WrittenIsStored

\* A declared characteristic has its flag, and its CCC leads to it alone.
LEMMA OwnCcc ==
  ASSUME Entries, TablesFilled, NEW a \in Attributes,
         a.value \in DOMAIN chars, chars[a.value].spec.notify
  PROVE  /\ a.value \in DOMAIN notification_enabled
         /\ a.ccc \in DOMAIN ccc_to_value_handle
         /\ \A k \in DOMAIN ccc_to_value_handle : ccc_to_value_handle[k] = a.value <=> k = a.ccc
<1>1. chars[a.value].ccc = a.ccc /\ a.ccc # 0
  BY DatabaseAssumption DEF Entries, IsEntry
<1>2. a.value \in Notifiable
  BY <1>1 DEF Notifiable
<1>3. \A g \in Notifiable : chars[g].ccc = a.ccc => g = a.value
  BY <1>1, DatabaseAssumption DEF Entries, IsEntry, Notifiable
<1>4. QED
  BY <1>1, <1>2, <1>3 DEF TablesFilled

-----------------------------------------------------------------------------
(* Steps of the server.                                                    *)

LEMMA InstallKeeps ==
  ASSUME NEW c, Creators = {c}, IInv, AInv, NEW spec \in Specs, InstallTables(c, spec)
  PROVE  AInv'
<1> USE DEF InstallTables
<1>0. cpc'[c] = "register"
  BY DEF Install, IInv, TypeOK
<1>1. \A h \in DOMAIN chars' :
        /\ IsEntry(chars'[h], h)
        /\ chars'[h] \in [spec : Characteristic, ccc : Nat, value : Seq(Byte)]
  <2> SUFFICES ASSUME NEW h \in DOMAIN Resolve(spec)
               PROVE  /\ IsEntry(Resolve(spec)[h], h)
                      /\ Resolve(spec)[h] \in [spec : Characteristic, ccc : Nat, value : Seq(Byte)]
    OBVIOUS
  <2>1. \E r1, r2, r3 : Resolve(spec)[h] = [spec |-> r1, ccc |-> r2, value |-> r3]
    BY DEF Resolve
  <2>2. QED
    BY <2>1, Resolved
<1>2. chars' = [h \in DOMAIN chars' |-> chars'[h]]
  BY DEF Resolve
<1>3. Entries'
  BY <1>1, <1>2 DEF Entries
<1>4. TablesByPlace' /\ SubscriptionsKept' /\ asked' = {}
  BY <1>0 DEF TablesByPlace, SubscriptionsKept
<1>5. WrittenIsStored'
  <2> SUFFICES ASSUME NEW h \in DOMAIN chars'
               PROVE  /\ AsWritten(chars'[h].value) \in [size : Nat, bytes : [1..2 * (LenMod - 1) -> Nat]]
                      /\ SameBytes(AsWritten(chars'[h].value), chars'[h].value)
    BY DEF WrittenIsStored
  <2>1. chars'[h].value \in Seq(Byte)
    BY <1>1
  <2>2. \A i \in 1..Len(chars'[h].value) : chars'[h].value[i] \in Nat
    BY <2>1, ElementOfSeq, DataAssumption
  <2>3. Len(chars'[h].value) \in Nat /\ 2 * (LenMod - 1) \in Nat
    BY <2>1, DataAssumption, LenProperties
  <2>4. QED
    BY <2>2, <2>3 DEF AsWritten, SameBytes
<1>6. QED
  BY <1>3, <1>4, <1>5 DEF AInv

LEMMA FillKeeps ==
  ASSUME NEW c, Creators = {c}, IInv, AInv, FillTables(c)
  PROVE  AInv'
<1> USE DEF FillTables
<1>0. cpc[c] = "register" /\ cpc'[c] = "owns"
  BY DEF Register, IInv, TypeOK
<1>1. Entries' /\ WrittenIsStored' /\ asked' = {}
  BY <1>0 DEF AInv, Entries, WrittenIsStored, TablesByPlace, history
<1>2. Notifiable' = Notifiable
  BY DEF Notifiable
<1>3. TablesFilled'
  <2> DEFINE cccs == {chars[h].ccc : h \in Notifiable}
  <2>1. /\ ccc_to_value_handle' \in [cccs -> Notifiable]
        /\ \A k \in cccs : chars[ccc_to_value_handle'[k]].ccc = k
    BY DEF Notifiable
  <2>2. notification_enabled' = [h \in Notifiable |-> FALSE]
    BY DEF Notifiable
  <2>3. chars' = chars /\ cccs' = cccs
    BY <1>2
  <2> HIDE DEF cccs, FillTables
  <2>4. QED
    BY <1>2, <2>1, <2>2, <2>3 DEF TablesFilled, cccs
<1>4. TablesByPlace'
  BY <1>0, <1>3 DEF TablesByPlace
<1>5. SubscriptionsKept'
  <2> SUFFICES ASSUME NEW a \in Attributes, a.value \in DOMAIN chars, chars[a.value].spec.notify
               PROVE  notification_enabled'[a.value] <=> a.ccc \in asked'
    BY DEF SubscriptionsKept
  <2>1. a.value \in Notifiable
    BY DatabaseAssumption DEF AInv, Entries, IsEntry, Notifiable
  <2>2. notification_enabled'[a.value] = FALSE
    BY <2>1 DEF Notifiable
  <2>3. ~(a.ccc \in asked')
    BY <1>1
  <2>4. QED
    BY <2>2, <2>3
<1>6. QED
  BY <1>1, <1>4, <1>5 DEF AInv

LEMMA ClearKeeps ==
  ASSUME NEW c, Creators = {c}, IInv, AInv, ClearTables(c)
  PROVE  AInv'
<1>0. cpc'[c] = "none"
  BY DEF ClearTables, Forget, IInv, TypeOK
<1>1. QED
  BY <1>0 DEF ClearTables, AInv, Entries, TablesByPlace, SubscriptionsKept, WrittenIsStored, Empty

\* Steps that leave the tables alone neither make nor end a server with tables.
LEMMA ElsewhereKeeps ==
  ASSUME NEW c, Creators = {c}, IInv, AInv, Elsewhere \/ \E s \in Specs : RefuseSpec(c, s)
  PROVE  AInv'
<1>1. cpc'[c] \in {"owns", "drop"} <=> cpc[c] \in {"owns", "drop"}
  <2>1. CASE New(c) \/ Drop(c) \/ ResolveFails(c)
    BY <2>1 DEF New, Drop, ResolveFails, IInv, TypeOK
  <2>2. CASE (\E u \in Users, on \in BOOLEAN : Request(u, c, on)) \/ (\E u \in Users : Post(u)) \/ Update
    BY <2>2 DEF Request, Post, Update, Call, Look, SetData, Enable, program
  <2>3. QED
    BY <2>1, <2>2 DEF Elsewhere, RefuseSpec
<1>2. UNCHANGED attributes
  BY DEF Elsewhere, RefuseSpec
<1>3. QED
  BY <1>1, <1>2 DEF AInv, Entries, TablesByPlace, TablesFilled, Notifiable, SubscriptionsKept,
    WrittenIsStored, attributes, tables, history

-----------------------------------------------------------------------------
(* Callbacks.                                                              *)

LEMMA OverlayLemma ==
  ASSUME NEW value \in Seq(Byte), NEW offset \in Nat, NEW block \in Seq(Byte)
  PROVE  /\ Overlay(value, offset, block) \in Seq(Byte)
         /\ Len(Overlay(value, offset, block)) =
              IF Len(value) < offset + Len(block) THEN offset + Len(block) ELSE Len(value)
         /\ \A i \in 1..Len(Overlay(value, offset, block)) :
              Overlay(value, offset, block)[i] =
                IF offset < i /\ i <= offset + Len(block) THEN block[i - offset]
                ELSE IF i <= Len(value) THEN value[i] ELSE 0
<1> DEFINE n == IF Len(value) < offset + Len(block) THEN offset + Len(block) ELSE Len(value)
           byte(i) == IF offset < i /\ i <= offset + Len(block) THEN block[i - offset]
                      ELSE IF i <= Len(value) THEN value[i] ELSE 0
<1>1. Len(value) \in Nat /\ Len(block) \in Nat /\ n \in Nat
  BY LenProperties
<1>2. ASSUME NEW i \in 1..n
      PROVE  byte(i) \in Byte
  <2>1. CASE offset < i /\ i <= offset + Len(block)
    <3>1. i - offset \in 1..Len(block)
      BY <1>1, <2>1
    <3>2. QED
      BY <2>1, <3>1, ElementOfSeq
  <2>2. CASE ~(offset < i /\ i <= offset + Len(block)) /\ i <= Len(value)
    <3>1. i \in 1..Len(value)
      BY <1>1, <2>2
    <3>2. QED
      BY <2>2, <3>1, ElementOfSeq
  <2>3. CASE ~(offset < i /\ i <= offset + Len(block)) /\ ~(i <= Len(value))
    BY <2>3, DataAssumption
  <2>4. QED
    BY <2>1, <2>2, <2>3
<1>3. Overlay(value, offset, block) = [i \in 1..n |-> byte(i)]
  BY DEF Overlay, OverlayIn
<1> HIDE DEF n, byte
<1>4. [i \in 1..n |-> byte(i)] \in Seq(Byte) /\ Len([i \in 1..n |-> byte(i)]) = n
  BY <1>1, <1>2
<1>5. \A i \in 1..n : Overlay(value, offset, block)[i] = byte(i)
  BY <1>3
<1>6. QED
  BY <1>3, <1>4, <1>5 DEF n, byte

\* The history follows the value.
LEMMA RecordedLemma ==
  ASSUME NEW n \in Nat, NEW w \in [size : Nat, bytes : [1..n -> Nat]], NEW offset \in Nat,
         NEW block, Len(block) \in Nat, \A i \in 1..Len(block) : block[i] \in Nat,
         NEW value, Len(value) \in Nat, SameBytes(w, value), NEW new, Len(new) \in Nat,
         Len(new) = IF Len(value) < offset + Len(block) THEN offset + Len(block) ELSE Len(value),
         \A i \in 1..Len(new) :
           new[i] = IF offset < i /\ i <= offset + Len(block) THEN block[i - offset]
                    ELSE IF i <= Len(value) THEN value[i] ELSE 0
  PROVE  /\ Recorded(w, offset, block) \in [size : Nat, bytes : [1..n -> Nat]]
         /\ SameBytes(Recorded(w, offset, block), new)
<1> DEFINE r == Recorded(w, offset, block)
<1>1. r.size = Len(new) /\ r.size \in Nat
  BY DEF Recorded, SameBytes
<1>2. r.bytes = [i \in 1..n |-> IF i \in offset + 1..offset + Len(block)
                                THEN block[i - offset] ELSE w.bytes[i]]
  BY DEF Recorded
<1>3. ASSUME NEW i \in 1..n
      PROVE  /\ r.bytes[i] \in Nat
             /\ r.bytes[i] = IF i <= Len(new) THEN new[i] ELSE 0
  <2>1. w.bytes[i] \in Nat /\ w.bytes[i] = IF i <= Len(value) THEN value[i] ELSE 0
    BY DEF SameBytes
  <2>2. CASE i \in offset + 1..offset + Len(block)
    <3>1. i - offset \in 1..Len(block) /\ i \in 1..Len(new)
      BY <2>2
    <3>2. QED
      BY <1>2, <2>2, <3>1
  <2>3. CASE i \notin offset + 1..offset + Len(block)
    <3>1. r.bytes[i] = w.bytes[i]
      BY <1>2, <2>3
    <3>2. ~(offset < i /\ i <= offset + Len(block))
      BY <2>3
    <3>3. QED
      BY <2>1, <3>1, <3>2
  <2>4. QED
    BY <2>2, <2>3
<1>4. r = [size |-> r.size, bytes |-> r.bytes]
  BY DEF Recorded
<1>5. DOMAIN r.bytes = 1..n /\ r.bytes \in [1..n -> Nat]
  BY <1>2, <1>3
<1> HIDE DEF r
<1>6. QED
  BY <1>1, <1>3, <1>4, <1>5 DEF SameBytes, r

\* CCCs are not values.
LEMMA CccIsNoValue ==
  ASSUME NEW c, Creators = {c}, AInv, NEW k \in DOMAIN ccc_to_value_handle
  PROVE  /\ k \notin DOMAIN chars
         /\ \E a \in Attributes : a.ccc = k
         /\ cpc[c] \in {"owns", "drop"}
<1>1. cpc[c] \in {"owns", "drop"} /\ TablesFilled
  BY DEF AInv, TablesByPlace, Empty
<1>2. PICK g \in Notifiable : chars[g].ccc = k
  BY <1>1 DEF TablesFilled
<1>3. PICK a \in Attributes : a.ccc = k
  BY <1>2 DEF AInv, Entries, IsEntry, Notifiable
<1>4. QED
  BY <1>1, <1>3, DatabaseAssumption DEF AInv, Entries, IsEntry

\* A write changes one value at most, and nothing else of the entries; what
\* the history says of the value changes likewise.
LEMMA WriteKeepsEntries ==
  ASSUME NEW c, Creators = {c}, AInv, NEW h \in Handles, NEW offset \in 0..LenMod - 1,
         NEW block \in Data(h), att_write_callback(h, offset, block), Remember(h, offset, block)
  PROVE  /\ Entries'
         /\ WrittenIsStored'
         /\ DOMAIN chars' = DOMAIN chars
         /\ \A g \in DOMAIN chars : chars'[g].spec = chars[g].spec /\ chars'[g].ccc = chars[g].ccc
<1> DEFINE hit == h \in DOMAIN chars /\ chars[h].spec.write
           new == Overlay(chars[h].value, offset, block)
<1>1. CASE ~hit
  <2>1. chars' = chars /\ written' = written
    BY <1>1 DEF att_write_callback, Remember
  <2>2. QED
    BY <2>1 DEF AInv, Entries, WrittenIsStored
<1>2. CASE hit
  <2>1. h \notin DOMAIN ccc_to_value_handle
    BY <1>2, CccIsNoValue
  <2>2. chars' = [chars EXCEPT ![h].value = new]
    BY <1>2, <2>1 DEF att_write_callback
  <2>3. chars \in [DOMAIN chars -> [spec : Characteristic, ccc : Nat, value : Seq(Byte)]]
    BY DEF AInv, Entries
  <2>4. block \in Seq(Byte)
    BY <1>2, DatabaseAssumption, DataAssumption DEF AInv, Entries, IsEntry, Data
  <2>5. offset \in Nat /\ Len(block) \in Nat /\ Len(chars[h].value) \in Nat /\ LenMod \in Nat
    BY <1>2, <2>3, <2>4, DataAssumption, LenProperties
  <2>6. /\ new \in Seq(Byte)
        /\ Len(new) = IF Len(chars[h].value) < offset + Len(block)
                      THEN offset + Len(block) ELSE Len(chars[h].value)
        /\ \A i \in 1..Len(new) :
             new[i] = IF offset < i /\ i <= offset + Len(block) THEN block[i - offset]
                      ELSE IF i <= Len(chars[h].value) THEN chars[h].value[i] ELSE 0
    BY <1>2, <2>3, <2>4, <2>5, OverlayLemma
  <2> HIDE DEF new
  <2>7. /\ chars' \in [DOMAIN chars -> [spec : Characteristic, ccc : Nat, value : Seq(Byte)]]
        /\ chars'[h].value = new
        /\ \A g \in DOMAIN chars :
             /\ chars'[g].spec = chars[g].spec /\ chars'[g].ccc = chars[g].ccc
             /\ g # h => chars'[g] = chars[g]
    BY <1>2, <2>2, <2>3, <2>6
  <2>8. Entries'
    <3>1. DOMAIN chars' = DOMAIN chars
      BY <2>7
    <3>2. \A g \in DOMAIN chars : IsEntry(chars'[g], g)
      <4>1. \A g \in DOMAIN chars : IsEntry(chars[g], g)
        BY DEF AInv, Entries
      <4>2. QED
        BY <2>7, <4>1 DEF IsEntry
    <3>3. QED
      BY <2>7, <3>1, <3>2 DEF Entries
  <2>9. WrittenIsStored'
    <3>1. \A i \in 1..Len(block) : block[i] \in Nat
      BY <2>4, ElementOfSeq, DataAssumption
    <3>2. /\ written[h] \in [size : Nat, bytes : [1..2 * (LenMod - 1) -> Nat]]
          /\ SameBytes(written[h], chars[h].value)
      BY <1>2 DEF AInv, WrittenIsStored
    <3>3. /\ Recorded(written[h], offset, block) \in [size : Nat, bytes : [1..2 * (LenMod - 1) -> Nat]]
          /\ SameBytes(Recorded(written[h], offset, block), new)
      <4>1. 2 * (LenMod - 1) \in Nat
        BY DataAssumption
      <4>2. Len(new) \in Nat
        BY <2>6, LenProperties
      <4>3. QED
        BY <2>5, <2>6, <3>1, <3>2, <4>1, <4>2, RecordedLemma
    <3>4. written' = [written EXCEPT ![h] = Recorded(written[h], offset, block)]
      BY <1>2 DEF Remember
    <3>5. DOMAIN chars' = DOMAIN chars
      BY <2>7
    <3>6. QED
      BY <1>2, <2>7, <3>3, <3>4, <3>5 DEF AInv, WrittenIsStored
  <2>10. QED
    BY <2>7, <2>8, <2>9
<1>3. QED
  BY <1>1, <1>2

\* A write to a CCC is all that sets a flag, and sets that of its value.
LEMMA WriteKeepsFlags ==
  ASSUME NEW c, Creators = {c}, IInv, AInv, UNCHANGED cpc, UNCHANGED ccc_to_value_handle,
         NEW h \in Handles, NEW offset \in 0..LenMod - 1, NEW block \in Data(h),
         att_write_callback(h, offset, block), Remember(h, offset, block)
  PROVE  TablesByPlace' /\ SubscriptionsKept'
<1>1. /\ Entries'
      /\ DOMAIN chars' = DOMAIN chars
      /\ \A g \in DOMAIN chars : chars'[g].spec = chars[g].spec /\ chars'[g].ccc = chars[g].ccc
  BY WriteKeepsEntries
<1>2. Notifiable' = Notifiable
  BY <1>1 DEF Notifiable
<1>3. CASE cpc[c] \in {"owns", "drop"}
  <2>1. TablesFilled /\ RUNTIME
    BY <1>3 DEF AInv, TablesByPlace, IInv, ServerByPlace
  <2>2. DOMAIN notification_enabled' = DOMAIN notification_enabled
    BY DEF att_write_callback
  <2>3. TablesFilled'
    <3>1. {chars'[g].ccc : g \in Notifiable'} = {chars[g].ccc : g \in Notifiable}
      BY <1>1, <1>2 DEF Notifiable
    <3>2. notification_enabled' \in [Notifiable -> BOOLEAN]
      BY <2>1 DEF att_write_callback, TablesFilled
    <3>3. \A k \in DOMAIN ccc_to_value_handle : chars'[ccc_to_value_handle[k]].ccc = k
      BY <1>1, <2>1 DEF TablesFilled, Notifiable
    <3>4. QED
      BY <1>2, <2>1, <3>1, <3>2, <3>3 DEF TablesFilled
  <2>4. ASSUME NEW a \in Attributes, a.value \in DOMAIN chars', chars'[a.value].spec.notify
        PROVE  notification_enabled'[a.value] <=> a.ccc \in asked'
    <3>1. a.value \in DOMAIN chars /\ chars[a.value].spec.notify
      BY <1>1, <2>4
    <3>2. /\ a.value \in DOMAIN notification_enabled
          /\ a.ccc \in DOMAIN ccc_to_value_handle
          /\ \A k \in DOMAIN ccc_to_value_handle : ccc_to_value_handle[k] = a.value <=> k = a.ccc
      BY <2>1, <3>1, OwnCcc DEF AInv
    <3>3. notification_enabled[a.value] <=> a.ccc \in asked
      BY <1>3, <3>1 DEF AInv, SubscriptionsKept
    <3>4. CASE h = a.ccc /\ Len(block) >= 2
      <4>1. notification_enabled'[a.value] = (block[1] % 2 = 1)
        BY <3>2, <3>4 DEF att_write_callback
      <4>2. asked' = IF block[1] % 2 = 1 THEN asked \cup {h} ELSE asked \ {h}
        BY <1>3, <2>1, <3>4 DEF Remember
      <4>3. QED
        BY <3>4, <4>1, <4>2
    <3>5. CASE h # a.ccc \/ ~(Len(block) >= 2)
      <4>1. notification_enabled'[a.value] = notification_enabled[a.value]
        BY <3>2, <3>5 DEF att_write_callback
      <4>2. a.ccc \in asked' <=> a.ccc \in asked
        BY <3>5 DEF Remember
      <4>3. QED
        BY <3>3, <4>1, <4>2
    <3>6. QED
      BY <3>4, <3>5
  <2>5. QED
    BY <1>3, <2>3, <2>4 DEF TablesByPlace, SubscriptionsKept
<1>4. CASE cpc[c] \notin {"owns", "drop"}
  <2>1. ccc_to_value_handle = Empty /\ notification_enabled = Empty /\ asked = {}
    BY <1>4 DEF AInv, TablesByPlace
  <2>2. notification_enabled' = Empty
    BY <2>1 DEF att_write_callback, Empty
  <2>3. ~RUNTIME \/ cpc[c] = "register"
    BY <1>4 DEF IInv, ServerByPlace
  <2>4. asked' = {}
    BY <2>1, <2>3 DEF Remember
  <2>5. QED
    BY <1>4, <2>1, <2>2, <2>4 DEF TablesByPlace, SubscriptionsKept
<1>5. QED
  BY <1>3, <1>4

LEMMA WriteKeeps ==
  ASSUME NEW c, Creators = {c}, IInv, AInv,
         NEW h \in Handles, NEW offset \in 0..LenMod - 1, NEW block \in Data(h),
         Write(h, offset, block) \/ Prepare(h, offset, block)
  PROVE  AInv'
<1>1. /\ att_write_callback(h, offset, block) /\ Remember(h, offset, block)
      /\ UNCHANGED <<cpc, ccc_to_value_handle, peer>> /\ peer # NoClient
  BY DEF Write, Prepare, RunLoop, vars
<1>2. Entries' /\ WrittenIsStored'
  BY <1>1, WriteKeepsEntries
<1>3. TablesByPlace' /\ SubscriptionsKept'
  BY <1>1, WriteKeepsFlags
<1>4. QED
  BY <1>1, <1>2, <1>3 DEF AInv

\* A client that connects, or ends its transaction, changes no flag and no value.
LEMMA ClientKeeps ==
  ASSUME NEW c, Creators = {c}, AInv, (\E p \in Clients : Connect(p)) \/ Execute \/ Cancel
  PROVE  AInv'
<1>1. UNCHANGED <<cpc, chars, ccc_to_value_handle, notification_enabled, asked, written>>
  BY DEF Connect, Execute, Cancel, RunLoop, vars, tables, history
<1>2. peer' = NoClient => peer = NoClient
  BY ClientAssumption DEF Connect, Execute, Cancel
<1>3. QED
  BY <1>1, <1>2 DEF AInv, Entries, TablesByPlace, TablesFilled, Notifiable, SubscriptionsKept,
    WrittenIsStored

LEMMA DisconnectKeeps ==
  ASSUME NEW c, Creators = {c}, AInv, Disconnect
  PROVE  AInv'
<1>1. /\ UNCHANGED <<cpc, chars, ccc_to_value_handle, written>>
      /\ notification_enabled' = [h \in DOMAIN notification_enabled |-> FALSE]
      /\ asked' = {}
  BY DEF Disconnect, Leaves, RunLoop, vars
<1>2. Entries' /\ WrittenIsStored'
  BY <1>1 DEF AInv, Entries, WrittenIsStored
<1>3. TablesByPlace'
  <2>1. CASE cpc[c] \in {"owns", "drop"}
    BY <1>1, <2>1 DEF AInv, TablesByPlace, TablesFilled, Notifiable
  <2>2. CASE cpc[c] \notin {"owns", "drop"}
    BY <1>1, <2>2 DEF AInv, TablesByPlace, Empty
  <2>3. QED
    BY <2>1, <2>2
<1>4. SubscriptionsKept'
  <2> SUFFICES ASSUME cpc[c] \in {"owns", "drop"}, NEW a \in Attributes,
                      a.value \in DOMAIN chars, chars[a.value].spec.notify
               PROVE  notification_enabled'[a.value] <=> a.ccc \in asked'
    BY <1>1 DEF SubscriptionsKept
  <2>1. a.value \in DOMAIN notification_enabled
    BY OwnCcc DEF AInv, TablesByPlace
  <2>2. QED
    BY <1>1, <2>1
<1>5. QED
  BY <1>1, <1>2, <1>3, <1>4 DEF AInv

-----------------------------------------------------------------------------
(* The theorems.                                                           *)

THEOREM ServerInductive ==
  ASSUME NEW c, Creators = {c}
  PROVE  ServerSpec => [](IInv /\ AInv)
<1>1. IInv /\ AInv /\ [ServerNext]_allVars => AInv'
  <2> SUFFICES ASSUME IInv, AInv, [ServerNext]_allVars
               PROVE  AInv'
    OBVIOUS
  <2>1. CASE UNCHANGED allVars
    BY <2>1 DEF AInv, Entries, TablesByPlace, TablesFilled, Notifiable, SubscriptionsKept,
      WrittenIsStored, allVars, vars, attributes, tables, history
  <2>2. CASE \E spec \in Specs : InstallTables(c, spec)
    BY <2>2, InstallKeeps
  <2>3. CASE FillTables(c) \/ ClearTables(c)
    BY <2>3, FillKeeps, ClearKeeps
  <2>4. CASE Elsewhere \/ \E spec \in Specs : RefuseSpec(c, spec)
    BY <2>4, ElsewhereKeeps
  <2>5. CASE (\E p \in Clients : Connect(p)) \/ Execute \/ Cancel
    BY <2>5, ClientKeeps
  <2>6. CASE Disconnect
    BY <2>6, DisconnectKeeps
  <2>7. ASSUME NEW h \in Handles, NEW offset \in 0..LenMod - 1, NEW block \in Data(h),
               Write(h, offset, block) \/ Prepare(h, offset, block)
        PROVE  AInv'
    BY <2>7, WriteKeeps
  <2>8. QED
    BY <2>1, <2>2, <2>3, <2>4, <2>5, <2>6, <2>7 DEF ServerNext
<1>2. ServerSpec => []IInv
  BY ServerImplements, Inductive, PTL
<1>3. QED
  BY <1>1, <1>2, ServerInitEstablishes, PTL DEF ServerSpec

\* A characteristic's flag is what its client asked for, in any database and for
\* any specification, whatever servers and clients there were before
\* (peripheral.rs:253-260, 464-470, 513-521).
THEOREM FlagsAreTheClients ==
  ASSUME NEW c, Creators = {c}
  PROVE  ServerSpec => []SubscriptionsKept
<1>1. AInv => SubscriptionsKept
  BY DEF AInv
<1>2. QED
  BY <1>1, ServerInductive, PTL

\* Who is connected, and what it has begun.
ClientSide ==
  /\ peer \in Clients \cup {NoClient}
  /\ connected_handle \in {NoClient, peer}
  /\ transaction \in {"none", "open", "cancelled"}

LEMMA ClientSideKept == ClientSide /\ [ServerNext]_allVars => ClientSide'
<1> SUFFICES ASSUME ClientSide, [ServerNext]_allVars
             PROVE  ClientSide'
  OBVIOUS
<1> USE DEF ClientSide
<1>1. CASE UNCHANGED attributes
  BY <1>1 DEF attributes, tables
<1>2. ASSUME NEW c \in Creators, NEW spec \in Specs, InstallTables(c, spec)
      PROVE  ClientSide'
  BY <1>2 DEF InstallTables
<1>3. ASSUME NEW c \in Creators, FillTables(c) \/ ClearTables(c)
      PROVE  ClientSide'
  BY <1>3 DEF FillTables, ClearTables
<1>4. CASE \E p \in Clients : Connect(p)
  BY <1>4 DEF Connect
<1>5. CASE Disconnect
  BY <1>5 DEF Disconnect, Leaves
<1>6. ASSUME NEW h \in Handles, NEW offset \in 0..LenMod - 1, NEW block \in Data(h),
             Write(h, offset, block) \/ Prepare(h, offset, block)
      PROVE  ClientSide'
  BY <1>6 DEF Write, Prepare
<1>7. CASE Execute \/ Cancel
  BY <1>7 DEF Execute, Cancel, tables
<1>8. CASE Elsewhere \/ \E c \in Creators, spec \in Specs : RefuseSpec(c, spec)
  BY <1>1, <1>8 DEF Elsewhere, RefuseSpec
<1>9. CASE UNCHANGED allVars
  BY <1>1, <1>9 DEF allVars
<1>10. QED
  BY <1>2, <1>3, <1>4, <1>5, <1>6, <1>7, <1>8, <1>9 DEF ServerNext

\* The tables have the shape their code relies on: a flag for characteristics of
\* the table of values only, and from a CCC to a flag that is there, so that
\* att_write_callback never looks up a flag in vain; and the server takes no
\* other client for its own than the one that is connected
\* (peripheral.rs:253-260, 421-426, 513-521).
THEOREM ServerTypeCorrect ==
  ASSUME NEW c, Creators = {c}
  PROVE  ServerSpec => []ServerTypeOK
<1>1. IInv /\ AInv /\ ClientSide => ServerTypeOK
  <2> SUFFICES ASSUME IInv, AInv, ClientSide
               PROVE  ServerTypeOK
    OBVIOUS
  <2>1. Notifiable \subseteq DOMAIN chars
    BY DEF Notifiable
  <2>2. /\ DOMAIN notification_enabled \subseteq DOMAIN chars
        /\ notification_enabled \in [DOMAIN notification_enabled -> BOOLEAN]
        /\ ccc_to_value_handle \in [DOMAIN ccc_to_value_handle -> DOMAIN notification_enabled]
    <3>1. CASE cpc[c] \in {"owns", "drop"}
      BY <2>1, <3>1, Zenon DEF AInv, TablesByPlace, TablesFilled
    <3>2. CASE cpc[c] \notin {"owns", "drop"}
      BY <3>2 DEF AInv, TablesByPlace, Empty
    <3>3. QED
      BY <3>1, <3>2
  <2>3. TypeOK /\ chars \in [DOMAIN chars -> [spec : Characteristic, ccc : Nat, value : Seq(Byte)]]
    BY DEF IInv, AInv, Entries
  <2>4. QED
    BY <2>2, <2>3 DEF ServerTypeOK, ClientSide
<1>2. ServerInit => ClientSide
  BY DEF ServerInit, ClientSide
<1>3. QED
  BY <1>1, <1>2, ClientSideKept, ServerInductive, PTL DEF ServerSpec

\* The run of the server with its tables checks these of the server alone; they
\* hold of it because it implements that one.
THEOREM AdvertisingWithClients ==
  ASSUME NEW c, Creators = {c}
  PROVE  ServerSpec => [](LastRequestWins /\ SilentWithoutServer)
  BY ServerImplements, LastRequestPrevails, DropSilences, PTL

\* The cast of a length to u16 yields no more than the length, and a length
\* below 2^16 survives it.
LEMMA Cast ==
  ASSUME NEW m \in Nat \ {0}, NEW x \in Nat
  PROVE  x % m \in Nat /\ x % m < m /\ x % m <= x /\ (x < m => x % m = x)
  OBVIOUS

\* Reads return what was written, for values, blocks and offsets of any length:
\* all of it as long as the length fits its 16 bits, and nothing else when it
\* does not (peripheral.rs:487-493, 538-545).
THEOREM ReadsAreWrites ==
  ASSUME NEW c, Creators = {c}
  PROVE  ServerSpec => []ReadsReturnWrites
<1>1. AInv => ReadsReturnWrites
  <2> SUFFICES ASSUME AInv, NEW h \in DOMAIN chars,
                      NEW offset \in 0..LenMod - 1, NEW size \in 0..LenMod - 1
               PROVE  LET read == att_read_callback(h, offset, size)
                          there == {i \in 1..size : offset + i <= written[h].size}
                      IN  /\ DOMAIN read \subseteq there
                          /\ written[h].size < LenMod => DOMAIN read = there
                          /\ \A i \in DOMAIN read : read[i] = written[h].bytes[offset + i]
    BY DEF ReadsReturnWrites
  <2> DEFINE value == chars[h].value
             length == Len(value) % LenMod
             n == IF length < offset THEN 0
                  ELSE IF size < length - offset THEN size ELSE length - offset
             there == {i \in 1..size : offset + i <= written[h].size}
  <2>1. written[h].size = Len(value) /\ Len(value) \in Nat
    BY LenProperties DEF AInv, Entries, WrittenIsStored, SameBytes
  <2>2. LenMod \in Nat \ {0} /\ offset \in Nat /\ size \in Nat
    BY DataAssumption
  <2>3. /\ length \in Nat /\ length < LenMod /\ length <= Len(value)
        /\ Len(value) < LenMod => length = Len(value)
    BY <2>1, <2>2, Cast
  <2>4. att_read_callback(h, offset, size) = [i \in 1..n |-> value[offset + i]]
    BY DEF att_read_callback
  <2> HIDE DEF value, length
  <2>5. n \in Nat /\ \A i \in Nat : i \in 1..n <=> i \in 1..size /\ offset + i <= length
    BY <2>2, <2>3
  <2> HIDE DEF n
  <2>6. 1..n \subseteq there /\ (written[h].size < LenMod => 1..n = there)
    <3>1. \A i \in Nat : i \in there <=> i \in 1..size /\ offset + i <= Len(value)
      BY <2>1, <2>2
    <3>2. 1..n \subseteq Nat /\ there \subseteq Nat
      BY <2>2, <2>5
    <3> HIDE DEF there
    <3>3. \A i \in Nat : i \in 1..n => i \in there
      BY <2>1, <2>2, <2>3, <2>5, <3>1
    <3>4. ASSUME Len(value) < LenMod
          PROVE  \A i \in Nat : i \in there => i \in 1..n
      BY <2>3, <2>5, <3>1, <3>4
    <3>5. QED
      BY <2>1, <3>2, <3>3, <3>4
  <2>7. \A i \in 1..n : written[h].bytes[offset + i] = value[offset + i]
    <3>1. \A j \in 1..2 * (LenMod - 1) : written[h].bytes[j] = IF j <= Len(value) THEN value[j] ELSE 0
      BY DEF AInv, WrittenIsStored, SameBytes, value
    <3>2. ASSUME NEW i \in 1..n
          PROVE  offset + i \in 1..2 * (LenMod - 1) /\ offset + i <= Len(value)
      <4>1. i \in 1..size /\ offset + i <= length
        BY <2>5
      <4>2. QED
        BY <2>1, <2>2, <2>3, <4>1
    <3>3. QED
      BY <3>1, <3>2
  <2> HIDE DEF there
  <2>8. QED
    BY <2>4, <2>6, <2>7 DEF there
<1>2. QED
  BY <1>1, ServerInductive, PTL
=============================================================================
