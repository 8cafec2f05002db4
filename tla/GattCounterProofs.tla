------------------------- MODULE GattCounterProofs -------------------------
(***************************************************************************)
(* Theorems about GattCounter, for any clients and connection handles.     *)
(***************************************************************************)
EXTENDS GattCounter, TLAPS

\* At most one client is connected; a client that wants notifications is the
\* one the statics speak of, and only such a client keeps the flag set, unless
\* it was carried over a restart.
Statics ==
  /\ \A c, d \in Clients : link[c] # NoHandle /\ link[d] # NoHandle => c = d
  /\ \A c \in Clients :
       wants[c] => link[c] # NoHandle /\ CONNECTION_HANDLE = link[c] /\ NOTIFICATION_ENABLED
  /\ NOTIFICATION_ENABLED /\ ~carried => \E c \in Clients : wants[c]
  /\ carried => NOTIFICATION_ENABLED

\* An event is to come for a connection that exists.  What a client got
\* unwanted it got while it was connected, and with the last event there was,
\* since without the flag nobody asks for another.
Events ==
  /\ \A h \in requested : \E c \in Clients : link[c] = h
  /\ \A c \in Clients : link[c] = NoHandle => unwanted[c] = 0
  /\ ~carried =>
       \A c \in Clients :
         /\ unwanted[c] <= 1
         /\ ~wants[c] /\ requested # {} => unwanted[c] = 0
  /\ UnwantedOnce
  /\ \A c \in Clients : wants[c] => unwanted[c] = 0

\* TypeOK in two parts, since the provers do not take it in one.
TypeOfClients ==
  /\ link \in [Clients -> Handles \cup {NoHandle}]
  /\ wants \in [Clients -> BOOLEAN]
  /\ unwanted \in [Clients -> 0..2]

TypeOfRest ==
  /\ up \in BOOLEAN /\ NOTIFICATION_ENABLED \in BOOLEAN /\ HEARTBEAT_TIMER \in BOOLEAN
  /\ unsent \in BOOLEAN /\ carried \in BOOLEAN
  /\ CONNECTION_HANDLE \in Handles
  /\ requested \subseteq Handles

IInv == TypeOK /\ Statics /\ Events /\ NotificationsAreNews

LEMMA InitEstablishes == Init => IInv
<1> SUFFICES ASSUME Init
             PROVE  IInv
  OBVIOUS
<1>1. TypeOfClients
  BY DEF Init, TypeOfClients
<1>2. TypeOfRest
  BY DEF Init, TypeOfRest
<1>3. Statics /\ Events /\ NotificationsAreNews
  BY NoHandleIsNone DEF Init, Statics, Events, UnwantedOnce, NotificationsAreNews
<1>4. QED
  BY <1>1, <1>2, <1>3 DEF IInv, TypeOK, TypeOfClients, TypeOfRest

LEMMA StepKeeps == IInv /\ [Next]_vars => IInv'
<1> SUFFICES ASSUME IInv, [Next]_vars
             PROVE  IInv'
  OBVIOUS
<1> USE NoHandleIsNone
<1> USE DEF IInv, TypeOK, Statics, Events, UnwantedOnce, NotificationsAreNews
<1>1. CASE Setup
  BY <1>1 DEF Setup, clients
<1>2. CASE Shutdown
  <2>1. TypeOfClients'
    BY <1>2 DEF Shutdown, TypeOfClients
  <2>2. TypeOfRest'
    BY <1>2 DEF Shutdown, TypeOfRest
  <2>3. Statics' /\ Events' /\ NotificationsAreNews'
    BY <1>2 DEF Shutdown
  <2>4. QED
    BY <2>1, <2>2, <2>3 DEF TypeOfClients, TypeOfRest
<1>3. CASE heartbeat_handler
  BY <1>3 DEF heartbeat_handler, Beat, clients
<1>4. ASSUME NEW h \in Handles, CanSendNow(h)
      PROVE  IInv'
  <2>1. requested' = {}
    BY <1>4 DEF CanSendNow
  <2>2. \A d \in Clients : unwanted'[d] # unwanted[d] =>
          /\ ~wants[d] /\ link[d] # NoHandle /\ link[d] = CONNECTION_HANDLE
          /\ unwanted'[d] = unwanted[d] + 1 /\ unwanted[d] < 2
    BY <1>4 DEF CanSendNow
  <2>3. UNCHANGED <<up, NOTIFICATION_ENABLED, CONNECTION_HANDLE, HEARTBEAT_TIMER, link, wants, carried>>
    BY <1>4 DEF CanSendNow, clients
  <2>4. requested # {}
    BY <1>4 DEF CanSendNow
  <2>5. TypeOK'
    <3>1. unwanted' \in [Clients -> 0..2]
      BY <1>4, <2>2 DEF CanSendNow
    <3>2. unsent' \in BOOLEAN
      BY <1>4 DEF CanSendNow
    <3>3. QED
      BY <2>1, <2>3, <3>1, <3>2
  <2>6. Statics'
    BY <2>3
  <2>7. Events'
    BY <2>1, <2>2, <2>3, <2>4
  <2>8. QED
    BY <2>1, <2>5, <2>6, <2>7
<1>5. ASSUME NEW c \in Clients, NEW config \in 0..2, NEW size \in 1..2,
             WriteConfiguration(c, config, size)
      PROVE  IInv'
  <2>1. NOTIFICATION_ENABLED' \in BOOLEAN
    BY <1>5 DEF WriteConfiguration
  <2>2. /\ link[c] # NoHandle
        /\ CONNECTION_HANDLE' = link[c]
        /\ wants' = [wants EXCEPT ![c] = NOTIFICATION_ENABLED']
        /\ unwanted' = [unwanted EXCEPT ![c] = 0]
        /\ carried' = FALSE
        /\ UNCHANGED <<up, HEARTBEAT_TIMER, unsent, link, requested>>
    BY <1>5 DEF WriteConfiguration, Connected
  <2>3. \A d \in Clients : d # c => link[d] = NoHandle /\ ~wants[d] /\ unwanted[d] = 0
    BY <2>2
  <2>4. TypeOfClients'
    BY <2>1, <2>2 DEF TypeOfClients
  <2>8. TypeOfRest'
    BY <2>1, <2>2 DEF TypeOfRest
  <2>5. Statics'
    BY <2>1, <2>2, <2>3
  <2>6. Events'
    BY <2>2, <2>3
  <2>7. QED
    <3>1. NotificationsAreNews'
      BY <2>2
    <3>2. QED
      BY <2>4, <2>5, <2>6, <2>8, <3>1 DEF TypeOfClients, TypeOfRest
<1>6. ASSUME NEW c \in Clients, Disconnect(c)
      PROVE  IInv'
  <2>1. /\ link[c] # NoHandle
        /\ NOTIFICATION_ENABLED' = FALSE
        /\ carried' = FALSE
        /\ link' = [link EXCEPT ![c] = NoHandle]
        /\ requested' = requested \ {link[c]}
        /\ wants' = [wants EXCEPT ![c] = FALSE]
        /\ unwanted' = [unwanted EXCEPT ![c] = 0]
        /\ UNCHANGED <<up, CONNECTION_HANDLE, HEARTBEAT_TIMER, unsent>>
    BY <1>6 DEF Disconnect, Gone, Connected
  <2>2. \A d \in Clients : d # c => link[d] = NoHandle /\ ~wants[d] /\ unwanted[d] = 0
    BY <2>1
  <2>3. requested' = {}
    BY <2>1, <2>2
  <2>4. TypeOfClients'
    BY <2>1 DEF TypeOfClients
  <2>8. TypeOfRest'
    BY <2>1, <2>3 DEF TypeOfRest
  <2>5. Statics'
    BY <2>1, <2>2
  <2>6. Events'
    BY <2>1, <2>2, <2>3
  <2>7. QED
    BY <2>3, <2>4, <2>5, <2>6, <2>8 DEF TypeOfClients, TypeOfRest
<1>7. ASSUME NEW c \in Clients, NEW h \in Handles, Connect(c, h)
      PROVE  IInv'
  BY <1>7 DEF Connect, Connected, code
<1>8. CASE UNCHANGED vars
  BY <1>8 DEF vars, code, clients
<1>9. QED
  BY <1>1, <1>2, <1>3, <1>4, <1>5, <1>6, <1>7, <1>8 DEF Next

THEOREM Inductive == Spec => []IInv
  BY InitEstablishes, StepKeeps, PTL DEF Spec

\* No client gets a second notification it has not asked for, whichever clients
\* had its handle before, unless the handle is that of a client for which the
\* flag was up when the last runtime was shut down (gatt_counter.rs:83-108, 133-149).
THEOREM NoSecondUnwanted == Spec => []UnwantedOnce
<1>1. IInv => UnwantedOnce
  BY DEF IInv, Events
<1>2. QED
  BY <1>1, Inductive, PTL

\* No text is notified twice (gatt_counter.rs:123-131).
THEOREM NoTextTwice == Spec => []NotificationsAreNews
<1>1. IInv => NotificationsAreNews
  BY DEF IInv
<1>2. QED
  BY <1>1, Inductive, PTL
=============================================================================
