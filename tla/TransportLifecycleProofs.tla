---------------------- MODULE TransportLifecycleProofs ----------------------
(***************************************************************************)
(* Theorems about TransportLifecycle, for any number of threads, sessions  *)
(* and handlers, and whatever workers may call back into the transport.    *)
(*                                                                         *)
(* The argument: the claim of an interface, kept by the opening thread and *)
(* the clones of the workers, is in the way of a second session of the     *)
(* same adapter.  A session changes hands (opening thread, STATE.active,   *)
(* closing thread) and is in one hand at a time, which tells what its      *)
(* workers are doing; a replaced session is in no hand and its readers     *)
(* never end.                                                              *)
(***************************************************************************)
EXTENDS TransportLifecycle, TLAPS

\* Where a thread has a session that is not published yet.
Before == {"info", "event", "acl", "writer", "publish"}

\* Where a thread has a session it has taken from STATE.
After == {"close", "joinEvent", "joinAcl", "joinWriter"}

\* The interface of an adapter is held by one session at a time.
OneClaim ==
  \A r, s \in Sessions :
    HoldsInterface(r) /\ HoldsInterface(s) /\ adapter[r] = adapter[s] => r = s

\* A session is in one hand at a time.
OneHand ==
  /\ \A t, u \in Threads :
       /\ tpc[t] \in Before \cup {"return"} /\ tpc[u] \in Before \cup {"return"}
       /\ mine[t] = mine[u]
       => t = u
  /\ \A t, u \in Threads :
       tpc[t] \in After /\ tpc[u] \in Before \cup After /\ mine[t] = mine[u] => t = u
  /\ \A t \in Threads : active # NoSession /\ mine[t] = active => tpc[t] = "return"

\* A replaced session is in no hand any more, and its readers do not end.
ReplacedRun ==
  /\ active \notin replaced
  /\ \A t \in Threads : mine[t] \in replaced => tpc[t] = "return"
  /\ \A s \in replaced : ~stop[s] /\ IsLive(s, "event")

\* A running worker's session is in some hand, or is replaced.
LiveIsHeld ==
  \A s \in Sessions : Live(s) =>
    \/ active = s
    \/ \E t \in Threads : mine[t] = s /\ tpc[t] \in Before \cup After
    \/ s \in replaced

\* What is known of the workers where a thread has their session.
WorkersByPlace ==
  \A t \in Threads :
    /\ tpc[t] \in Before \cup {"close"} => ~stop[mine[t]]
    /\ tpc[t] \in {"acl", "writer", "publish", "close"} => IsLive(mine[t], "event")
    /\ tpc[t] \in {"writer", "publish", "close"} => IsLive(mine[t], "acl")
    /\ tpc[t] \in {"publish", "close"} => IsLive(mine[t], "writer")
    /\ tpc[t] \in {"joinAcl", "joinWriter"} => worker[mine[t]]["event"] = "exited"
    /\ tpc[t] = "joinWriter" => worker[mine[t]]["acl"] = "exited"

IInv ==
  /\ TypeOK
  /\ OneClaim
  /\ ActiveIsComplete
  /\ OneHand
  /\ ReplacedRun
  /\ LiveIsHeld
  /\ WorkersByPlace

LEMMA InitEstablishes == Init => IInv
  BY NoSessionIsNone DEF Init, IInv, TypeOK, OneClaim, HoldsInterface, Opening, Live,
    IsLive, ActiveIsComplete, OneHand, ReplacedRun, LiveIsHeld, WorkersByPlace, Before, After,
    Kinds, Readers

\* A thread that has a session has a session.
LEMMA HandHolds ==
  ASSUME TypeOK, NEW t \in Threads, tpc[t] \notin {"idle", "select"}
  PROVE  mine[t] \in Sessions /\ mine[t] # NoSession
  BY NoSessionIsNone DEF TypeOK

\* An active session has workers that run.
LEMMA ActiveIsLive ==
  ASSUME IInv, active # NoSession
  PROVE  active \in Sessions /\ Live(active) /\ HoldsInterface(active)
  BY DEF IInv, TypeOK, ActiveIsComplete, Live, HoldsInterface, Kinds, Readers

\* While a session of an adapter is opened, the one in STATE is of another:
\* its workers would have kept the claim.
LEMMA ActiveIsAnother ==
  ASSUME IInv, NEW t \in Threads, tpc[t] \in Before, active # NoSession
  PROVE  adapter[active] # adapter[mine[t]]
<1> SUFFICES ASSUME adapter[active] = adapter[mine[t]]
             PROVE  FALSE
  OBVIOUS
<1>1. mine[t] \in Sessions /\ HoldsInterface(mine[t])
  BY HandHolds DEF IInv, HoldsInterface, Opening, Before
<1>2. mine[t] = active
  BY <1>1, ActiveIsLive DEF IInv, OneClaim
<1>3. QED
  BY <1>2 DEF IInv, OneHand, Before

-----------------------------------------------------------------------------
(* Steps of the workers.                                                   *)

\* A worker that runs goes on, or ends where the stop flag is up; the writer of
\* a replaced session ends also where it is not.
LEMMA MoveKeeps ==
  ASSUME IInv, NEW s \in Sessions, NEW k \in Kinds,
         NEW place \in {"running", "calling", "check", "exited"},
         IsLive(s, k), place = "exited" => stop[s] \/ (k = "writer" /\ s \in replaced),
         MoveTo(s, k, place)
  PROVE  IInv'
<1> USE DEF IInv, MoveTo
<1>1. TypeOK'
  BY DEF TypeOK
<1>2. \A r \in Sessions, j \in Kinds :
        /\ IsLive(r, j)' => IsLive(r, j)
        /\ IsLive(r, j) /\ ~stop[r] /\ (r \in replaced => j # "writer") => IsLive(r, j)'
        /\ worker[r][j] = "exited" => worker'[r][j] = "exited"
  BY DEF TypeOK, IsLive
<1>3. \A r \in Sessions : Live(r)' => Live(r)
  BY <1>2 DEF Live
<1>4. OneClaim'
  BY <1>3 DEF OneClaim, HoldsInterface, Opening
<1>5. ActiveIsComplete'
  BY <1>2 DEF ActiveIsComplete, ReplacedRun, TypeOK
<1>6. OneHand' /\ LiveIsHeld' /\ ReplacedRun'
  <2>1. \A r \in replaced : IsLive(r, "event")'
    BY <1>2 DEF ReplacedRun, TypeOK, Kinds, Readers
  <2>2. QED
    BY <1>3, <2>1 DEF OneHand, LiveIsHeld, ReplacedRun
<1>7. WorkersByPlace'
  <2> SUFFICES ASSUME NEW t \in Threads
               PROVE  WorkersByPlace!(t)'
    BY DEF WorkersByPlace
  <2>1. tpc[t] \notin {"idle", "select"} => mine[t] \in Sessions
    BY HandHolds
  <2>2. mine[t] \in replaced => tpc[t] = "return"
    BY DEF ReplacedRun
  <2>3. QED
    BY <1>2, <2>1, <2>2 DEF WorkersByPlace, Before, Kinds, Readers
<1>8. QED
  BY <1>1, <1>4, <1>5, <1>6, <1>7

LEMMA WorkersKeep ==
  ASSUME IInv, NEW s \in Sessions, NEW k \in Kinds,
         \/ k \in Readers /\ InboundCompletes(s, k)
         \/ k = "writer" /\ OutboundCompletes(s)
         \/ HandlerReturns(s, k)
         \/ WorkerStep(s, k)
         \/ k = "writer" /\ WriterLosesSender(s)
  PROVE  IInv'
<1>1. PICK place \in {"running", "calling", "check", "exited"} :
        /\ MoveTo(s, k, place)
        /\ IsLive(s, k)
        /\ place = "exited" => stop[s] \/ (k = "writer" /\ s \in replaced)
  BY DEF InboundCompletes, OutboundCompletes, HandlerReturns, WorkerStep, EmitPacket,
    ReaderChecksStop, WriterEnds, WriterLosesSender, AfterEmit, IsLive
<1>2. QED
  BY <1>1, MoveKeeps

-----------------------------------------------------------------------------
(* Steps of transport_open and transport_close.                            *)

\* Steps of a thread that has no session and gets none.
LEMMA OutsideKeeps ==
  ASSUME IInv, NEW t \in Threads,
         Open(t) \/ OpenFails(t) \/ \E h \in Handlers : RegisterPacketHandler(t, h)
  PROVE  IInv'
<1> USE DEF IInv, Open, OpenFails, RegisterPacketHandler, MayCall
<1>1. TypeOK'
  BY DEF TypeOK
<1>2. \A u \in Threads : tpc'[u] # tpc[u] => tpc[u] \in {"idle", "select"} /\ tpc'[u] \in {"idle", "select"}
  BY DEF TypeOK
<1>3. /\ UNCHANGED <<active, mine, stop, worker, replaced>>
      /\ \A s \in Sessions : Live(s)' = Live(s)
  BY DEF Live, IsLive
<1>4. OneClaim'
  BY <1>2, <1>3 DEF OneClaim, HoldsInterface, Opening
<1>5. ActiveIsComplete'
  BY <1>3 DEF ActiveIsComplete, IsLive
<1>6. OneHand'
  BY <1>2, <1>3 DEF OneHand, Before, After
<1>7. LiveIsHeld'
  BY <1>2, <1>3 DEF LiveIsHeld, Before, After
<1>8. WorkersByPlace'
  BY <1>2, <1>3 DEF WorkersByPlace, Before, IsLive
<1>9. ReplacedRun'
  BY <1>2, <1>3 DEF ReplacedRun, IsLive
<1>10. QED
  BY <1>1, <1>4, <1>5, <1>6, <1>7, <1>8, <1>9

\* The claim: no other session of the adapter holds the interface, and the name
\* is free.
LEMMA ClaimKeeps ==
  ASSUME IInv, NEW t \in Threads, NEW s \in Sessions, Claim(t, s)
  PROVE  IInv'
<1> USE DEF IInv, Claim
<1>1. TypeOK'
  BY NoSessionIsNone DEF TypeOK
<1>2. ~Live(s) /\ active # s
  BY DEF Gone, HoldsInterface
<1>3. s \notin replaced
  BY <1>2 DEF ReplacedRun, Live, Kinds, Readers
<1>4. \A u \in Threads : tpc[u] \notin {"idle", "select"} => mine[u] # s
  BY DEF Gone, HoldsInterface, Opening, Closing, TypeOK
<1>5. \A u \in Threads \ {t} : tpc'[u] = tpc[u] /\ mine'[u] = mine[u]
  BY DEF TypeOK
<1>6. tpc[t] = "select" /\ tpc'[t] = "info" /\ mine'[t] = s /\ ~stop'[s]
  BY DEF TypeOK
<1>7. /\ ~Live(s)'
      /\ \A r \in Sessions \ {s} : worker'[r] = worker[r] /\ stop'[r] = stop[r]
  BY DEF Live, IsLive, TypeOK, Kinds, Readers
<1>8. \A r \in Sessions \ {s} : (Live(r)' <=> Live(r)) /\ (HoldsInterface(r)' => HoldsInterface(r))
  BY <1>5, <1>6, <1>7 DEF Live, IsLive, HoldsInterface, Opening
<1>9. OneClaim'
  <2>1. \A r \in Sessions \ {s} : adapter'[r] = adapter[r] /\ (adapter[r] = adapter'[s] => ~HoldsInterface(r))
    BY DEF TypeOK
  <2>2. QED
    BY <1>8, <2>1 DEF OneClaim
<1>10. ActiveIsComplete'
  BY <1>2, <1>7 DEF ActiveIsComplete, IsLive, TypeOK
<1>11. OneHand'
  BY <1>2, <1>4, <1>5, <1>6 DEF OneHand, Before, After
<1>12. ReplacedRun'
  BY <1>1, <1>3, <1>5, <1>6, <1>7 DEF ReplacedRun, IsLive, TypeOK
<1>13. LiveIsHeld'
  BY <1>5, <1>6, <1>7, <1>8 DEF LiveIsHeld, Before, After
<1>14. WorkersByPlace'
  <2> SUFFICES ASSUME NEW u \in Threads
               PROVE  WorkersByPlace!(u)'
    BY DEF WorkersByPlace
  <2>1. CASE u = t
    BY <1>6, <2>1 DEF Before
  <2>2. CASE u # t /\ tpc[u] \in {"idle", "select"}
    BY <1>5, <2>2 DEF Before
  <2>3. CASE u # t /\ tpc[u] \notin {"idle", "select"}
    <3>1. mine[u] \in Sessions \ {s}
      BY <1>4, <2>3, HandHolds
    <3>2. QED
      BY <1>5, <1>7, <2>3, <3>1 DEF WorkersByPlace, Before, IsLive
  <2>4. QED
    BY <2>1, <2>2, <2>3
<1>15. QED
  BY <1>1, <1>9, <1>10, <1>11, <1>12, <1>13, <1>14

\* Steps of a thread from one place to the next with the same session.
LEMMA OpeningKeeps ==
  ASSUME IInv, NEW t \in Threads, EmitUsbInfo(t) \/ Spawn(t)
  PROVE  IInv'
<1> USE DEF IInv, EmitUsbInfo, Spawn, Kinds, Readers
<1>1. /\ tpc[t] \in {"info", "event", "acl", "writer"} /\ tpc'[t] \in Before
      /\ \A u \in Threads \ {t} : tpc'[u] = tpc[u]
      /\ UNCHANGED <<active, mine, stop, replaced>>
  BY DEF TypeOK, Before
<1>2. /\ mine[t] \in Sessions /\ ~stop[mine[t]]
      /\ mine[t] # active /\ mine[t] \notin replaced
  BY <1>1, HandHolds DEF WorkersByPlace, OneHand, ReplacedRun, Before
<1>3. TypeOK'
  <2>1. worker' \in [Sessions -> [Kinds -> {"none", "running", "calling", "check", "exited"}]]
    BY <1>2 DEF TypeOK
  <2>2. tpc' \in [Threads -> {"idle", "select", "info", "event", "acl", "writer", "publish",
                             "return", "close", "joinEvent", "joinAcl", "joinWriter"}]
    BY <1>1 DEF TypeOK, Before
  <2>3. handler' \in Handlers \cup {NoHandler}
    BY DEF TypeOK
  <2>4. QED
    BY <1>1, <2>1, <2>2, <2>3 DEF TypeOK, Before
<1>4. \A r \in Sessions, j \in Kinds :
        /\ IsLive(r, j)' => IsLive(r, j) \/ r = mine[t]
        /\ IsLive(r, j) => IsLive(r, j)'
        /\ r # mine[t] => worker'[r][j] = worker[r][j]
  BY <1>2 DEF TypeOK, IsLive
<1>5. \A r \in Sessions : Live(r)' => Live(r) \/ r = mine[t]
  BY <1>4 DEF Live
<1>6. HoldsInterface(mine[t])
  BY <1>1 DEF HoldsInterface, Opening
<1>7. \A r \in Sessions : HoldsInterface(r)' => HoldsInterface(r)
  BY <1>1, <1>5, <1>6 DEF HoldsInterface, Opening, Before
<1>8. OneClaim'
  BY <1>7 DEF OneClaim
<1>9. ActiveIsComplete' /\ ReplacedRun'
  <2>1. ActiveIsComplete'
    BY <1>1, <1>4 DEF ActiveIsComplete, TypeOK
  <2>2. ReplacedRun'
    BY <1>1, <1>2, <1>4 DEF ReplacedRun, TypeOK, Before
  <2>3. QED
    BY <2>1, <2>2
<1>10. OneHand'
  BY <1>1, <1>2 DEF OneHand, Before, After
<1>11. LiveIsHeld'
  BY <1>1, <1>5 DEF LiveIsHeld, Before, After
<1>12. WorkersByPlace'
  <2> SUFFICES ASSUME NEW u \in Threads
               PROVE  WorkersByPlace!(u)'
    BY DEF WorkersByPlace
  <2>1. CASE u = t
    <3>1. ~stop'[mine'[t]]
      BY <1>1, <1>2
    <3>2. tpc'[t] # "close" /\ tpc'[t] \notin After
      BY <1>1 DEF Before, After
    <3>3. CASE EmitUsbInfo(t)
      BY <2>1, <3>1, <3>2, <3>3, <1>1 DEF TypeOK, After
    <3>4. CASE tpc[t] = "event" /\ Spawn(t)
      BY <2>1, <3>1, <3>2, <3>4, <1>1, <1>2 DEF TypeOK, IsLive, After
    <3>5. CASE tpc[t] = "acl" /\ Spawn(t)
      BY <2>1, <3>1, <3>2, <3>5, <1>1, <1>2 DEF TypeOK, IsLive, After, WorkersByPlace
    <3>6. CASE tpc[t] = "writer" /\ Spawn(t)
      BY <2>1, <3>1, <3>2, <3>6, <1>1, <1>2 DEF TypeOK, IsLive, After, WorkersByPlace
    <3>7. QED
      BY <3>3, <3>4, <3>5, <3>6
  <2>2. CASE u # t
    <3>1. tpc[u] \in Before \cup After => mine[u] \in Sessions /\ mine[u] # mine[t]
      BY <1>1, <2>2, HandHolds DEF OneHand, Before, After
    <3>2. QED
      BY <1>1, <1>4, <2>2, <3>1 DEF WorkersByPlace, Before, After, IsLive
  <2>3. QED
    BY <2>1, <2>2
<1>13. QED
  BY <1>3, <1>8, <1>9, <1>10, <1>11, <1>12

\* The session passes from the opening thread to STATE; one that was there is
\* replaced.
LEMMA PublishKeeps ==
  ASSUME IInv, NEW t \in Threads, Publish(t)
  PROVE  IInv'
<1> USE DEF IInv, Publish
<1>1. /\ mine[t] \in Sessions /\ mine[t] # NoSession
      /\ mine[t] # active /\ mine[t] \notin replaced
  BY HandHolds, NoSessionIsNone DEF OneHand, ReplacedRun
<1>2. /\ tpc[t] = "publish" /\ tpc'[t] = "return"
      /\ \A u \in Threads \ {t} : tpc'[u] = tpc[u]
      /\ UNCHANGED <<mine, stop, worker>>
      /\ active' = mine[t]
      /\ \A r \in Sessions : Live(r)' = Live(r)
  BY DEF TypeOK, Live, IsLive
<1>3. TypeOK'
  BY <1>1 DEF TypeOK
<1>4. OneClaim'
  BY <1>2 DEF OneClaim, HoldsInterface, Opening
<1>5. ActiveIsComplete'
  BY <1>1, <1>2 DEF ActiveIsComplete, WorkersByPlace, Before, IsLive, Kinds, Readers
<1>6. OneHand'
  BY <1>1, <1>2 DEF OneHand, Before, After, TypeOK
<1>7. ReplacedRun'
  <2>1. \A u \in Threads : mine[u] \in replaced' => tpc'[u] = "return"
    BY <1>1, <1>2 DEF OneHand, ReplacedRun
  <2>2. \A s \in replaced' : ~stop[s] /\ IsLive(s, "event")
    BY DEF ReplacedRun, ActiveIsComplete, Kinds, Readers
  <2>3. QED
    BY <1>1, <1>2, <2>1, <2>2 DEF ReplacedRun, IsLive
<1>8. LiveIsHeld'
  <2> SUFFICES ASSUME NEW s \in Sessions, Live(s), mine[t] # s, s \notin replaced'
               PROVE  \E u \in Threads : mine[u] = s /\ tpc'[u] \in Before \cup After
    BY <1>2 DEF LiveIsHeld
  <2>1. PICK u \in Threads : mine[u] = s /\ tpc[u] \in Before \cup After
    BY NoSessionIsNone DEF LiveIsHeld
  <2>2. QED
    BY <1>2, <2>1
<1>9. WorkersByPlace'
  BY <1>2 DEF WorkersByPlace, Before, IsLive
<1>10. QED
  BY <1>3, <1>4, <1>5, <1>6, <1>7, <1>8, <1>9

\* The session passes from STATE to the closing thread.
LEMMA CloseKeeps ==
  ASSUME IInv, NEW t \in Threads, Close(t)
  PROVE  IInv'
<1> USE DEF IInv, Close, MayCall
<1>1. active \in Sessions /\ active # NoSession
  BY DEF TypeOK
<1>2. /\ tpc[t] = "idle" /\ tpc'[t] = "close" /\ mine'[t] = active
      /\ \A u \in Threads \ {t} : tpc'[u] = tpc[u] /\ mine'[u] = mine[u]
      /\ active' = NoSession /\ UNCHANGED replaced
      /\ \A r \in Sessions : Live(r)' = Live(r)
  BY DEF TypeOK, Live, IsLive
<1>3. TypeOK'
  BY <1>1, <1>2 DEF TypeOK
<1>4. OneClaim'
  BY <1>2 DEF OneClaim, HoldsInterface, Opening
<1>5. ActiveIsComplete'
  BY <1>2 DEF ActiveIsComplete
<1>6. OneHand'
  BY <1>1, <1>2 DEF OneHand, Before, After
<1>7. LiveIsHeld'
  <2> SUFFICES ASSUME NEW s \in Sessions, Live(s), s \notin replaced
               PROVE  \E u \in Threads : mine'[u] = s /\ tpc'[u] \in Before \cup After
    BY <1>2 DEF LiveIsHeld
  <2>1. CASE active = s
    BY <1>2, <2>1 DEF After
  <2>2. CASE \E u \in Threads : mine[u] = s /\ tpc[u] \in Before \cup After
    BY <1>2, <2>2 DEF Before, After
  <2>3. QED
    BY <2>1, <2>2 DEF LiveIsHeld
<1>8. WorkersByPlace'
  BY <1>1, <1>2 DEF WorkersByPlace, ActiveIsComplete, Before, IsLive, Kinds, Readers
<1>9. ReplacedRun'
  BY <1>1, <1>2, NoSessionIsNone DEF ReplacedRun, IsLive, TypeOK
<1>10. QED
  BY <1>3, <1>4, <1>5, <1>6, <1>7, <1>8, <1>9

\* Steps of a thread that has taken a session and goes on to join.
LEMMA ClosingKeeps ==
  ASSUME IInv, NEW t \in Threads, CloseStop(t) \/ JoinReader(t)
  PROVE  IInv'
<1> USE DEF IInv, CloseStop, JoinReader
<1>1. /\ tpc[t] \in After /\ tpc'[t] \in After \ {"close"}
      /\ \A u \in Threads \ {t} : tpc'[u] = tpc[u]
      /\ UNCHANGED <<active, mine, worker, replaced>>
      /\ \A r \in Sessions : r # mine[t] => stop'[r] = stop[r]
      /\ \A r \in Sessions : Live(r)' = Live(r)
  BY DEF TypeOK, After, Live, IsLive
<1>2. mine[t] \in Sessions /\ mine[t] # active /\ mine[t] \notin replaced
  BY <1>1, HandHolds DEF OneHand, ReplacedRun, After
<1>3. TypeOK'
  BY <1>1 DEF TypeOK, After
<1>4. OneClaim'
  BY <1>1 DEF OneClaim, HoldsInterface, Opening, After
<1>5. ActiveIsComplete'
  BY <1>1, <1>2 DEF ActiveIsComplete, IsLive, TypeOK
<1>6. OneHand'
  BY <1>1 DEF OneHand, Before, After
<1>7. LiveIsHeld'
  BY <1>1 DEF LiveIsHeld
<1>8. WorkersByPlace'
  <2> SUFFICES ASSUME NEW u \in Threads
               PROVE  WorkersByPlace!(u)'
    BY DEF WorkersByPlace
  <2>1. CASE u = t
    BY <1>1, <2>1 DEF WorkersByPlace, Before, After, TypeOK
  <2>2. CASE u # t
    <3>1. tpc[u] \in Before \cup {"close"} => mine[u] \in Sessions /\ mine[u] # mine[t]
      BY <1>1, <2>2, HandHolds DEF OneHand, Before, After
    <3>2. QED
      BY <1>1, <2>2, <3>1 DEF WorkersByPlace, Before, IsLive
  <2>3. QED
    BY <2>1, <2>2
<1>9. ReplacedRun'
  BY <1>1, <1>2 DEF ReplacedRun, IsLive, TypeOK, After
<1>10. QED
  BY <1>3, <1>4, <1>5, <1>6, <1>7, <1>8, <1>9

\* A call returns: what the thread had is published, or none of it runs.
LEMMA ReturnsKeep ==
  ASSUME IInv, NEW t \in Threads, OpenReturns(t) \/ JoinWriter(t)
  PROVE  IInv' /\ (JoinWriter(t) => ~Live(mine[t]))
<1> USE DEF IInv, OpenReturns, JoinWriter
<1>1. /\ tpc[t] \in {"return", "joinWriter"} /\ tpc'[t] = "idle" /\ mine'[t] = NoSession
      /\ \A u \in Threads \ {t} : tpc'[u] = tpc[u] /\ mine'[u] = mine[u]
      /\ UNCHANGED <<active, stop, worker, replaced>>
      /\ \A r \in Sessions : Live(r)' = Live(r)
  BY DEF TypeOK, Live, IsLive
<1>2. JoinWriter(t) => ~Live(mine[t])
  BY DEF WorkersByPlace, Live, IsLive, Kinds, Readers
<1>3. TypeOK'
  BY <1>1 DEF TypeOK
<1>4. OneClaim'
  BY <1>1 DEF OneClaim, HoldsInterface, Opening
<1>5. ActiveIsComplete'
  BY <1>1 DEF ActiveIsComplete, IsLive
<1>6. OneHand'
  BY <1>1 DEF OneHand, Before, After
<1>7. LiveIsHeld'
  <2> SUFFICES ASSUME NEW s \in Sessions, Live(s), active # s, s \notin replaced
               PROVE  \E u \in Threads : mine'[u] = s /\ tpc'[u] \in Before \cup After
    BY <1>1 DEF LiveIsHeld
  <2>1. PICK u \in Threads : mine[u] = s /\ tpc[u] \in Before \cup After
    BY DEF LiveIsHeld
  <2>2. u # t
    BY <1>1, <1>2, <2>1 DEF Before, After
  <2>3. QED
    BY <1>1, <2>1, <2>2
<1>8. WorkersByPlace'
  BY <1>1 DEF WorkersByPlace, Before, IsLive
<1>9. ReplacedRun'
  BY <1>1, NoSessionIsNone DEF ReplacedRun, IsLive, TypeOK
<1>10. QED
  BY <1>2, <1>3, <1>4, <1>5, <1>6, <1>7, <1>8, <1>9

LEMMA NextKeeps == IInv /\ [Next]_vars => IInv'
<1> SUFFICES ASSUME IInv, [Next]_vars
             PROVE  IInv'
  OBVIOUS
<1>1. CASE UNCHANGED vars
  BY <1>1 DEF vars, IInv, TypeOK, OneClaim, HoldsInterface, Opening, Live, IsLive,
    ActiveIsComplete, OneHand, ReplacedRun, LiveIsHeld, WorkersByPlace
<1>2. ASSUME NEW t \in Threads, OpenOrCloseStep(t)
      PROVE  IInv'
  BY <1>2, OutsideKeeps, ClaimKeeps, OpeningKeeps, PublishKeeps, ClosingKeeps, ReturnsKeep
     DEF OpenOrCloseStep
<1>3. ASSUME NEW t \in Threads,
             Open(t) \/ Close(t) \/ \E h \in Handlers : RegisterPacketHandler(t, h)
      PROVE  IInv'
  BY <1>3, OutsideKeeps, CloseKeeps
<1>4. ASSUME NEW s \in Sessions,
             \/ \E k \in Readers : InboundCompletes(s, k)
             \/ OutboundCompletes(s)
             \/ \E k \in Kinds : HandlerReturns(s, k) \/ WorkerStep(s, k)
             \/ WriterLosesSender(s)
      PROVE  IInv'
  BY <1>4, WorkersKeep DEF Kinds
<1>5. QED
  BY <1>1, <1>2, <1>3, <1>4 DEF Next

-----------------------------------------------------------------------------
(* Theorems.                                                               *)

THEOREM Inductive == Spec => []IInv
  BY InitEstablishes, NextKeeps, PTL DEF Spec

\* The state is what the module says: a thread has a session exactly while it
\* is opening or closing one.
THEOREM TypeCorrect == Spec => []TypeOK
<1>1. IInv => TypeOK
  BY DEF IInv
<1>2. QED
  BY <1>1, Inductive, PTL

\* transport_open never overwrites an active session of the adapter it has
\* opened, although the look at STATE.active and its update are two critical
\* sections (lib.rs:94,133-134).
THEOREM PublishIsSafe == Spec => []ReplacedOnlyByAnother
<1>1. IInv => ReplacedOnlyByAnother
  BY ActiveIsAnother DEF ReplacedOnlyByAnother, Before
<1>2. QED
  BY <1>1, Inductive, PTL

\* Nothing but the overwriting of an active session leaves threads behind
\* (lib.rs:121-141,154-160).
THEOREM NobodyOrphaned == Spec => []NoOrphans
<1>1. IInv => NoOrphans
  BY DEF IInv, LiveIsHeld, NoOrphans, Opening, Closing, Before, After
<1>2. QED
  BY <1>1, Inductive, PTL

\* Every open selects one and the same adapter.
OneAdapter == \E a : Adapters = {a}

LEMMA OneAdapterReplacesNone ==
  ASSUME IInv, OneAdapter, replaced = {}, [Next]_vars
  PROVE  OneAdapter' /\ replaced' = {}
<1>1. ASSUME NEW t \in Threads, Publish(t)
      PROVE  replaced' = {}
  <2>1. /\ mine[t] \in Sessions /\ active \in Sessions \cup {NoSession}
        /\ \A r \in Sessions : adapter[r] \in Adapters
    BY <1>1, HandHolds DEF Publish, IInv, TypeOK
  <2>2. active # NoSession => adapter[active] = adapter[mine[t]]
    BY <2>1 DEF OneAdapter
  <2>3. active = NoSession
    BY <1>1, <2>2, ActiveIsAnother DEF Publish, Before
  <2>4. QED
    BY <1>1, <2>3 DEF Publish
<1>2. replaced' = {}
  BY <1>1 DEF Next, vars, OpenOrCloseStep, WorkerStep, Open, Close, OpenFails, Claim,
    EmitUsbInfo, Spawn, OpenReturns, CloseStop, JoinReader, JoinWriter, RegisterPacketHandler,
    InboundCompletes, OutboundCompletes, HandlerReturns, EmitPacket, ReaderChecksStop,
    WriterEnds, WriterLosesSender, MoveTo
<1>3. QED
  BY <1>2 DEF OneAdapter

\* With one adapter no session is ever overwritten, and a transport that is
\* closed has no thread running (lib.rs:147): the second adapter is all that
\* stands in the way.
THEOREM OneAdapterIsQuiet == OneAdapter /\ Spec => []ClosedIsQuiet
<1>1. Init => replaced = {}
  BY DEF Init
<1>2. IInv /\ (OneAdapter /\ replaced = {}) /\ [Next]_vars => (OneAdapter /\ replaced = {})'
  BY OneAdapterReplacesNone
<1>3. IInv /\ replaced = {} => ClosedIsQuiet
  BY NoSessionIsNone DEF IInv, LiveIsHeld, ClosedIsQuiet, Before, After
<1>4. QED
  BY <1>1, <1>2, <1>3, Inductive, PTL DEF Spec

\* All workers of the active session run (lib.rs:133-141,151-155).
THEOREM ActiveComplete == Spec => []ActiveIsComplete
<1>1. IInv => ActiveIsComplete
  BY DEF IInv
<1>2. QED
  BY <1>1, Inductive, PTL

\* A transport_close that took a session returns with its workers ended
\* (lib.rs:154-162).
THEOREM CloseEndsWorkers == Spec => CloseLeavesNothing
<1>1. IInv /\ [Next]_vars =>
        [\A t \in Threads : tpc[t] = "joinWriter" /\ tpc'[t] = "idle" => ~Live(mine[t])]_vars
  <2> SUFFICES ASSUME IInv, Next, NEW t \in Threads, tpc[t] = "joinWriter", tpc'[t] = "idle"
               PROVE  ~Live(mine[t])
    OBVIOUS
  <2> USE DEF IInv, TypeOK
  <2>1. PICK u \in Threads : Open(u) \/ Close(u) \/ OpenOrCloseStep(u)
    BY DEF Next, RegisterPacketHandler, InboundCompletes, OutboundCompletes, HandlerReturns,
      EmitPacket, WorkerStep, ReaderChecksStop, WriterEnds, WriterLosesSender, MoveTo
  <2>2. u = t
    BY <2>1 DEF Open, Close, OpenOrCloseStep, OpenFails, Claim, EmitUsbInfo, Spawn, Publish,
      OpenReturns, CloseStop, JoinReader, JoinWriter
  <2>3. JoinWriter(t)
    BY <2>1, <2>2 DEF Open, Close, MayCall, OpenOrCloseStep, OpenFails, Claim, EmitUsbInfo,
      Spawn, Publish, OpenReturns, CloseStop, JoinReader, Kinds, Readers
  <2>4. QED
    BY <2>3, ReturnsKeep
<1>2. QED
  BY <1>1, Inductive, PTL DEF Spec, CloseLeavesNothing

-----------------------------------------------------------------------------
(* The workers keep the contract of WorkerThread.                          *)

\* A worker that is yet to be spawned is not there.
Unborn ==
  \A t \in Threads :
    /\ tpc[t] \in {"info", "event"} => worker[mine[t]]["event"] = "none"
    /\ tpc[t] \in {"info", "event", "acl"} => worker[mine[t]]["acl"] = "none"
    /\ tpc[t] \in {"info", "event", "acl", "writer"} => worker[mine[t]]["writer"] = "none"

\* Where a worker may go.
Places == {"running", "calling", "check", "exited"}

\* What a step does to the workers of sessions whose flag it leaves alone.
WorkersMove ==
  \E s \in Sessions, k \in Kinds, place \in Places :
    /\ worker[s][k] \notin {"none", "exited"}
    /\ place = "calling" => worker[s][k] = "running"
    /\ place = "exited" =>
         \/ stop[s] /\ worker[s][k] \in {"running", "check"}
         \/ k = "writer" /\ WriterLosesSender(s)
    /\ MoveTo(s, k, place)

LEMMA WorkerSteps ==
  ASSUME \/ \E s \in Sessions, k \in Readers : InboundCompletes(s, k)
         \/ \E s \in Sessions : OutboundCompletes(s)
         \/ \E s \in Sessions, k \in Kinds : HandlerReturns(s, k)
         \/ \E s \in Sessions, k \in Kinds : WorkerStep(s, k)
         \/ \E s \in Sessions : WriterLosesSender(s)
  PROVE  WorkersMove
<1> USE DEF Places
<1>1. ASSUME NEW s \in Sessions, NEW k \in Readers, InboundCompletes(s, k)
      PROVE  WorkersMove
  <2>1. /\ k \in Kinds /\ worker[s][k] = "running"
        /\ \E place \in {"calling", "check"} : MoveTo(s, k, place)
    BY <1>1 DEF InboundCompletes, EmitPacket, AfterEmit, Kinds
  <2>2. QED
    BY <2>1 DEF WorkersMove
<1>2. ASSUME NEW s \in Sessions, OutboundCompletes(s)
      PROVE  WorkersMove
  <2>1. /\ "writer" \in Kinds /\ worker[s]["writer"] = "running"
        /\ \E place \in {"calling", "running"} : MoveTo(s, "writer", place)
    BY <1>2 DEF OutboundCompletes, EmitPacket, AfterEmit, Kinds, Readers
  <2>2. QED
    BY <2>1 DEF WorkersMove
<1>3. CASE \E s \in Sessions, k \in Kinds : HandlerReturns(s, k)
  BY <1>3 DEF HandlerReturns, AfterEmit, WorkersMove
<1>4. ASSUME NEW s \in Sessions, NEW k \in Kinds, WorkerStep(s, k)
      PROVE  WorkersMove
  BY <1>4 DEF WorkerStep, ReaderChecksStop, WriterEnds, WorkersMove
<1>5. ASSUME NEW s \in Sessions, WriterLosesSender(s)
      PROVE  WorkersMove
  <2>1. /\ "writer" \in Kinds /\ "exited" \in Places
        /\ worker[s]["writer"] = "running"
        /\ MoveTo(s, "writer", "exited")
    BY <1>5 DEF WriterLosesSender, Kinds
  <2>2. QED
    BY <1>5, <2>1 DEF WorkersMove
<1>6. QED
  BY <1>1, <1>2, <1>3, <1>4, <1>5

LEMMA UnbornKept ==
  ASSUME IInv, Unborn, [Next]_vars
  PROVE  Unborn'
<1> USE DEF IInv
<1>0. /\ TypeOK
      /\ \A t \in Threads : tpc[t] \notin {"idle", "select"} => mine[t] \in Sessions
  BY HandHolds
<1>1. CASE WorkersMove
  <2>1. PICK s \in Sessions, k \in Kinds, place \in Places :
          worker[s][k] # "none" /\ MoveTo(s, k, place)
    BY <1>1 DEF WorkersMove
  <2>2. UNCHANGED <<tpc, mine>>
        /\ \A r \in Sessions, j \in Kinds : worker[r][j] = "none" => worker'[r][j] = "none"
    BY <1>0, <2>1 DEF MoveTo, TypeOK
  <2>3. QED
    BY <1>0, <2>2 DEF Unborn, Kinds, Readers
<1>2. ASSUME NEW t \in Threads,
             \/ Open(t) \/ Close(t) \/ OpenFails(t) \/ EmitUsbInfo(t) \/ Publish(t)
             \/ OpenReturns(t) \/ CloseStop(t) \/ JoinReader(t) \/ JoinWriter(t)
      PROVE  Unborn'
  <2>1. /\ worker' = worker
        /\ \A u \in Threads : u # t => tpc'[u] = tpc[u] /\ mine'[u] = mine[u]
    BY <1>0, <1>2 DEF Open, Close, OpenFails, EmitUsbInfo, Publish, OpenReturns, CloseStop,
      JoinReader, JoinWriter, TypeOK
  <2>2. \/ tpc'[t] \notin {"info", "event", "acl", "writer"}
        \/ tpc[t] = "info" /\ tpc'[t] = "event" /\ mine'[t] = mine[t]
    BY <1>0, <1>2 DEF Open, Close, OpenFails, EmitUsbInfo, Publish, OpenReturns, CloseStop,
      JoinReader, JoinWriter, TypeOK
  <2>3. QED
    BY <2>1, <2>2 DEF Unborn
<1>3. ASSUME NEW t \in Threads, NEW s \in Sessions, Claim(t, s)
      PROVE  Unborn'
  <2>1. /\ \A u \in Threads : u # t => tpc'[u] = tpc[u] /\ mine'[u] = mine[u]
        /\ mine'[t] = s
        /\ \A k \in Kinds : worker'[s][k] = "none"
        /\ \A r \in Sessions : r # s => worker'[r] = worker[r]
    BY <1>0, <1>3 DEF Claim, TypeOK
  <2>2. QED
    BY <1>0, <2>1 DEF Unborn, Kinds, Readers
<1>4. ASSUME NEW t \in Threads, Spawn(t)
      PROVE  Unborn'
  <2>1. \A u \in Threads : u # t /\ tpc[u] \in {"info", "event", "acl", "writer"} => mine[u] # mine[t]
    BY <1>4 DEF Spawn, OneHand, Before, Kinds, Readers
  <2>2. /\ tpc[t] \in Kinds /\ mine[t] \in Sessions /\ UNCHANGED mine
        /\ worker' = [worker EXCEPT ![mine[t]][tpc[t]] = "running"]
        /\ \A u \in Threads : u # t => tpc'[u] = tpc[u]
    BY <1>0, <1>4 DEF Spawn, Kinds, Readers, TypeOK
  <2>3. /\ \A k \in Kinds : k # tpc[t] => worker'[mine[t]][k] = worker[mine[t]][k]
        /\ \A r \in Sessions : r # mine[t] => worker'[r] = worker[r]
    BY <1>0, <2>2 DEF TypeOK
  <2>4. /\ tpc[t] = "event" => tpc'[t] = "acl"
        /\ tpc[t] = "acl" => tpc'[t] = "writer"
        /\ tpc[t] = "writer" => tpc'[t] = "publish"
    BY <1>0, <1>4 DEF Spawn, TypeOK
  <2>5. QED
    BY <1>0, <2>1, <2>2, <2>3, <2>4 DEF Unborn, Kinds, Readers
<1>5. CASE \E t \in Threads, h \in Handlers : RegisterPacketHandler(t, h)
  BY <1>5 DEF RegisterPacketHandler, Unborn
<1>6. CASE UNCHANGED vars
  BY <1>6 DEF vars, Unborn
<1>7. QED
  BY <1>1, <1>2, <1>3, <1>4, <1>5, <1>6, WorkerSteps DEF Next, OpenOrCloseStep

\* Every worker of every session is the WorkerThread that the loops of io.rs
\* are proved to implement, so what is proved of the life cycle is proved of
\* workers that exist; but for the writer of a replaced session, which ends
\* for want of a sender (io.rs:120).
THEOREM ContractKept == Spec => WorkersKeepContract
<1> DEFINE Keeps(s, k) ==
      \/ Worker(s, k)!Next
      \/ UNCHANGED Worker(s, k)!vars
      \/ (\E t \in Threads : Claim(t, s)) /\ Worker(s, k)!Init'
      \/ k = "writer" /\ WriterLosesSender(s)
<1>1. Init => Unborn
  BY DEF Init, Unborn
<1>2. IInv /\ Unborn /\ [Next]_vars => Unborn'
  BY UnbornKept
<1>3. ASSUME IInv, Unborn, Next, NEW s \in Sessions, NEW k \in Kinds
      PROVE  Keeps(s, k)
  <2> USE DEF IInv
  <2>0. TypeOK
    BY <1>3
  <2>1. CASE UNCHANGED <<worker[s][k], stop[s]>>
    BY <2>1 DEF Worker!vars
  <2>2. CASE WorkersMove
    <3>1. PICK r \in Sessions, j \in Kinds, place \in Places :
            /\ worker[r][j] \notin {"none", "exited"}
            /\ place = "calling" => worker[r][j] = "running"
            /\ place = "exited" =>
                 \/ stop[r] /\ worker[r][j] \in {"running", "check"}
                 \/ j = "writer" /\ WriterLosesSender(r)
            /\ MoveTo(r, j, place)
      BY <2>2 DEF WorkersMove
    <3>2. CASE r = s /\ j = k
      <4>1. worker'[s][k] = place /\ stop' = stop
        BY <2>0, <3>1, <3>2 DEF MoveTo, TypeOK
      <4>2. QED
        BY <3>1, <3>2, <4>1 DEF Worker!Next, Worker!Call, Worker!Return, Worker!Exit, Worker!vars
    <3>3. CASE ~(r = s /\ j = k)
      BY <2>0, <2>1, <3>1, <3>3 DEF MoveTo, TypeOK
    <3>4. QED
      BY <3>2, <3>3
  <2>3. ASSUME NEW t \in Threads, NEW r \in Sessions, Claim(t, r)
        PROVE  Keeps(s, k)
    <3>1. CASE r = s
      <4>1. worker'[s][k] = "none" /\ stop'[s] = FALSE
        BY <2>0, <2>3, <3>1 DEF Claim, TypeOK
      <4>2. QED
        BY <2>3, <3>1, <4>1 DEF Worker!Init
    <3>2. CASE r # s
      BY <2>0, <2>1, <2>3, <3>2 DEF Claim, TypeOK
    <3>3. QED
      BY <3>1, <3>2
  <2>4. ASSUME NEW t \in Threads, Spawn(t)
        PROVE  Keeps(s, k)
    <3>1. mine[t] \in Sessions /\ tpc[t] \in Kinds
      BY <2>0, <2>4, HandHolds DEF Spawn, Kinds, Readers
    <3>2. worker[mine[t]][tpc[t]] = "none"
      BY <1>3, <2>4, <3>1 DEF Unborn, Kinds, Readers
    <3>3. CASE mine[t] = s /\ tpc[t] = k
      <4>1. worker'[s][k] = "running" /\ worker[s][k] = "none" /\ stop' = stop
        BY <2>0, <2>4, <3>2, <3>3 DEF Spawn, TypeOK
      <4>2. QED
        BY <4>1 DEF Worker!vars
    <3>4. CASE ~(mine[t] = s /\ tpc[t] = k)
      BY <2>0, <2>1, <2>4, <3>1, <3>4 DEF Spawn, TypeOK
    <3>5. QED
      BY <3>3, <3>4
  <2>5. ASSUME NEW t \in Threads, CloseStop(t)
        PROVE  Keeps(s, k)
    <3>1. mine[t] \in Sessions
      BY <2>0, <2>5, HandHolds DEF CloseStop
    <3>2. worker' = worker /\ stop'[s] = IF mine[t] = s THEN TRUE ELSE stop[s]
      BY <2>0, <2>5, <3>1 DEF CloseStop, TypeOK
    <3>3. CASE mine[t] = s /\ ~stop[s]
      BY <2>0, <3>2, <3>3 DEF Worker!Next, Worker!RaiseStop, TypeOK
    <3>4. CASE ~(mine[t] = s /\ ~stop[s])
      <4>1. stop'[s] = stop[s]
        BY <2>0, <3>2, <3>4 DEF TypeOK
      <4>2. QED
        BY <2>1, <3>2, <4>1
    <3>5. QED
      BY <3>3, <3>4
  <2>6. ASSUME NEW t \in Threads,
               \/ Open(t) \/ Close(t) \/ OpenFails(t) \/ EmitUsbInfo(t) \/ Publish(t)
               \/ OpenReturns(t) \/ JoinReader(t) \/ JoinWriter(t)
               \/ \E h \in Handlers : RegisterPacketHandler(t, h)
        PROVE  Keeps(s, k)
    <3>1. UNCHANGED <<worker, stop>>
      BY <2>6 DEF Open, Close, OpenFails, EmitUsbInfo, Publish, OpenReturns, JoinReader,
        JoinWriter, RegisterPacketHandler
    <3>2. QED
      BY <2>1, <3>1
  <2>7. QED
    BY <1>3, <2>2, <2>3, <2>4, <2>5, <2>6, WorkerSteps DEF Next, OpenOrCloseStep
<1>4. IInv /\ Unborn /\ [Next]_vars => [\A s \in Sessions, k \in Kinds : Keeps(s, k)]_vars
  <2> HIDE DEF Keeps
  <2>1. QED
    BY <1>3
<1>5. QED
  BY <1>1, <1>2, <1>4, Inductive, PTL DEF Spec, WorkersKeepContract
=============================================================================
