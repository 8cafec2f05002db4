------------------------ MODULE BtstackRuntimeProofs ------------------------
(***************************************************************************)
(* Theorems about BtstackRuntime, for any set of owners, and for programs  *)
(* that do not shut a runtime down twice.  The argument: the flag is a     *)
(* lock that at most one owner holds, and where that owner is tells which  *)
(* parts of BTstack are initialised.  The lock is left taken when a        *)
(* runtime is dropped after join or after a failed shutdown; its loop      *)
(* thread has ended by then.                                               *)
(***************************************************************************)
EXTENDS BtstackRuntime, TLAPS

\* The owner has taken the flag, and has not given it back.
Holds(o) == opc[o] \notin {"none", "shut"}

FlagIsALock ==
  /\ \A o \in Owners : Holds(o) => RUNTIME_ACTIVE
  /\ \A o, p \in Owners : Holds(o) /\ Holds(p) => o = p

\* The parts of BTstack that are initialised where the owner is.
GlobalsByPlace ==
  /\ ~RUNTIME_ACTIVE => globals = {}
  /\ \A o \in Owners :
       /\ opc[o] \in {"init_memory", "clear"} => globals = {}
       /\ opc[o] \in {"init_loop", "memory_deinit"} => globals = {"memory"}
       /\ opc[o] \in {"init_hci", "loop_deinit"} => globals = {"memory", "run_loop"}
       /\ opc[o] \in {"spawn", "owns", "join", "joined", "failed",
                      "shutdown_join", "hci_close", "hci_deinit"} => globals = Parts

\* The loop thread runs from the spawn to the join.
LoopByPlace ==
  \A o \in Owners :
    /\ LoopAlive(o) => opc[o] \in {"owns", "join", "shutdown_join"}
    /\ opc[o] = "owns" => loopThread[o]
    /\ opc[o] = "shutdown_join" /\ ~loopThread[o] => ~LoopAlive(o)

IInv ==
  /\ TypeOK
  /\ FlagIsALock
  /\ GlobalsByPlace
  /\ LoopByPlace

LEMMA InitEstablishes == Init => IInv
  BY DEF Init, IInv, TypeOK, FlagIsALock, GlobalsByPlace, LoopByPlace, LoopAlive, Holds, Owning

-----------------------------------------------------------------------------
(* Each action keeps the invariant.                                        *)

\* A start that finds the flag clear finds no holder and nothing initialised.
LEMMA StartKeeps ==
  ASSUME IInv, NEW o \in Owners, Start(o)
  PROVE  IInv'
  BY DEF IInv, TypeOK, FlagIsALock, GlobalsByPlace, LoopByPlace, LoopAlive, Holds, Owning,
    Start, MoveTo

LEMMA InitGlobalsKeeps ==
  ASSUME IInv, NEW o \in Owners, InitGlobals(o)
  PROVE  IInv'
<1> USE DEF IInv, Holds, MoveTo
<1>1. TypeOK'
  BY DEF TypeOK, InitGlobals, Owning, Parts
<1>2. FlagIsALock'
  BY DEF FlagIsALock, InitGlobals, TypeOK
<1>3. GlobalsByPlace'
  <2>1. \A p \in Owners \ {o} : opc'[p] = opc[p] /\ ~Holds(p)
    BY DEF InitGlobals, TypeOK, FlagIsALock
  <2>2. RUNTIME_ACTIVE'
    BY DEF InitGlobals, FlagIsALock
  <2>3. CASE opc[o] = "init_memory"
    BY <2>1, <2>2, <2>3 DEF InitGlobals, GlobalsByPlace, TypeOK
  <2>4. CASE opc[o] = "init_loop"
    BY <2>1, <2>2, <2>4 DEF InitGlobals, GlobalsByPlace, TypeOK
  <2>5. CASE opc[o] = "init_hci"
    BY <2>1, <2>2, <2>5 DEF InitGlobals, GlobalsByPlace, TypeOK, Parts
  <2>6. QED
    BY <2>3, <2>4, <2>5 DEF InitGlobals
<1>4. LoopByPlace'
  BY DEF LoopByPlace, LoopAlive, InitGlobals, TypeOK
<1>5. QED
  BY <1>1, <1>2, <1>3, <1>4

LEMMA DeinitKeeps ==
  ASSUME IInv, NEW o \in Owners, Deinit(o)
  PROVE  IInv'
<1> USE DEF IInv, Holds, MoveTo
<1>1. TypeOK'
  BY DEF TypeOK, Deinit, Owning, Parts
<1>2. FlagIsALock'
  BY DEF FlagIsALock, Deinit, TypeOK
<1>3. GlobalsByPlace'
  <2>1. \A p \in Owners \ {o} : opc'[p] = opc[p] /\ ~Holds(p)
    BY DEF Deinit, TypeOK, FlagIsALock
  <2>2. RUNTIME_ACTIVE'
    BY DEF Deinit, FlagIsALock
  <2>3. CASE opc[o] = "hci_deinit"
    BY <2>1, <2>2, <2>3 DEF Deinit, GlobalsByPlace, TypeOK, Parts
  <2>4. CASE opc[o] = "loop_deinit"
    BY <2>1, <2>2, <2>4 DEF Deinit, GlobalsByPlace, TypeOK
  <2>5. CASE opc[o] = "memory_deinit"
    BY <2>1, <2>2, <2>5 DEF Deinit, GlobalsByPlace, TypeOK
  <2>6. QED
    BY <2>3, <2>4, <2>5 DEF Deinit
<1>4. LoopByPlace'
  BY DEF LoopByPlace, LoopAlive, Deinit, TypeOK
<1>5. QED
  BY <1>1, <1>2, <1>3, <1>4

\* The places an owner goes through with everything initialised.
LEMMA OwnerKeeps ==
  ASSUME IInv, NEW o \in Owners,
         Spawn(o) \/ Join(o) \/ JoinReturns(o) \/ HciClose(o) \/ DropOnly(o)
  PROVE  IInv'
<1> USE DEF IInv, Holds, MoveTo, Spawn, Join, JoinReturns, HciClose, DropOnly
<1>1. TypeOK'
  BY DEF TypeOK, Owning
<1>2. FlagIsALock'
  BY DEF FlagIsALock, TypeOK
<1>3. GlobalsByPlace'
  BY DEF GlobalsByPlace, TypeOK
<1>4. LoopByPlace'
  BY DEF LoopByPlace, LoopAlive, TypeOK
<1>5. QED
  BY <1>1, <1>2, <1>3, <1>4

\* A first shutdown starts with everything initialised.
LEMMA ShutdownKeeps ==
  ASSUME "shutdown again" \notin Clients,
         IInv, NEW o \in Owners, NEW drop \in BOOLEAN, Shutdown(o, drop)
  PROVE  IInv' /\ globals = Parts
<1> USE DEF IInv, Holds, MoveTo, Shutdown, MayShutdown
<1>0. opc[o] \in {"owns", "joined", "failed"}
  OBVIOUS
<1>1. TypeOK'
  BY <1>0 DEF TypeOK, Owning
<1>2. FlagIsALock'
  BY <1>0 DEF FlagIsALock, TypeOK
<1>3. GlobalsByPlace' /\ globals = Parts
  BY <1>0 DEF GlobalsByPlace, TypeOK
<1>4. LoopByPlace'
  BY <1>0 DEF LoopByPlace, LoopAlive, TypeOK
<1>5. QED
  BY <1>1, <1>2, <1>3, <1>4

\* The join within shutdown ends with the loop thread ended, error or not.
LEMMA ShutdownJoinKeeps ==
  ASSUME IInv, NEW o \in Owners, ShutdownJoin(o)
  PROVE  IInv'
<1> USE DEF IInv, Holds, MoveTo, ShutdownJoin, ShutdownReturns
<1>1. TypeOK'
  BY DEF TypeOK, Owning
<1>2. FlagIsALock'
  BY DEF FlagIsALock, TypeOK
<1>3. GlobalsByPlace'
  BY DEF GlobalsByPlace, TypeOK
<1>4. LoopByPlace'
  BY DEF LoopByPlace, LoopAlive, TypeOK
<1>5. QED
  BY <1>1, <1>2, <1>3, <1>4

\* The flag is given back with nothing initialised and nobody else in.
LEMMA ClearKeeps ==
  ASSUME IInv, NEW o \in Owners, Clear(o)
  PROVE  IInv' /\ globals' = {} /\ ~RUNTIME_ACTIVE'
<1> USE DEF IInv, Holds, MoveTo, Clear, ShutdownReturns
<1>1. TypeOK'
  BY DEF TypeOK, Owning
<1>2. FlagIsALock'
  BY DEF FlagIsALock, TypeOK
<1>3. GlobalsByPlace' /\ globals' = {} /\ ~RUNTIME_ACTIVE'
  BY DEF GlobalsByPlace, FlagIsALock, TypeOK
<1>4. LoopByPlace'
  BY DEF LoopByPlace, LoopAlive, TypeOK
<1>5. QED
  BY <1>1, <1>2, <1>3, <1>4

LEMMA LoopKeeps ==
  ASSUME IInv, NEW o \in Owners, LoopStep(o) \/ ExitFromCallback(o)
  PROVE  IInv'
<1> USE DEF IInv, Holds, LoopStep, InitReturns, LoopExits, ExitFromCallback
<1>1. TypeOK'
  BY DEF TypeOK
<1>2. FlagIsALock' /\ GlobalsByPlace'
  BY DEF FlagIsALock, GlobalsByPlace, TypeOK
<1>3. LoopByPlace'
  BY DEF LoopByPlace, LoopAlive, TypeOK
<1>4. QED
  BY <1>1, <1>2, <1>3

LEMMA NextKeeps ==
  ASSUME "shutdown again" \notin Clients, IInv, [Next]_vars
  PROVE  IInv'
<1>1. CASE UNCHANGED vars
  BY <1>1 DEF vars, IInv, TypeOK, FlagIsALock, GlobalsByPlace, LoopByPlace, LoopAlive, Holds
<1>2. ASSUME NEW o \in Owners, OwnerStep(o)
      PROVE  IInv'
  BY <1>2, InitGlobalsKeeps, OwnerKeeps, ShutdownJoinKeeps, DeinitKeeps, ClearKeeps DEF OwnerStep
<1>3. ASSUME NEW o \in Owners, NEW drop \in BOOLEAN, Shutdown(o, drop)
      PROVE  IInv'
  BY <1>3, ShutdownKeeps
<1>4. QED
  BY <1>1, <1>2, <1>3, StartKeeps, OwnerKeeps, LoopKeeps DEF Next

-----------------------------------------------------------------------------
(* Theorems.                                                               *)

THEOREM Inductive ==
  ASSUME "shutdown again" \notin Clients
  PROVE  Spec => []IInv
<1>1. IInv /\ [Next]_vars => IInv'
  BY NextKeeps
<1>2. QED
  BY <1>1, InitEstablishes, PTL DEF Spec

\* The state is what the module says: in particular a runtime holds the
\* handle of its loop thread only until join or shutdown takes it.
THEOREM TypeCorrect ==
  ASSUME "shutdown again" \notin Clients
  PROVE  Spec => []TypeOK
<1>1. IInv => TypeOK
  BY DEF IInv
<1>2. QED
  BY <1>1, Inductive, PTL

\* No run loop ever runs without BTstack initialised (runtime.rs:78-117).
THEOREM GlobalsOutliveLoop ==
  ASSUME "shutdown again" \notin Clients
  PROVE  Spec => []LoopFindsGlobals
<1>1. IInv => LoopFindsGlobals
  BY DEF IInv, LoopByPlace, GlobalsByPlace, LoopFindsGlobals
<1>2. QED
  BY <1>1, Inductive, PTL

\* With the flag clear nothing is left of any runtime (runtime.rs:74,119).
THEOREM ClearMeansGone ==
  ASSUME "shutdown again" \notin Clients
  PROVE  Spec => []InactiveMeansGone
<1>1. IInv => InactiveMeansGone
  BY DEF IInv, LoopByPlace, GlobalsByPlace, FlagIsALock, Holds, InactiveMeansGone
<1>2. QED
  BY <1>1, Inductive, PTL

\* There is one run loop at a time, however many owners try (runtime.rs:74).
THEOREM OneLoopAtATime ==
  ASSUME "shutdown again" \notin Clients
  PROVE  Spec => []OneLoop
<1>1. IInv => OneLoop
  BY DEF IInv, LoopByPlace, FlagIsALock, Holds, OneLoop
<1>2. QED
  BY <1>1, Inductive, PTL

\* btstack_run_loop_trigger_exit is called on an initialised run loop only
\* (runtime.rs:107), as long as no runtime is shut down twice.
THEOREM ExitIsSafe ==
  ASSUME "shutdown again" \notin Clients
  PROVE  Spec => ExitFindsRunLoop
<1>1. IInv /\ [Next]_vars =>
        [\A o \in Owners :
           opc[o] \in Owning /\ opc'[o] = "shutdown_join" => "run_loop" \in globals]_vars
  <2> SUFFICES ASSUME IInv, Next, NEW o \in Owners,
                      opc[o] \in Owning, opc'[o] = "shutdown_join"
               PROVE  "run_loop" \in globals
    OBVIOUS
  <2>1. \E drop \in BOOLEAN : Shutdown(o, drop)
    BY DEF IInv, TypeOK, Owning, Next, Start, Join, Shutdown, DropOnly, OwnerStep, LoopStep,
      ExitFromCallback, InitGlobals, Spawn, JoinReturns, ShutdownJoin, HciClose, Deinit, Clear,
      InitReturns, LoopExits, ShutdownReturns, MoveTo
  <2>2. QED
    BY <2>1, ShutdownKeeps DEF Parts
<1>2. QED
  BY <1>1, Inductive, PTL DEF Spec, ExitFindsRunLoop

\* A shutdown that returns Ok has given everything back (runtime.rs:110-120).
THEOREM OkMeansReleased ==
  ASSUME "shutdown again" \notin Clients
  PROVE  Spec => ShutdownReleases
<1>1. IInv /\ [Next]_vars =>
        [\A o \in Owners :
           opc[o] \notin Owning /\ opc'[o] = "shut" => globals' = {} /\ ~RUNTIME_ACTIVE']_vars
  <2> SUFFICES ASSUME IInv, Next, NEW o \in Owners,
                      opc[o] \notin Owning, opc'[o] = "shut"
               PROVE  globals' = {} /\ ~RUNTIME_ACTIVE'
    OBVIOUS
  <2> USE DEF IInv, TypeOK, Owning, MoveTo
  <2>1. PICK p \in Owners :
          \/ Start(p) \/ Join(p) \/ DropOnly(p) \/ OwnerStep(p) \/ HciClose(p)
          \/ \E drop \in BOOLEAN : Shutdown(p, drop)
    BY DEF Next, LoopStep, InitReturns, LoopExits, ExitFromCallback
  <2>2. p = o
    BY <2>1 DEF Start, Join, DropOnly, Shutdown, OwnerStep, InitGlobals, Spawn, JoinReturns,
      ShutdownJoin, HciClose, Deinit, Clear, ShutdownReturns
  <2>3. Clear(o)
    BY <2>1, <2>2 DEF Start, Join, DropOnly, Shutdown, OwnerStep, InitGlobals, Spawn,
      JoinReturns, ShutdownJoin, HciClose, Deinit, ShutdownReturns
  <2>4. QED
    BY <2>3, ClearKeeps
<1>2. QED
  BY <1>1, Inductive, PTL DEF Spec, ShutdownReleases
=============================================================================
