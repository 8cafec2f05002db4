--------------------------- MODULE BtstackRuntime ---------------------------
(***************************************************************************)
(* The process-wide owner of BTstack (btstack-gatt/src/runtime.rs): the    *)
(* RUNTIME_ACTIVE flag, BtstackRuntime::start_with_init, join, shutdown    *)
(* and Drop as called by the threads of a program, and the run-loop thread *)
(* each runtime starts.                                                    *)
(*                                                                         *)
(* Each thread of the program owns at most one runtime value at a time;    *)
(* all methods take &mut self, so a runtime is used by its owner only.     *)
(* BTstack itself is external: three global parts that are initialised or  *)
(* not, and an exit request that makes btstack_run_loop_execute return;    *)
(* that it does so if the request comes before the run loop is entered is  *)
(* assumed of BTstack, whose source is not in the repository.              *)
(***************************************************************************)

CONSTANTS
  Owners,   \* threads that start and own runtimes
  Clients   \* what the program does besides start, shutdown and drop: a
            \* subset of {"join", "shutdown again", "init panics"}

ASSUME ClientsKnown == Clients \subseteq {"join", "shutdown again", "init panics"}

VARIABLES
  RUNTIME_ACTIVE,  \* the static flag
  globals,         \* the initialised parts of BTstack
  exitRequested,   \* btstack_run_loop_trigger_exit was called
  opc,             \* where each owner is
  dropping,        \* the owner runs shutdown on behalf of Drop
  loopThread,      \* the owner's runtime holds the handle of its loop thread
  loop             \* the loop thread of each owner's runtime

vars == <<RUNTIME_ACTIVE, globals, exitRequested, opc, dropping, loopThread, loop>>

Parts == {"memory", "run_loop", "hci"}

\* An owner in one of these places has a runtime and is in none of its methods.
Owning == {"owns", "joined", "shut", "failed"}

TypeOK ==
  /\ RUNTIME_ACTIVE \in BOOLEAN
  /\ globals \subseteq Parts
  /\ exitRequested \in BOOLEAN
  /\ opc \in [Owners -> {"none", "init_memory", "init_loop", "init_hci", "spawn",
                         "join", "shutdown_join", "hci_close", "hci_deinit",
                         "loop_deinit", "memory_deinit", "clear"} \cup Owning]
  /\ dropping \in [Owners -> BOOLEAN]
  /\ loopThread \in [Owners -> BOOLEAN]
  /\ loop \in [Owners -> {"none", "init", "executing", "exited", "panicked"}]
  /\ \A o \in Owners : loopThread[o] => opc[o] \in {"owns", "shutdown_join"}

Init ==
  /\ RUNTIME_ACTIVE = FALSE
  /\ globals = {}
  /\ exitRequested = FALSE
  /\ opc = [o \in Owners |-> "none"]
  /\ dropping = [o \in Owners |-> FALSE]
  /\ loopThread = [o \in Owners |-> FALSE]
  /\ loop = [o \in Owners |-> "none"]

MoveTo(o, place) == opc' = [opc EXCEPT ![o] = place]

-----------------------------------------------------------------------------
(* start_with_init.                                                        *)

\* Mutant of Start: the flag is read, and set only when the runtime is up.
StartUnguarded(o) ==
  /\ opc[o] = "none"
  /\ ~RUNTIME_ACTIVE
  /\ MoveTo(o, "init_memory")
  /\ UNCHANGED <<RUNTIME_ACTIVE, globals, exitRequested, dropping, loopThread, loop>>

\* The swap yields false: this owner has the runtime to itself.  (It yields
\* true: AlreadyStarted, and nothing changes.)
Start(o) ==
  /\ opc[o] = "none"
  /\ ~RUNTIME_ACTIVE
  /\ RUNTIME_ACTIVE' = TRUE
  /\ MoveTo(o, "init_memory")
  /\ UNCHANGED <<globals, exitRequested, dropping, loopThread, loop>>

InitGlobals(o) ==
  /\ \/ /\ opc[o] = "init_memory"
        /\ globals' = globals \cup {"memory"}
        /\ MoveTo(o, "init_loop")
        /\ UNCHANGED exitRequested
     \/ /\ opc[o] = "init_loop"
        /\ globals' = globals \cup {"run_loop"}
        /\ exitRequested' = FALSE
        /\ MoveTo(o, "init_hci")
     \/ /\ opc[o] = "init_hci"
        /\ globals' = globals \cup {"hci"}
        /\ MoveTo(o, "spawn")
        /\ UNCHANGED exitRequested
  /\ UNCHANGED <<RUNTIME_ACTIVE, dropping, loopThread, loop>>

\* The loop thread is spawned; the owner has its runtime.
Spawn(o) ==
  /\ opc[o] = "spawn"
  /\ loop' = [loop EXCEPT ![o] = "init"]
  /\ loopThread' = [loopThread EXCEPT ![o] = TRUE]
  /\ MoveTo(o, "owns")
  /\ UNCHANGED <<RUNTIME_ACTIVE, globals, exitRequested, dropping>>

-----------------------------------------------------------------------------
(* The loop thread.                                                        *)

\* init returns and the run loop is entered, or init panics.
InitReturns(o) ==
  /\ loop[o] = "init"
  /\ \/ loop' = [loop EXCEPT ![o] = "executing"]
     \/ "init panics" \in Clients /\ loop' = [loop EXCEPT ![o] = "panicked"]
  /\ UNCHANGED <<RUNTIME_ACTIVE, globals, exitRequested, opc, dropping, loopThread>>

\* btstack_run_loop_execute returns once an exit has been requested.
LoopExits(o) ==
  /\ loop[o] = "executing"
  /\ exitRequested
  /\ loop' = [loop EXCEPT ![o] = "exited"]
  /\ UNCHANGED <<RUNTIME_ACTIVE, globals, exitRequested, opc, dropping, loopThread>>

\* A callback of the program, or BTstack, asks the run loop to exit; without
\* that a program in join would wait for ever.
ExitFromCallback(o) ==
  /\ "join" \in Clients
  /\ loop[o] = "executing"
  /\ exitRequested' = TRUE
  /\ UNCHANGED <<RUNTIME_ACTIVE, globals, opc, dropping, loopThread, loop>>

-----------------------------------------------------------------------------
(* join.                                                                   *)

\* join as called by the program: the handle is taken.
Join(o) ==
  /\ "join" \in Clients
  /\ opc[o] = "owns"
  /\ loopThread' = [loopThread EXCEPT ![o] = FALSE]
  /\ MoveTo(o, "join")
  /\ UNCHANGED <<RUNTIME_ACTIVE, globals, exitRequested, dropping, loop>>

\* The loop thread has ended; join returns Ok or LoopThreadPanicked.
JoinReturns(o) ==
  /\ opc[o] = "join"
  /\ loop[o] \in {"exited", "panicked"}
  /\ MoveTo(o, "joined")
  /\ UNCHANGED <<RUNTIME_ACTIVE, globals, exitRequested, dropping, loopThread, loop>>

-----------------------------------------------------------------------------
(* shutdown, called by the program or by Drop.                             *)

MayShutdown(o) ==
  \/ opc[o] \in {"owns", "joined", "failed"}
  \/ opc[o] = "shut" /\ "shutdown again" \in Clients

\* Mutant of Shutdown: the run loop is not asked to exit.
ShutdownWithoutExit(o, drop) ==
  /\ IF drop THEN opc[o] = "owns" ELSE MayShutdown(o)
  /\ dropping' = [dropping EXCEPT ![o] = drop]
  /\ MoveTo(o, "shutdown_join")
  /\ UNCHANGED <<RUNTIME_ACTIVE, globals, exitRequested, loopThread, loop>>

\* Mutant of Shutdown: BTstack is torn down before the thread is joined.
ShutdownWithoutJoin(o, drop) ==
  /\ IF drop THEN opc[o] = "owns" ELSE MayShutdown(o)
  /\ exitRequested' = TRUE
  /\ dropping' = [dropping EXCEPT ![o] = drop]
  /\ loopThread' = [loopThread EXCEPT ![o] = FALSE]
  /\ MoveTo(o, "hci_close")
  /\ UNCHANGED <<RUNTIME_ACTIVE, globals, loop>>

\* btstack_run_loop_trigger_exit.  Drop gets here only with a handle.
Shutdown(o, drop) ==
  /\ IF drop THEN opc[o] = "owns" ELSE MayShutdown(o)
  /\ exitRequested' = TRUE
  /\ dropping' = [dropping EXCEPT ![o] = drop]
  /\ MoveTo(o, "shutdown_join")
  /\ UNCHANGED <<RUNTIME_ACTIVE, globals, loopThread, loop>>

\* Back to the program, with Ok or an error; without the runtime after Drop.
ShutdownReturns(o, place) ==
  /\ MoveTo(o, IF dropping[o] THEN "none" ELSE place)
  /\ dropping' = [dropping EXCEPT ![o] = FALSE]

\* Mutant of ShutdownJoin: nothing is taken down after the join.
ShutdownJoinOnly(o) ==
  /\ opc[o] = "shutdown_join"
  /\ loopThread[o] => loop[o] \in {"exited", "panicked"}
  /\ loopThread' = [loopThread EXCEPT ![o] = FALSE]
  /\ MoveTo(o, "clear")
  /\ UNCHANGED <<RUNTIME_ACTIVE, globals, exitRequested, dropping, loop>>

\* join within shutdown: at once without a handle; an error ends shutdown.
ShutdownJoin(o) ==
  /\ opc[o] = "shutdown_join"
  /\ loopThread[o] => loop[o] \in {"exited", "panicked"}
  /\ loopThread' = [loopThread EXCEPT ![o] = FALSE]
  /\ IF loopThread[o] /\ loop[o] = "panicked"
     THEN ShutdownReturns(o, "failed")
     ELSE MoveTo(o, "hci_close") /\ UNCHANGED dropping
  /\ UNCHANGED <<RUNTIME_ACTIVE, globals, exitRequested, loop>>

\* hci_close, which closes the transport, returns.  It need not: the close waits
\* for the threads of the transport (TransportLifecycle).
HciClose(o) ==
  /\ opc[o] = "hci_close"
  /\ MoveTo(o, "hci_deinit")
  /\ UNCHANGED <<RUNTIME_ACTIVE, globals, exitRequested, dropping, loopThread, loop>>

\* The rest is taken down in reverse order.
Deinit(o) ==
  /\ \/ /\ opc[o] = "hci_deinit"
        /\ globals' = globals \ {"hci"}
        /\ MoveTo(o, "loop_deinit")
     \/ /\ opc[o] = "loop_deinit"
        /\ globals' = globals \ {"run_loop"}
        /\ MoveTo(o, "memory_deinit")
     \/ /\ opc[o] = "memory_deinit"
        /\ globals' = globals \ {"memory"}
        /\ MoveTo(o, "clear")
  /\ UNCHANGED <<RUNTIME_ACTIVE, exitRequested, dropping, loopThread, loop>>

\* The flag is cleared; another runtime may be started.
Clear(o) ==
  /\ opc[o] = "clear"
  /\ RUNTIME_ACTIVE' = FALSE
  /\ ShutdownReturns(o, "shut")
  /\ UNCHANGED <<globals, exitRequested, loopThread, loop>>

-----------------------------------------------------------------------------
\* Drop without a handle: the value goes away, nothing else happens.
DropOnly(o) ==
  /\ opc[o] \in {"joined", "shut", "failed"}
  /\ MoveTo(o, "none")
  /\ UNCHANGED <<RUNTIME_ACTIVE, globals, exitRequested, dropping, loopThread, loop>>

OwnerStep(o) ==
  \/ InitGlobals(o)
  \/ Spawn(o)
  \/ JoinReturns(o)
  \/ ShutdownJoin(o)
  \/ Deinit(o)
  \/ Clear(o)

LoopStep(o) ==
  \/ InitReturns(o)
  \/ LoopExits(o)

Next ==
  \/ \E o \in Owners : Start(o)
  \/ \E o \in Owners : Join(o)
  \/ \E o \in Owners, drop \in BOOLEAN : Shutdown(o, drop)
  \/ \E o \in Owners : DropOnly(o)
  \/ \E o \in Owners : OwnerStep(o)
  \/ \E o \in Owners : HciClose(o)
  \/ \E o \in Owners : LoopStep(o)
  \/ \E o \in Owners : ExitFromCallback(o)

Spec == Init /\ [][Next]_vars

\* Threads run; init returns and the run loop obeys an exit request.
ThreadsFair ==
  \A o \in Owners : WF_vars(OwnerStep(o)) /\ WF_vars(LoopStep(o))

\* hci_close returns.  This is no fairness of the scheduler but the conclusion
\* of CloseReturns in TransportLifecycle, and like that it takes a controller
\* that goes on sending on both IN endpoints.
TransportCloses ==
  \A o \in Owners : WF_vars(HciClose(o))

FairSpec == Spec /\ ThreadsFair /\ TransportCloses

-----------------------------------------------------------------------------
(* Safety.                                                                 *)

LoopAlive(o) == loop[o] \in {"init", "executing"}

\* The run loop and the callbacks it dispatches find BTstack initialised from
\* the spawn (runtime.rs:84) to the join (runtime.rs:110): no owner takes the
\* globals down under a running loop thread.
LoopFindsGlobals ==
  (\E o \in Owners : LoopAlive(o)) => globals = Parts

\* While the flag is clear nothing is left of any runtime, so the next start
\* initialises BTstack from scratch (runtime.rs:74-82, 112-119).
InactiveMeansGone ==
  ~RUNTIME_ACTIVE => globals = {} /\ \A o \in Owners : ~LoopAlive(o)

\* At most one run loop is up, whoever starts and shuts down (runtime.rs:74).
OneLoop ==
  \A o, p \in Owners : LoopAlive(o) /\ LoopAlive(p) => o = p

\* "Drop performs the same sequence as a best effort cleanup" (runtime.rs:55):
\* the flag is set only as long as somebody owns a runtime, so that a program
\* that has none can start one.
ActiveHasOwner ==
  RUNTIME_ACTIVE => \E o \in Owners : opc[o] # "none"

\* A shutdown that returns Ok has given everything back (runtime.rs:110-120):
\* the flag never promises a fresh start on globals that are still up, and a
\* shutdown repeated after a failed one (the init closure had panicked, so
\* the first call got no further than the join) takes up where that ended.
ShutdownReleases ==
  [][\A o \in Owners :
       opc[o] \notin Owning /\ opc'[o] = "shut" => globals' = {} /\ ~RUNTIME_ACTIVE']_vars

\* "Must be called before any other run loop call" (btstack_run_loop_init,
\* libusb_main_bindings.rs:5138): trigger_exit finds the run loop initialised.
ExitFindsRunLoop ==
  [][\A o \in Owners :
       opc[o] \in Owning /\ opc'[o] = "shutdown_join" => "run_loop" \in globals]_vars

-----------------------------------------------------------------------------
(* Liveness.                                                               *)

\* A shutdown that was begun returns, even if it was begun before the loop
\* thread entered the run loop, or if that thread has panicked or was joined
\* before (runtime.rs:106-119), provided that hci_close returns; with a quiet
\* controller neither does.
ShutdownCompletes ==
  \A o \in Owners : opc[o] = "shutdown_join" ~> opc[o] \in Owning \cup {"none"}
=============================================================================
