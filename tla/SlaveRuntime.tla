---------------------------- MODULE SlaveRuntime -----------------------------
(***************************************************************************)
(* One slave device after its discovery: the main loop of the demo runtime *)
(* (run_slave_thread of demo/src/main.rs), the RPC handlers that change    *)
(* state (slave/src/slave_api.rs), the state field of DeviceStatusStore    *)
(* (slave/src/device_status.rs) and the two L2 threads                     *)
(* (slave/src/l2_handler.rs).                                              *)
(*                                                                         *)
(* The main loop and the RPC handlers are tasks of one current_thread      *)
(* runtime: what a task does between two awaits is one step.  The L2       *)
(* threads and the discovery listener are threads of their own.            *)
(***************************************************************************)
EXTENDS DeviceState, Naturals, Sequences

CONSTANTS
    MaxPending,     \* bound on the RPCs that wait for the status lock
    MaxConfigs      \* bound on the successful configure_streams calls

ASSUME RuntimeAssumption == MaxPending \in Nat /\ MaxConfigs \in Nat

VARIABLES
    mgr,            \* the state in the DeviceStateManager
    status,         \* the state in the DeviceStatusStore, what the L2 threads read
    pending,        \* update_state calls that wait for the write lock, in order
    listener,       \* the discovery listener thread
    main,           \* where the main loop is
    api,            \* the API server serves
    sender,         \* where the L2 sender thread is
    receiver,       \* where the L2 receiver thread is
    store,          \* the configuration in the StreamStore, numbered; 0 is none
    snap,           \* the configuration the L2 threads were started with
    lateWrites,     \* history: frames applied since status was last Op
    lateSends       \* history: cycles sent since status was last SafeOp or Op

rvars == <<mgr, status, pending, listener, main, api>>
l2vars == <<sender, receiver, snap>>
history == <<lateWrites, lateSends>>
vars == <<rvars, l2vars, store, history>>

\* The states in which the L2 sender works.
Active == {"SafeOp", "Op"}

\* The places of the main loop where its thread runs the runtime; in a join it
\* is blocked, and with it every task and every timer.
RuntimeRuns == main \in {"loop", "budget", "await", "stop"}

L2Alive == sender \in {"tick", "awake", "send"} \/ receiver \in {"check", "sleep", "next"}

Waiters == [state: DeviceStates, by: {"main", "api"}]

\* The histories saturate: one more than the properties allow.
Count(n) == IF n < 2 THEN n + 1 ELSE n
------------------------------------------------------------------------------
Init ==
    /\ mgr = "DiscoverySync"
    /\ status = "DiscoverySync"
    /\ pending = <<>>
    /\ listener = "running"
    /\ main = "loop"
    /\ api = FALSE
    /\ sender = "absent"
    /\ receiver = "absent"
    /\ store = 0
    /\ snap = 0
    /\ lateWrites = 0
    /\ lateSends = 0
------------------------------------------------------------------------------
(***************************************************************************)
(* DeviceStatusStore: current is a tokio RwLock, which is fair: a writer   *)
(* that finds it held queues up, and readers queue behind it.              *)
(***************************************************************************)

\* The write of update_state, under the lock.
WriteState(st) ==
    /\ status' = st
    /\ lateWrites' = IF st = "Op" THEN 0 ELSE lateWrites
    /\ lateSends' = IF st \in Active THEN 0 ELSE lateSends

\* update_state(st) up to its first suspension: the lock is free and the write
\* happens at once, or an L2 thread or an earlier writer has it.
UpdateNow(st) == pending = <<>> /\ WriteState(st) /\ UNCHANGED pending
UpdateLater(st, who) ==
    /\ L2Alive \/ pending # <<>>
    /\ pending' = Append(pending, [state |-> st, by |-> who])
    /\ UNCHANGED <<status, history>>

\* The lock goes to the first waiter and its task, which needs the runtime,
\* writes and goes on.
GrantLock ==
    /\ RuntimeRuns
    /\ pending # <<>>
    /\ WriteState(Head(pending).state)
    /\ pending' = Tail(pending)
    /\ main' = CASE Head(pending).by = "api" -> main
                 [] Head(pending).by = "main" ->
                        IF Head(pending).state = "Shutdown" THEN "stop" ELSE "loop"
    /\ UNCHANGED <<mgr, listener, api, l2vars, store>>
------------------------------------------------------------------------------
(***************************************************************************)
(* The discovery listener: a configured slave enters PreOp and the thread  *)
(* ends at its next check.                                                 *)
(***************************************************************************)
ListenerConfigured ==
    /\ listener = "running"
    /\ mgr' = AfterSetTargetState(mgr, "PreOp")
    /\ listener' = IF mgr' = "DiscoverySync" THEN "running" ELSE "exited"
    /\ UNCHANGED <<status, pending, main, api, l2vars, store, history>>
------------------------------------------------------------------------------
(***************************************************************************)
(* The RPC handlers.                                                       *)
(***************************************************************************)

\* A mutant: the status is updated whether or not the manager agreed.
SetTargetState_Unchecked(t) ==
    /\ api /\ RuntimeRuns
    /\ Len(pending) < MaxPending
    /\ mgr' = AfterSetTargetState(mgr, t)
    /\ UpdateNow(t) \/ UpdateLater(t, "api")
    /\ UNCHANGED <<listener, main, api, l2vars, store>>

\* set_target_state: a transition the manager refuses changes nothing, one it
\* accepts is written to the status store, also when it is none.
SetTargetState(t) ==
    /\ api /\ RuntimeRuns
    /\ Len(pending) < MaxPending
    /\ MayTransition(mgr, t)
    /\ mgr' = t
    /\ UpdateNow(t) \/ UpdateLater(t, "api")
    /\ UNCHANGED <<listener, main, api, l2vars, store>>

\* configure_streams: reset and add_stream_configs, which cannot fail after
\* validate_streams has accepted the request.
ConfigureStreams ==
    /\ api /\ RuntimeRuns
    /\ mgr = "PreOp"
    /\ store < MaxConfigs
    /\ store' = store + 1
    /\ UNCHANGED <<rvars, l2vars, history>>
------------------------------------------------------------------------------
(***************************************************************************)
(* The main loop, one action per arm that does more than sleep.            *)
(***************************************************************************)

\* PreOp, the first time: the status is written and the API server started.
\* Nobody else uses the status store yet.
MainPreOp ==
    /\ main = "loop"
    /\ mgr = "PreOp"
    /\ ~api
    /\ WriteState("PreOp")
    /\ api' = TRUE
    /\ UNCHANGED <<mgr, pending, listener, main, l2vars, store>>

\* SafeOp or Op, the first time: the L2 threads are started with the streams
\* configured now, or the raw socket cannot be opened and the runtime ends.
MainStartL2 ==
    /\ main = "loop"
    /\ mgr \in Active
    /\ sender = "absent"
    /\ \/ /\ sender' = "tick"
          /\ receiver' = "check"
          /\ snap' = store
          /\ UNCHANGED <<main, api>>
       \/ /\ main' = "failed"
          /\ api' = FALSE
          /\ UNCHANGED l2vars
    /\ UNCHANGED <<mgr, status, pending, listener, store, history>>

\* Shutdown: the status is written and the loop left.
MainShutdown ==
    /\ main = "loop"
    /\ mgr = "Shutdown"
    /\ \/ UpdateNow("Shutdown") /\ main' = "stop"
       \/ UpdateLater("Shutdown", "main") /\ main' = "await"
    /\ UNCHANGED <<mgr, listener, api, l2vars, store>>

\* A mutant: the write is handed to a task of its own and not awaited.
MainError_Spawned ==
    /\ main = "loop"
    /\ mgr = "Error"
    /\ UpdateNow("Error") \/ UpdateLater("Error", "main")
    /\ UNCHANGED <<mgr, listener, main, api, l2vars, store>>

\* Error: the status is written, again and again, without a sleep.  A run of
\* writes that never has to wait uses up the cooperative budget of its task: the
\* runtime then suspends it in write().await of the next one, after the state
\* was read and before it is in the queue of the lock.
MainError ==
    /\ main = "loop"
    /\ mgr = "Error"
    /\ \/ UpdateNow("Error") /\ main' \in {"loop", "budget"}
       \/ UpdateLater("Error", "main") /\ main' = "await"
    /\ UNCHANGED <<mgr, listener, api, l2vars, store>>

\* The suspended write goes on, in whatever state the device is in by now.
MainErrorResumes ==
    /\ main = "budget"
    /\ \/ UpdateNow("Error") /\ main' = "loop"
       \/ UpdateLater("Error", "main") /\ main' = "await"
    /\ UNCHANGED <<mgr, listener, api, l2vars, store>>

\* After the loop the tasks are aborted and awaited, then the threads joined.
MainStop ==
    /\ main = "stop"
    /\ api' = FALSE
    /\ main' = "joinSender"
    /\ UNCHANGED <<mgr, status, pending, listener, l2vars, store, history>>

MainJoin ==
    /\ \/ main = "joinSender" /\ sender \in {"absent", "exited"} /\ main' = "joinReceiver"
       \/ main = "joinReceiver" /\ receiver \in {"absent", "exited"} /\ main' = "joinListener"
       \/ main = "joinListener" /\ listener = "exited" /\ main' = "done"
    /\ UNCHANGED <<mgr, status, pending, listener, api, l2vars, store, history>>
------------------------------------------------------------------------------
(***************************************************************************)
(* The L2 threads.  They read the state from the status store, in turn     *)
(* with the writers that wait for it.                                      *)
(***************************************************************************)

\* A reader gets the lock in its turn: the writers that came before it must be
\* served, which takes the runtime; those that came later find it ahead of them.
ReadTurn == RuntimeRuns \/ pending = <<>>

\* A mutant: the receiver sleeps in every state but Op.
ReceiverCheck_NeverExits ==
    /\ receiver = "check"
    /\ ReadTurn
    /\ receiver' = IF status = "Op" THEN "next" ELSE "sleep"
    /\ UNCHANGED <<rvars, sender, snap, store, history>>

\* The head of the receive loop.
ReceiverCheck ==
    /\ receiver = "check"
    /\ ReadTurn
    /\ receiver' = CASE status = "Op" -> "next"
                     [] status = "SafeOp" -> "sleep"
                     [] OTHER -> "exited"
    /\ UNCHANGED <<rvars, sender, snap, store, history>>

\* thread::sleep returns; it needs no timer of the runtime.
ReceiverWake ==
    /\ receiver = "sleep"
    /\ receiver' = "check"
    /\ UNCHANGED <<rvars, sender, snap, store, history>>

\* A mutant: after an applied frame the next one is read at once.
ReceiverFrame_NoRecheck ==
    /\ receiver = "next"
    /\ lateWrites' = IF status = "Op" THEN 0 ELSE Count(lateWrites)
    /\ UNCHANGED <<rvars, sender, receiver, snap, store, lateSends>>

\* receiver.next() returns: the frame is dropped (another protocol, an unknown
\* stream, a refused tag, an error status) or written to the process image.
ReceiverFrame ==
    /\ receiver = "next"
    /\ receiver' = "check"
    /\ \/ UNCHANGED lateWrites
       \/ lateWrites' = IF status = "Op" THEN 0 ELSE Count(lateWrites)
    /\ UNCHANGED <<rvars, sender, snap, store, lateSends>>

\* interval.tick(): the timer is driven by the thread of the main loop.
SenderTick ==
    /\ sender = "tick"
    /\ RuntimeRuns
    /\ sender' = "awake"
    /\ UNCHANGED <<rvars, receiver, snap, store, history>>

\* A mutant: the sender works in every state.
SenderCheck_AnyState ==
    /\ sender = "awake"
    /\ ReadTurn
    /\ sender' = "send"
    /\ UNCHANGED <<rvars, receiver, snap, store, history>>

SenderCheck ==
    /\ sender = "awake"
    /\ ReadTurn
    /\ sender' = IF status \in Active THEN "send" ELSE "exited"
    /\ UNCHANGED <<rvars, receiver, snap, store, history>>

\* The streams that are due are sent, in the state that was read.
SenderSend ==
    /\ sender = "send"
    /\ sender' = "tick"
    /\ lateSends' = IF status \in Active THEN 0 ELSE Count(lateSends)
    /\ UNCHANGED <<rvars, receiver, snap, store, lateWrites>>
------------------------------------------------------------------------------
Main == \/ MainPreOp
        \/ MainStartL2
        \/ MainShutdown
        \/ MainError
        \/ MainErrorResumes
        \/ MainStop
        \/ MainJoin

L2 == \/ ReceiverCheck
      \/ ReceiverWake
      \/ ReceiverFrame
      \/ SenderTick
      \/ SenderCheck
      \/ SenderSend

Next ==
    \/ ListenerConfigured
    \/ GrantLock
    \/ \E t \in DeviceStates : SetTargetState(t)
    \/ ConfigureStreams
    \/ Main
    \/ L2

Spec == Init /\ [][Next]_vars

\* The threads are scheduled, the lock serves readers and writers in turn, and
\* frames, of this or of another protocol, keep arriving on the interface.
\* Nothing is assumed of the clients of the API.
Fairness ==
    /\ WF_vars(GrantLock)
    /\ WF_vars(Main)
    /\ WF_vars(ReceiverCheck)
    /\ WF_vars(ReceiverWake)
    /\ WF_vars(ReceiverFrame)
    /\ WF_vars(SenderTick)
    /\ WF_vars(SenderCheck)
    /\ WF_vars(SenderSend)

LiveSpec == Spec /\ Fairness
------------------------------------------------------------------------------
(***************************************************************************)
(* Properties.                                                             *)
(***************************************************************************)

\* Every variable has its type, and the status lock has one waiter for each call
\* of the API and one more, the main loop.
TypeOK ==
    /\ mgr \in DeviceStates
    /\ status \in DeviceStates
    /\ pending \in Seq(Waiters) /\ Len(pending) <= MaxPending + 1
    /\ listener \in {"running", "exited"}
    /\ main \in {"loop", "budget", "await", "stop", "joinSender", "joinReceiver",
                 "joinListener", "done", "failed"}
    /\ api \in BOOLEAN
    /\ sender \in {"absent", "tick", "awake", "send", "exited"}
    /\ receiver \in {"absent", "check", "sleep", "next", "exited"}
    /\ store \in 0..MaxConfigs
    /\ snap \in 0..MaxConfigs
    /\ lateWrites \in 0..2
    /\ lateSends \in 0..2

\* The status store, which clients and L2 threads read, errs on the safe side:
\* whatever order the main loop and the RPCs change the state in, once no update
\* waits it shows the state of the manager or Error, and never a state in which
\* a device works that the manager has left.
StatusNeverAhead == api /\ pending = <<>> => status \in {mgr, "Error"}

\* After the status has left Op at most one more frame reaches the process
\* image: the one whose wait began in Op.
OneLateWrite == lateWrites <= 1

\* After the status has left SafeOp and Op at most one more cycle is sent.
OneLateCycle == lateSends <= 1

\* While the runtime runs, a status that stays outside SafeOp and Op ends both
\* L2 threads.
ExchangeStops ==
    <>[](status \notin Active /\ RuntimeRuns)
        => <>[](sender \in {"absent", "exited"} /\ receiver \in {"absent", "exited"})

\* A shutdown whose sender thread is gone when the joins begin comes to its
\* end: the receiver needs no timer.
JoinReturns ==
    (main = "joinSender" /\ sender \in {"absent", "exited"} /\ pending = <<>>
        /\ status = "Shutdown") ~> main = "done"

\* The status store shows the state of the manager whenever no update is on its
\* way.
StatusMirrorsManager ==
    api /\ pending = <<>> /\ main # "budget" => status = mgr

\* Actuators are disabled outside Op: no frame is applied after Op was left.
ActuatorsOnlyInOp == lateWrites = 0

\* A runtime that has entered Shutdown ends, gracefully, once its threads are
\* told and nobody waits for the status any more.
ShutdownCompletes ==
    (main = "joinSender" /\ pending = <<>> /\ status = "Shutdown") ~> main = "done"

\* A device in Op exchanges the streams it was configured with.
OperationalExchanges ==
    mgr = "Op" /\ status = "Op" /\ sender # "absent"
        => sender # "exited" /\ receiver # "exited" /\ snap = store
==============================================================================
