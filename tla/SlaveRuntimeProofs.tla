------------------------- MODULE SlaveRuntimeProofs --------------------------
(***************************************************************************)
(* Proofs about SlaveRuntime, for every bound on waiting calls and on      *)
(* configurations.                                                         *)
(***************************************************************************)
EXTENDS SlaveRuntime, SequenceTheorems, TLAPS

\* The state that status will show once every waiting writer had its turn.
Announced == IF pending = <<>> THEN status ELSE pending[Len(pending)].state

\* Until the API server runs, only the listener has changed the state.
BeforeApi ==
    ~api /\ RuntimeRuns =>
        /\ main = "loop"
        /\ pending = <<>>
        /\ mgr \in {"DiscoverySync", "PreOp"}

\* The listener is gone before the API server is started.
ListenerFirst == listener = "running" => mgr = "DiscoverySync" /\ ~api

\* What is announced last is the state of the manager, or Error, which the main
\* loop may announce after the state it read was left.
Mirror == api => Announced \in {mgr, "Error"}

\* A place in the queue is left for the main loop, and taken when it waits.
MainPlace == main # "await" => Len(pending) <= MaxPending

\* The receiver that waits for a frame has applied none since Op was left, and
\* the sender that is about to send has sent nothing since SafeOp and Op were.
LateInv ==
    /\ status = "Op" => lateWrites = 0
    /\ receiver = "next" => lateWrites = 0
    /\ lateWrites <= 1
    /\ status \in Active => lateSends = 0
    /\ sender = "send" => lateSends = 0
    /\ lateSends <= 1

IInv == TypeOK /\ BeforeApi /\ ListenerFirst /\ Mirror /\ MainPlace /\ LateInv
------------------------------------------------------------------------------
\* Appending to a queue of waiters: the new one is last.
LEMMA AppendLast ==
    ASSUME NEW q \in Seq(Waiters), NEW w \in Waiters
    PROVE  /\ Append(q, w) \in Seq(Waiters)
           /\ Append(q, w) # <<>>
           /\ Append(q, w)[Len(Append(q, w))] = w
           /\ Len(q) \in Nat /\ Len(Append(q, w)) = Len(q) + 1
OBVIOUS

\* Serving the first of a queue of waiters: the last one stays last, and the
\* only one is both.
LEMMA TailLast ==
    ASSUME NEW q \in Seq(Waiters), q # <<>>
    PROVE  /\ Head(q) \in Waiters
           /\ Tail(q) \in Seq(Waiters)
           /\ Tail(q) = <<>> => Head(q) = q[Len(q)]
           /\ Tail(q) # <<>> => Tail(q)[Len(Tail(q))] = q[Len(q)]
           /\ Len(q) \in Nat /\ Len(Tail(q)) = Len(q) - 1
<1>1. Head(q) \in Waiters /\ Tail(q) \in Seq(Waiters)
  OBVIOUS
<1>2. Len(q) \in Nat /\ Len(q) >= 1 /\ Len(Tail(q)) = Len(q) - 1
  OBVIOUS
<1>3. Tail(q) = <<>> => Head(q) = q[Len(q)]
  <2>0. Len(Tail(q)) = 0 => Head(q) = q[Len(q)]
    <3>1. Len(Tail(q)) = 0 => Len(q) = 1
      <4> DEFINE n == Len(q)  m == Len(Tail(q))
      <4> HIDE DEF n, m
      <4>1. n \in Nat /\ m = n - 1
        BY <1>2 DEF n, m
      <4>2. m = 0 => n = 1
        BY <4>1
      <4> QED BY <4>2, Zenon DEF n, m
    <3>2. Head(q) = q[1]
      OBVIOUS
    <3> QED BY <3>1, <3>2, Zenon
  <2> SUFFICES ASSUME Tail(q) = <<>> PROVE Head(q) = q[Len(q)]
    OBVIOUS
  <2>1. Len(<<>>) = 0
    BY EmptySeq
  <2> QED BY <2>0, <2>1, Zenon
<1>4. Tail(q) # <<>> => Tail(q)[Len(Tail(q))] = q[Len(q)]
  <2> SUFFICES ASSUME Tail(q) # <<>> PROVE Tail(q)[Len(Tail(q))] = q[Len(q)]
    OBVIOUS
  <2>1. Len(Tail(q)) \in Nat /\ Len(Tail(q)) # 0
    BY <1>1
  <2>2. Len(q) - 1 >= 1
    BY <1>2, <2>1
  <2>3. Tail(q)[Len(q) - 1] = q[Len(q) - 1 + 1]
    BY <1>2, <2>2
  <2> QED BY <1>2, <2>3
<1> QED BY <1>1, <1>2, <1>3, <1>4

LEMMA InitInv ==
    Init => IInv
<1> SUFFICES ASSUME Init PROVE IInv
  OBVIOUS
<1>1. TypeOK
  <2>1. pending \in Seq(Waiters) /\ Len(pending) = 0
    BY EmptySeq DEF Init
  <2>4. Len(pending) <= MaxPending + 1
    BY <2>1, RuntimeAssumption
  <2>2. store \in 0..MaxConfigs /\ snap \in 0..MaxConfigs
    BY RuntimeAssumption DEF Init
  <2>3. lateWrites \in 0..2 /\ lateSends \in 0..2
    BY DEF Init
  <2> QED BY <2>1, <2>2, <2>3, <2>4, Zenon DEF Init, TypeOK, DeviceStates
<1>2. BeforeApi /\ ListenerFirst /\ Mirror
  BY DEF Init, BeforeApi, ListenerFirst, Mirror
<1>4. MainPlace
  BY EmptySeq, RuntimeAssumption DEF Init, MainPlace
<1>3. LateInv
  BY DEF Init, LateInv
<1> QED BY <1>1, <1>2, <1>3, <1>4 DEF IInv

\* The write of update_state keeps the histories in order.
LEMMA WriteStep ==
    ASSUME IInv, NEW st \in DeviceStates, WriteState(st),
           UNCHANGED <<receiver, sender>>
    PROVE  status' = st /\ LateInv' /\ lateWrites' \in 0..2 /\ lateSends' \in 0..2
BY DEF IInv, TypeOK, LateInv, WriteState, Active

\* update_state announces the state, now or behind the other writers.
LEMMA UpdateStep ==
    ASSUME IInv, NEW st \in DeviceStates, NEW who \in {"main", "api"},
           UpdateNow(st) \/ UpdateLater(st, who), UNCHANGED <<receiver, sender>>
    PROVE  /\ Announced' = st /\ LateInv' /\ lateWrites' \in 0..2 /\ lateSends' \in 0..2
           /\ status' \in DeviceStates /\ pending' \in Seq(Waiters)
           /\ Len(pending) \in Nat
           /\ Len(pending') = Len(pending) \/ Len(pending') = Len(pending) + 1
           /\ UpdateNow(st) => Len(pending') = Len(pending)
<1>0. pending \in Seq(Waiters) /\ status \in DeviceStates
  BY DEF IInv, TypeOK
<1>1. CASE UpdateNow(st)
  <2>1. status' = st /\ LateInv' /\ lateWrites' \in 0..2 /\ lateSends' \in 0..2
    BY <1>1, WriteStep DEF UpdateNow
  <2>2. pending' = pending /\ pending = <<>>
    BY <1>1 DEF UpdateNow
  <2>3. Len(pending) \in Nat
    BY <1>0, LenProperties
  <2> QED BY <1>0, <2>1, <2>2, <2>3 DEF Announced
<1>2. CASE UpdateLater(st, who)
  <2> DEFINE w == [state |-> st, by |-> who]
  <2>1. w \in Waiters
    BY DEF Waiters
  <2>2. pending' = Append(pending, w) /\ UNCHANGED <<status, history>>
    BY <1>2 DEF UpdateLater
  <2>3. /\ pending' \in Seq(Waiters)
        /\ pending' # <<>>
        /\ pending'[Len(pending')] = w
        /\ Len(pending) \in Nat /\ Len(pending') = Len(pending) + 1
    BY <1>0, <2>1, <2>2, AppendLast
  <2>4. Announced' = st
    BY <2>3 DEF Announced
  <2>5. LateInv' /\ lateWrites' \in 0..2 /\ lateSends' \in 0..2
    BY <2>2 DEF IInv, TypeOK, LateInv, history
  <2>6. ~UpdateNow(st)
    BY <1>0, <2>3 DEF UpdateNow
  <2> QED BY <1>0, <2>2, <2>3, <2>4, <2>5, <2>6
<1> QED BY <1>1, <1>2
------------------------------------------------------------------------------
\* A step of the L2 threads leaves what concerns the runtime alone.
LEMMA RuntimeUnchanged ==
    ASSUME IInv, UNCHANGED rvars
    PROVE  BeforeApi' /\ ListenerFirst' /\ Mirror' /\ MainPlace'
BY DEF IInv, BeforeApi, ListenerFirst, Mirror, MainPlace, Announced, rvars, RuntimeRuns

LEMMA GrantStep ==
    ASSUME IInv, GrantLock
    PROVE  IInv'
<1>0. pending \in Seq(Waiters) /\ pending # <<>> /\ TypeOK
  BY DEF IInv, TypeOK, GrantLock
<1>1. /\ Head(pending) \in Waiters
      /\ Tail(pending) \in Seq(Waiters)
      /\ Tail(pending) = <<>> => Head(pending) = pending[Len(pending)]
      /\ Tail(pending) # <<>> => Tail(pending)[Len(Tail(pending))] = pending[Len(pending)]
      /\ Len(pending) \in Nat /\ Len(Tail(pending)) = Len(pending) - 1
  BY <1>0, TailLast
<1>2. Head(pending).state \in DeviceStates /\ Head(pending).by \in {"main", "api"}
  BY <1>1 DEF Waiters
<1>3. /\ status' = Head(pending).state
      /\ LateInv' /\ lateWrites' \in 0..2 /\ lateSends' \in 0..2
  <2>1. WriteState(Head(pending).state) /\ UNCHANGED <<receiver, sender>>
    BY DEF GrantLock, l2vars
  <2> QED BY <1>2, <2>1, WriteStep
<1>4. pending' = Tail(pending) /\ UNCHANGED <<mgr, listener, api, sender, receiver, snap, store>>
  BY DEF GrantLock, l2vars
<1>5. main' \in {main, "stop", "loop"}
  BY <1>2 DEF GrantLock
<1>10. Len(pending') <= MaxPending /\ MaxPending <= MaxPending + 1
  <2>1. Len(pending) <= MaxPending + 1
    BY DEF IInv, TypeOK
  <2> QED BY <1>1, <1>4, <2>1, RuntimeAssumption
<1>6. TypeOK'
  <2>1. Len(pending') <= MaxPending + 1
    BY <1>1, <1>4, <1>10, RuntimeAssumption
  <2> QED BY <1>0, <1>1, <1>2, <1>3, <1>4, <1>5, <2>1 DEF TypeOK
<1>7. api
  BY <1>0 DEF IInv, BeforeApi, GrantLock
<1>8. BeforeApi' /\ ListenerFirst'
  BY <1>4, <1>7 DEF IInv, BeforeApi, ListenerFirst
<1>9. Mirror'
  <2>1. Announced \in {mgr, "Error"} /\ Announced = pending[Len(pending)].state
    BY <1>0, <1>7 DEF IInv, Mirror, Announced
  <2>2. Announced' = pending[Len(pending)].state
    BY <1>1, <1>3, <1>4 DEF Announced
  <2> QED BY <1>4, <2>1, <2>2 DEF Mirror
<1> QED BY <1>3, <1>6, <1>8, <1>9, <1>10 DEF IInv, MainPlace

LEMMA ListenerStep ==
    ASSUME IInv, ListenerConfigured
    PROVE  IInv'
<1>1. mgr = "DiscoverySync" /\ ~api
  BY DEF IInv, ListenerFirst, ListenerConfigured
<1>2. /\ mgr' = "PreOp" /\ listener' = "exited"
      /\ UNCHANGED <<status, pending, main, api, sender, receiver, snap, store,
                     lateWrites, lateSends>>
  BY <1>1 DEF ListenerConfigured, AfterSetTargetState, MayTransition, Edges, l2vars, history
<1>3. TypeOK'
  BY <1>2 DEF IInv, TypeOK, DeviceStates
<1>4. BeforeApi' /\ ListenerFirst' /\ Mirror' /\ MainPlace' /\ LateInv'
  BY <1>1, <1>2
     DEF IInv, BeforeApi, ListenerFirst, Mirror, MainPlace, LateInv, RuntimeRuns
<1> QED BY <1>3, <1>4 DEF IInv

LEMMA SetTargetStateStep ==
    ASSUME IInv, NEW t \in DeviceStates, SetTargetState(t)
    PROVE  IInv'
<1>1. /\ Announced' = t /\ LateInv' /\ lateWrites' \in 0..2 /\ lateSends' \in 0..2
      /\ status' \in DeviceStates /\ pending' \in Seq(Waiters)
      /\ Len(pending) \in Nat
      /\ Len(pending') = Len(pending) \/ Len(pending') = Len(pending) + 1
  <2>1. UNCHANGED <<receiver, sender>> /\ (UpdateNow(t) \/ UpdateLater(t, "api"))
    BY DEF SetTargetState, l2vars
  <2> QED BY <2>1, UpdateStep
<1>2. api /\ mgr' = t /\ UNCHANGED <<listener, main, api, sender, receiver, snap, store>>
  BY DEF SetTargetState, l2vars
<1>5. Len(pending') <= MaxPending /\ Len(pending') <= MaxPending + 1
  BY <1>1, RuntimeAssumption DEF SetTargetState
<1>3. TypeOK'
  BY <1>1, <1>2, <1>5 DEF IInv, TypeOK
<1>4. BeforeApi' /\ ListenerFirst' /\ Mirror' /\ MainPlace'
  BY <1>1, <1>2, <1>5 DEF IInv, BeforeApi, ListenerFirst, Mirror, MainPlace
<1> QED BY <1>1, <1>3, <1>4 DEF IInv

LEMMA ConfigureStep ==
    ASSUME IInv, ConfigureStreams
    PROVE  IInv'
<1>1. TypeOK'
  BY RuntimeAssumption DEF IInv, TypeOK, ConfigureStreams, rvars, l2vars, history
<1>2. BeforeApi' /\ ListenerFirst' /\ Mirror' /\ MainPlace'
  BY RuntimeUnchanged DEF ConfigureStreams
<1>3. LateInv'
  BY DEF IInv, LateInv, ConfigureStreams, rvars, l2vars, history
<1> QED BY <1>1, <1>2, <1>3 DEF IInv

LEMMA MainStep ==
    ASSUME IInv, Main
    PROVE  IInv'
<1>1. CASE MainPreOp
  <2>1. pending = <<>> /\ mgr = "PreOp" /\ listener # "running"
    BY <1>1 DEF IInv, BeforeApi, ListenerFirst, MainPreOp, RuntimeRuns
  <2>2. /\ status' = "PreOp" /\ LateInv' /\ lateWrites' \in 0..2 /\ lateSends' \in 0..2
    <3>1. WriteState("PreOp") /\ UNCHANGED <<receiver, sender>> /\ "PreOp" \in DeviceStates
      BY <1>1 DEF MainPreOp, l2vars, DeviceStates
    <3> QED BY <3>1, WriteStep
  <2>3. api' = TRUE /\ UNCHANGED <<mgr, pending, listener, main, sender, receiver, snap, store>>
    BY <1>1 DEF MainPreOp, l2vars
  <2>4. TypeOK'
    BY <2>2, <2>3 DEF IInv, TypeOK, DeviceStates
  <2>5. BeforeApi' /\ ListenerFirst' /\ Mirror' /\ MainPlace'
    BY <2>1, <2>2, <2>3 DEF IInv, BeforeApi, ListenerFirst, Mirror, MainPlace, Announced
  <2> QED BY <2>2, <2>4, <2>5 DEF IInv
<1>2. CASE MainStartL2
  <2>1. UNCHANGED <<mgr, status, pending, listener, store, lateWrites, lateSends>>
    BY <1>2 DEF MainStartL2, history
  <2>2. api
    BY <1>2 DEF IInv, BeforeApi, MainStartL2, RuntimeRuns, Active
  <2>3. \/ sender' = "tick" /\ receiver' = "check" /\ snap' = store /\ UNCHANGED <<main, api>>
        \/ main' = "failed" /\ api' = FALSE /\ UNCHANGED <<sender, receiver, snap>>
    BY <1>2 DEF MainStartL2, l2vars
  <2>4. TypeOK'
    BY <2>1, <2>3 DEF IInv, TypeOK
  <2>6. main # "await"
    BY <1>2 DEF MainStartL2
  <2>5. BeforeApi' /\ ListenerFirst' /\ Mirror' /\ MainPlace' /\ LateInv'
    BY <2>1, <2>2, <2>3, <2>6
       DEF IInv, BeforeApi, ListenerFirst, Mirror, MainPlace, Announced, LateInv, RuntimeRuns
  <2> QED BY <2>4, <2>5 DEF IInv
<1>3. ASSUME NEW st \in {"Shutdown", "Error"}, api, main \in {"loop", "budget"},
             st = "Error" \/ mgr = st,
             \/ UpdateNow(st) /\ main' \in {"stop", "loop", "budget"}
             \/ UpdateLater(st, "main") /\ main' = "await",
             UNCHANGED <<mgr, listener, api, l2vars, store>>
      PROVE  IInv'
  <2>0. st \in DeviceStates
    BY DEF DeviceStates
  <2>2. /\ Announced' = st /\ LateInv' /\ lateWrites' \in 0..2 /\ lateSends' \in 0..2
        /\ status' \in DeviceStates /\ pending' \in Seq(Waiters)
        /\ Len(pending) \in Nat
        /\ Len(pending') = Len(pending) \/ Len(pending') = Len(pending) + 1
        /\ UpdateNow(st) => Len(pending') = Len(pending)
    <3>1. UNCHANGED <<receiver, sender>> /\ (UpdateNow(st) \/ UpdateLater(st, "main"))
      BY <1>3 DEF l2vars
    <3> QED BY <2>0, <3>1, UpdateStep
  <2>5. Len(pending) <= MaxPending
    BY <1>3 DEF IInv, MainPlace
  <2>6. Len(pending') <= MaxPending + 1
    BY <2>2, <2>5, RuntimeAssumption
  <2>7. MainPlace'
    BY <1>3, <2>2, <2>5 DEF MainPlace
  <2>3. TypeOK'
    BY <1>3, <2>2, <2>6 DEF IInv, TypeOK, l2vars
  <2>4. BeforeApi' /\ ListenerFirst' /\ Mirror'
    BY <1>3, <2>2 DEF IInv, BeforeApi, ListenerFirst, Mirror
  <2> QED BY <2>2, <2>3, <2>4, <2>7 DEF IInv
<1>4. CASE MainShutdown
  <2>1. api
    BY <1>4 DEF IInv, BeforeApi, MainShutdown, RuntimeRuns
  <2> QED BY <1>3, <1>4, <2>1 DEF MainShutdown
<1>5. CASE MainError
  <2>1. api
    BY <1>5 DEF IInv, BeforeApi, MainError, RuntimeRuns
  <2> QED BY <1>3, <1>5, <2>1 DEF MainError
<1>7. CASE MainErrorResumes
  <2>1. api
    BY <1>7 DEF IInv, BeforeApi, MainErrorResumes, RuntimeRuns
  <2> QED BY <1>3, <1>7, <2>1 DEF MainErrorResumes
<1>6. CASE MainStop \/ MainJoin
  <2>1. /\ main' \in {"joinSender", "joinReceiver", "joinListener", "done"}
        /\ UNCHANGED <<mgr, status, pending, listener, sender, receiver, snap, store,
                       lateWrites, lateSends>>
    BY <1>6 DEF MainStop, MainJoin, l2vars, history
  <2>2. TypeOK'
    <3>1. (api' = api \/ api' = FALSE) /\ api \in BOOLEAN
      BY <1>6 DEF IInv, TypeOK, MainStop, MainJoin
    <3>2. api' \in BOOLEAN
      BY <3>1, Zenon
    <3> QED BY <2>1, <3>2 DEF IInv, TypeOK
  <2>3. BeforeApi' /\ ListenerFirst' /\ Mirror' /\ MainPlace' /\ LateInv'
    BY <1>6, <2>1 DEF IInv, BeforeApi, ListenerFirst, Mirror, MainPlace, Announced, LateInv,
       RuntimeRuns, MainStop, MainJoin
  <2> QED BY <2>2, <2>3 DEF IInv
<1> QED BY <1>1, <1>2, <1>4, <1>5, <1>6, <1>7 DEF Main

LEMMA L2Step ==
    ASSUME IInv, L2
    PROVE  IInv'
<1>0. UNCHANGED rvars /\ UNCHANGED <<snap, store>>
  BY DEF L2, ReceiverCheck, ReceiverWake, ReceiverFrame, SenderTick, SenderCheck, SenderSend
<1>1. BeforeApi' /\ ListenerFirst' /\ Mirror' /\ MainPlace'
  BY <1>0, RuntimeUnchanged
<1>2. TypeOK' /\ LateInv'
  <2>1. CASE ReceiverCheck
    BY <1>0, <2>1 DEF IInv, TypeOK, LateInv, ReceiverCheck, rvars, history
  <2>2. CASE ReceiverFrame
    BY <1>0, <2>2 DEF IInv, TypeOK, LateInv, ReceiverFrame, Count, rvars
  <2>3. CASE SenderTick
    BY <1>0, <2>3 DEF IInv, TypeOK, LateInv, SenderTick, rvars, history
  <2>4. CASE SenderCheck
    BY <1>0, <2>4 DEF IInv, TypeOK, LateInv, SenderCheck, rvars, history
  <2>5. CASE SenderSend
    BY <1>0, <2>5 DEF IInv, TypeOK, LateInv, SenderSend, Count, rvars
  <2>6. CASE ReceiverWake
    BY <1>0, <2>6 DEF IInv, TypeOK, LateInv, ReceiverWake, rvars, history
  <2> QED BY <2>1, <2>2, <2>3, <2>4, <2>5, <2>6 DEF L2
<1> QED BY <1>1, <1>2 DEF IInv

LEMMA StutterStep ==
    ASSUME IInv, UNCHANGED vars
    PROVE  IInv'
<1>1. BeforeApi' /\ ListenerFirst' /\ Mirror' /\ MainPlace'
  BY RuntimeUnchanged DEF vars
<1>2. TypeOK' /\ LateInv'
  BY DEF IInv, TypeOK, LateInv, vars, rvars, l2vars, history
<1> QED BY <1>1, <1>2 DEF IInv
------------------------------------------------------------------------------
\* The inductive invariant holds in every state the slave runtime reaches.
THEOREM RuntimeInvariant == Spec => []IInv
<1>1. Init => IInv
  BY InitInv
<1>2. IInv /\ [Next]_vars => IInv'
  BY GrantStep, ListenerStep, SetTargetStateStep, ConfigureStep, MainStep, L2Step, StutterStep
     DEF Next
<1> QED BY <1>1, <1>2, PTL DEF Spec

\* The variables of the slave runtime keep their types.
THEOREM RuntimeTypeCorrect == Spec => []TypeOK
<1>1. IInv => TypeOK
  BY DEF IInv
<1> QED BY <1>1, RuntimeInvariant, PTL

\* Whatever the order in which the main loop and the RPC handlers change the
\* state and wait for the status lock, the status store ends up with the state
\* of the manager or with Error, the last word of a main loop that was suspended.
THEOREM StatusOnTheSafeSide == Spec => []StatusNeverAhead
<1>1. IInv => StatusNeverAhead
  BY DEF IInv, Mirror, Announced, StatusNeverAhead
<1> QED BY <1>1, RuntimeInvariant, PTL

\* The L2 receiver applies at most one frame after Op was left.
THEOREM LateWriteBounded == Spec => []OneLateWrite
<1>1. IInv => OneLateWrite
  BY DEF IInv, LateInv, OneLateWrite
<1> QED BY <1>1, RuntimeInvariant, PTL

\* The L2 sender sends at most one cycle after SafeOp and Op were left.
THEOREM LateCycleBounded == Spec => []OneLateCycle
<1>1. IInv => OneLateCycle
  BY DEF IInv, LateInv, OneLateCycle
<1> QED BY <1>1, RuntimeInvariant, PTL
==============================================================================
