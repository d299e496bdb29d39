------------------------------- MODULE DemoRun -------------------------------
(***************************************************************************)
(* The demo as a whole (demo/src/main.rs): the master brings a temperature *)
(* slave and a valve slave through their states, runs the control loop and *)
(* shuts down.  run_master_thread is a straight line of calls, written     *)
(* here as the sequence Script; a call that fails ends it, and main then   *)
(* waits for the slave threads.                                            *)
(*                                                                         *)
(* A slave is SlaveRuntime reduced to what the master can tell: its state, *)
(* whether its API answers, whether it has its streams, and the life of    *)
(* its L2 threads.  The manager and the status share one state: they part  *)
(* for longer than a write only in Error (StatusNeverAhead), which this    *)
(* master never commands.  set_ip_config is Discovery reduced to its       *)
(* outcome.                                                                *)
(***************************************************************************)
EXTENDS Naturals, Sequences, DeviceState

CONSTANT BufferMax      \* frames the socket of the valve slave holds

ASSUME DemoAssumption == BufferMax \in Nat \ {0}

VARIABLES
    pc,             \* the call of Script the master is at
    failed,         \* run_master_thread has returned an error
    ignored,        \* an error of the shutdown calls was ignored
    mst,            \* the state of the master
    mSend, mRecv,   \* the L2 threads of the master
    slave,          \* the slaves
    sensor,         \* what the temperature sensor shows
    image,          \* the MasterProcessImage
    buffer,         \* valve commands in the socket of the valve slave
    valve           \* the valve, and where its receiver thread is

script == <<pc, failed, ignored>>
master == <<mst, mSend, mRecv>>
plant == <<sensor, image, buffer, valve>>
vars == <<script, master, slave, plant>>

T == "temperature"
V == "valve"
Slaves == {T, V}
Active == {"SafeOp", "Op"}
------------------------------------------------------------------------------
Local(do) == <<[do |-> do, who |-> "master"]>>
Both(do) == <<[do |-> do, who |-> T], [do |-> do, who |-> V]>>

\* The calls of run_master_thread, and the joins of main, in their order.
Script ==
    Local("discover") \o Both("setIp") \o Local("PreOp") \o Both("connect")
    \o Both("ask") \o Both("ask") \o Both("configure") \o Local("SafeOp")
    \o Both("setSafeOp") \o Both("seeSafeOp") \o Local("sample")
    \o Both("setOp") \o Both("seeOp") \o Local("Op") \o Local("control")
    \o Both("setShutdown") \o Both("seeShutdown") \o Local("Shutdown") \o Local("join")
    \o Both("joinSlave")

Done == Len(Script) + 1
At(do) == pc < Done /\ Script[pc].do = do
Who == Script[pc].who
MasterOver == pc >= Done - 2

Proceed == pc' = pc + 1 /\ UNCHANGED <<failed, ignored>>

\* An error returned by ?: the threads of the master are left as they are.
Fail == pc' = Done - 2 /\ failed' = TRUE /\ UNCHANGED ignored

\* let _ = of a call of the shutdown.
Ignore == pc' = pc + 1 /\ ignored' = TRUE /\ UNCHANGED failed
------------------------------------------------------------------------------
Init ==
    /\ pc = 1
    /\ failed = FALSE
    /\ ignored = FALSE
    /\ mst = "DiscoverySync"
    /\ mSend = "absent" /\ mRecv = "absent"
    /\ slave = [s \in Slaves |-> [state |-> "DiscoverySync", main |-> "runs",
                                  served |-> FALSE, streams |-> FALSE, l2 |-> "absent"]]
    /\ sensor = "low"
    /\ image = [temperature |-> "low", valve |-> "closed"]
    /\ buffer = <<>>
    /\ valve = [is |-> "closed", receiver |-> "check"]
------------------------------------------------------------------------------
(***************************************************************************)
(* The calls of the master.                                                *)
(***************************************************************************)
SetTarget(s, target) == [slave EXCEPT ![s].state = AfterSetTargetState(@, target)]

\* The rounds of discover_devices find both slaves, or do not.
Discover ==
    /\ At("discover")
    /\ Proceed \/ Fail
    /\ UNCHANGED <<master, slave, plant>>

\* set_ip_config: what it says Ok to is in force; an error leaves it open.
SetIp ==
    /\ At("setIp")
    /\ \/ slave' = SetTarget(Who, "PreOp") /\ (Proceed \/ Fail)
       \/ UNCHANGED slave /\ Fail
    /\ UNCHANGED <<master, plant>>

\* The transitions of the master; with SafeOp its L2 threads are started, if
\* the raw socket can be opened.
MasterState ==
    /\ \E target \in {"PreOp", "Op", "Shutdown"} :
          At(target) /\ mst' = AfterSetTargetState(mst, target)
    /\ Proceed
    /\ UNCHANGED <<mSend, mRecv, slave, plant>>

MasterSafeOp ==
    /\ At("SafeOp")
    /\ mst' = AfterSetTargetState(mst, "SafeOp")
    /\ \/ mSend' = "running" /\ mRecv' = "running" /\ Proceed
       \/ UNCHANGED <<mSend, mRecv>> /\ Fail
    /\ UNCHANGED <<slave, plant>>

\* configure_streams stores the streams, or answers with an error code: the
\* state is not PreOp, the layout cannot be read, the streams do not match it.
Configure(s) ==
    {[slave EXCEPT ![s].streams = stored] :
        stored \in IF slave[s].state = "PreOp" THEN BOOLEAN ELSE {slave[s].streams}}

\* What an RPC may do to a slave that serves it.  The code of the response is
\* never looked at.
Effect(do, s) ==
    CASE do = "configure" -> Configure(s)
      [] do = "setSafeOp" -> {SetTarget(s, "SafeOp")}
      [] do = "setOp" -> {SetTarget(s, "Op")}
      [] do = "setShutdown" -> {SetTarget(s, "Shutdown")}
      [] OTHER -> {slave}

Rpcs == {"connect", "ask", "configure", "setSafeOp", "setOp", "setShutdown"}

\* A mutant: the error of an RPC does not end the run.
RpcError_Ignored == Ignore

\* A call that fails ends the run, unless it is one of the shutdown.
RpcError == IF Script[pc].do \in {"setShutdown", "seeShutdown"} THEN Ignore ELSE Fail

\* connect, get_device_info and subscribe, configure_streams, set_target_state.
\* The request or its answer may be lost with the connection; a slave whose
\* thread is blocked keeps the connection open and never answers.
Rpc ==
    /\ \E do \in Rpcs : At(do)
    /\ slave[Who].main # "hung"
    /\ \/ slave[Who].served /\ slave' \in Effect(Script[pc].do, Who) /\ (Proceed \/ RpcError)
       \/ UNCHANGED slave /\ RpcError
    /\ UNCHANGED <<master, plant>>

\* wait_for_slave_state polls get_status, which may fail, until the state is
\* there or the time is over.
WaitForSlaveState ==
    /\ \E state \in {"SafeOp", "Op", "Shutdown"} :
          /\ At(IF state = "SafeOp" THEN "seeSafeOp" ELSE IF state = "Op" THEN "seeOp"
                ELSE "seeShutdown")
          /\ slave[Who].main # "hung"
          /\ \/ slave[Who].served /\ slave[Who].state = state /\ Proceed
             \/ RpcError
    /\ UNCHANGED <<master, slave, plant>>

\* A mutant: the valve is set from the first temperature before Op.
AwaitSample_Controls ==
    /\ At("sample")
    /\ image' = [image EXCEPT !.valve =
                    IF image.temperature = "high" THEN "open" ELSE "closed"]
    /\ Proceed
    /\ UNCHANGED <<master, slave, sensor, buffer, valve>>

\* The wait for a first temperature goes on after five seconds without one.
AwaitSample ==
    /\ At("sample")
    /\ Proceed
    /\ UNCHANGED <<master, slave, plant>>

\* A pass of the control loop.
Control ==
    /\ At("control")
    /\ image' = [image EXCEPT !.valve =
                    IF image.temperature = "high" THEN "open" ELSE "closed"]
    /\ UNCHANGED <<script, master, slave, sensor, buffer, valve>>

\* The sixty seconds of operation are over.
EndControl ==
    /\ At("control")
    /\ Proceed
    /\ UNCHANGED <<master, slave, plant>>

\* l2_handler.join(), and the joins of main.
Join ==
    /\ At("join")
    /\ mSend = "exited" /\ mRecv = "exited"
    /\ Proceed
    /\ UNCHANGED <<master, slave, plant>>

JoinSlave ==
    /\ At("joinSlave")
    /\ slave[Who].main \in {"done", "failed"}
    /\ Proceed
    /\ UNCHANGED <<master, slave, plant>>

Master == \/ Discover
          \/ SetIp
          \/ MasterState
          \/ MasterSafeOp
          \/ Rpc
          \/ WaitForSlaveState
          \/ AwaitSample
          \/ Join
          \/ JoinSlave
------------------------------------------------------------------------------
(***************************************************************************)
(* The slaves.                                                             *)
(***************************************************************************)

\* The main loop finds PreOp for the first time.
SlaveServes(s) ==
    /\ slave[s].main = "runs" /\ slave[s].state = "PreOp" /\ ~slave[s].served
    /\ slave' = [slave EXCEPT ![s].served = TRUE]
    /\ UNCHANGED <<script, master, plant>>

\* It finds SafeOp or Op for the first time and starts the L2 threads, or
\* cannot open the raw socket and ends.
SlaveStartL2(s) ==
    /\ slave[s].main = "runs" /\ slave[s].state \in Active /\ slave[s].l2 = "absent"
    /\ \/ slave' = [slave EXCEPT ![s].l2 = "running"]
       \/ slave' = [slave EXCEPT ![s].main = "failed", ![s].served = FALSE]
    /\ UNCHANGED <<script, master, plant>>

\* A mutant: the L2 threads look for the way back to PreOp only.
SlaveL2Exits_NotInShutdown(s) ==
    /\ slave[s].l2 = "running" /\ slave[s].state \notin Active \cup {"Shutdown"}
    /\ slave[s].main \in {"runs", "joining"}
    /\ s = V => valve.receiver = "check"
    /\ slave' = [slave EXCEPT ![s].l2 = "exited"]
    /\ UNCHANGED <<script, master, plant>>

\* The L2 threads find another state than SafeOp and Op.  A receiver looks at
\* it between two frames: the one of the valve slave is in detail below, the
\* one of the temperature slave takes as long as the next frame does.
SlaveL2Exits(s) ==
    /\ slave[s].l2 = "running" /\ slave[s].state \notin Active
    /\ slave[s].main \in {"runs", "joining"}
    /\ s = V => valve.receiver = "check"
    /\ slave' = [slave EXCEPT ![s].l2 = "exited"]
    /\ UNCHANGED <<script, master, plant>>

\* It finds Shutdown, takes the API down and joins its threads, for ever if
\* the sender still waits for a timer of the runtime.
SlaveStops(s) ==
    /\ slave[s].main = "runs" /\ slave[s].state = "Shutdown"
    /\ \/ slave' = [slave EXCEPT ![s].main = "joining", ![s].served = FALSE]
       \/ /\ slave[s].l2 = "running"
          /\ slave' = [slave EXCEPT ![s].main = "hung", ![s].served = FALSE]
    /\ UNCHANGED <<script, master, plant>>

SlaveJoined(s) ==
    /\ slave[s].main = "joining" /\ slave[s].l2 # "running"
    /\ slave' = [slave EXCEPT ![s].main = "done"]
    /\ UNCHANGED <<script, master, plant>>

SlaveMain(s) ==
    \/ SlaveServes(s)
    \/ SlaveStartL2(s)
    \/ SlaveStops(s)
    \/ SlaveJoined(s)

SlaveStep(s) == SlaveMain(s) \/ SlaveL2Exits(s)
------------------------------------------------------------------------------
(***************************************************************************)
(* Process data.  L2Stream has the frames; here the temperature arrives or *)
(* is lost, and the commands to the valve wait in the socket.              *)
(***************************************************************************)
Sense ==
    /\ sensor' \in {"low", "high"} \ {sensor}
    /\ UNCHANGED <<script, master, slave, image, buffer, valve>>

Exchanges(s) == slave[s].l2 = "running" /\ slave[s].streams /\ slave[s].state \in Active

\* A mutant: the receiver of the master looks at its state only once.
MasterReceive_NoCheck(temperature) ==
    /\ mRecv = "running"
    /\ IF temperature THEN Exchanges(T) /\ image' = [image EXCEPT !.temperature = sensor]
       ELSE UNCHANGED image
    /\ UNCHANGED <<script, master, slave, sensor, buffer, valve>>

\* The receiver of the master gets a frame, and then looks at its state.
MasterReceive(temperature) ==
    /\ mRecv = "running"
    /\ IF temperature THEN Exchanges(T) /\ image' = [image EXCEPT !.temperature = sensor]
       ELSE UNCHANGED image
    /\ mRecv' = IF mst \in Active THEN "running" ELSE "exited"
    /\ UNCHANGED <<script, mst, mSend, slave, sensor, buffer, valve>>

\* A mutant: the sender of the master is active in SafeOp only.
MasterSend_SafeOpOnly ==
    /\ mSend = "running"
    /\ mSend' = IF mst = "SafeOp" THEN "running" ELSE "exited"
    /\ buffer' = IF mst = "SafeOp" /\ slave[V].l2 = "running" /\ Len(buffer) < BufferMax
                 THEN Append(buffer, image.valve) ELSE buffer
    /\ UNCHANGED <<script, mst, mRecv, slave, sensor, image, valve>>

\* A cycle of the sender of the master: the socket of the slave takes the
\* command, is full, or is not there yet.
MasterSend ==
    /\ mSend = "running"
    /\ mSend' = IF mst \in Active THEN "running" ELSE "exited"
    /\ buffer' = IF mst \in Active /\ slave[V].l2 = "running" /\ Len(buffer) < BufferMax
                 THEN Append(buffer, image.valve) ELSE buffer
    /\ UNCHANGED <<script, mst, mRecv, slave, sensor, image, valve>>

\* The receiver of the valve slave waits for a frame in Op; in SafeOp it sleeps
\* and the frames wait.
ValveCheck ==
    /\ slave[V].l2 = "running" /\ valve.receiver = "check" /\ slave[V].state = "Op"
    /\ valve' = [valve EXCEPT !.receiver = "next"]
    /\ UNCHANGED <<script, master, slave, sensor, image, buffer>>

\* A frame is there: a command, or a frame of another protocol.
ValveFrame ==
    /\ valve.receiver = "next"
    /\ \/ /\ buffer # <<>>
          /\ buffer' = Tail(buffer)
          /\ valve' = [receiver |-> "check",
                       is |-> IF slave[V].streams THEN Head(buffer) ELSE valve.is]
       \/ buffer = <<>> /\ valve' = [valve EXCEPT !.receiver = "check"] /\ UNCHANGED buffer
    /\ UNCHANGED <<script, master, slave, sensor, image>>

Data == \/ Sense
        \/ Control
        \/ \E temperature \in BOOLEAN : MasterReceive(temperature)
        \/ MasterSend
        \/ ValveCheck
        \/ ValveFrame

\* The process exits.
Exit == pc = Done /\ UNCHANGED vars
------------------------------------------------------------------------------
Next == Master \/ EndControl \/ (\E s \in Slaves : SlaveStep(s)) \/ Data \/ Exit

\* Threads are scheduled, timers expire, and the frames of a sender that goes on
\* arrive again and again.  Nothing is assumed of the sensor, of the end of the
\* operation, or of frames that nobody in the demo sends: a receiver whose
\* peers have stopped may wait for ever.
Fairness ==
    /\ WF_vars(Master)
    /\ \A s \in Slaves : WF_vars(SlaveMain(s))
    /\ WF_vars(Control)
    /\ WF_vars(MasterReceive(TRUE))
    /\ WF_vars(MasterSend)
    /\ WF_vars(ValveCheck)
    /\ WF_vars(buffer # <<>> /\ ValveFrame)

Spec == Init /\ [][Next]_vars /\ Fairness
------------------------------------------------------------------------------
(***************************************************************************)
(* Properties.                                                             *)
(***************************************************************************)

\* Every variable has its type; the socket keeps to its size.
TypeOK ==
    /\ pc \in 1..Done
    /\ failed \in BOOLEAN
    /\ ignored \in BOOLEAN
    /\ mst \in DeviceStates
    /\ {mSend, mRecv} \subseteq {"absent", "running", "exited"}
    /\ slave \in [Slaves -> [state: DeviceStates,
                              main: {"runs", "joining", "hung", "done", "failed"},
                              served: BOOLEAN, streams: BOOLEAN,
                              l2: {"absent", "running", "exited"}]]
    /\ sensor \in {"low", "high"}
    /\ image \in [temperature: {"low", "high"}, valve: {"open", "closed"}]
    /\ buffer \in Seq({"open", "closed"})
    /\ Len(buffer) <= BufferMax
    /\ valve \in [is: {"open", "closed"}, receiver: {"check", "next"}]

\* Whichever calls fail, and although no response code is looked at: a slave
\* enters Op only when both slaves are in SafeOp or Op and the master is in
\* SafeOp.  Whether a slave has its streams is another matter: see OpHasStreams.
OpInLockstep ==
    [][\A s \in Slaves : slave[s].state # "Op" /\ slave'[s].state = "Op" =>
            /\ mst = "SafeOp"
            /\ \A r \in Slaves : slave[r].state \in Active]_vars

\* A slave is in Op with the streams the master has configured.  This does not
\* hold: configure_streams may answer with an error code, which the master
\* does not read.
OpHasStreams == \A s \in Slaves : slave[s].state = "Op" => slave[s].streams

\* The commands that waited in the socket through SafeOp and are applied, old,
\* when the valve slave enters Op do not open the valve: it is closed until
\* the master is in Op.
ClosedUntilOp == valve.is = "open" => mst \in {"Op", "Shutdown"}

\* While both slaves exchange and the control loop runs, the valve follows a
\* temperature that stays, behind whatever commands are in the socket.
ValveFollows ==
    \A level \in {"low", "high"} :
        <>[](At("control") /\ sensor = level /\ Exchanges(T) /\ Exchanges(V))
            => <>[](valve.is = IF level = "high" THEN "open" ELSE "closed")

\* Frames of other stations keep arriving on all three interfaces, also when
\* the senders of the demo have stopped.  The code does not see to that.
Traffic ==
    /\ WF_vars(MasterReceive(FALSE))
    /\ WF_vars(ValveFrame)
    /\ \A s \in Slaves : WF_vars(SlaveL2Exits(s))

Hung == \E s \in Slaves : slave[s].main = "hung"
MasterReturns == <>(MasterOver \/ Hung)

\* When the operation ends, every call of the master returns, and so does the
\* join of its threads, if frames keep arriving at its receiver, unless a
\* slave hangs in its own shutdown and leaves the master waiting for an answer.
MasterEnds == Traffic /\ []<>~At("control") => MasterReturns

\* The same on a link that falls silent with the slaves.  This does not hold:
\* the receiver of the master waits in receiver.next(), and the join for it.
MasterEndsQuietly == []<>~At("control") => MasterReturns

\* main does not return if a slave hangs in the join of its own threads, or if
\* the master has given up without telling a slave to shut down.  Where frames
\* keep arriving nothing else keeps it: not a call that failed or whose answer
\* was lost after it had its effect, nor a slave that could not open its socket.
Stranded ==
    MasterOver /\ \E s \in Slaves : slave[s].main = "runs" /\ slave[s].state # "Shutdown"
DemoCompletes ==
    Traffic /\ []<>~At("control") => <>(pc = Done) \/ <>[](Hung \/ Stranded)
==============================================================================
