---------------------------- MODULE DemoRunProofs ----------------------------
(***************************************************************************)
(* Proofs about DemoRun for a socket of any size.                          *)
(***************************************************************************)
EXTENDS DemoRun, TLAPS

SlaveRecords == [state: DeviceStates, main: {"runs", "joining", "hung", "done", "failed"},
                 served: BOOLEAN, streams: BOOLEAN, l2: {"absent", "running", "exited"}]
------------------------------------------------------------------------------
(***************************************************************************)
(* The script, call by call.                                               *)
(***************************************************************************)

\* How many calls there are.
LEMMA Length == Len(Script) = 32 /\ Done = 33
BY DEF Done, Script, Local, Both

\* The calls in their order.
LEMMA Calls ==
    /\ Script[1].do = "discover"
    /\ Script[2].do = "setIp" /\ Script[2].who = T
    /\ Script[3].do = "setIp" /\ Script[3].who = V
    /\ Script[4].do = "PreOp"
    /\ Script[5].do = "connect" /\ Script[5].who = T
    /\ Script[6].do = "connect" /\ Script[6].who = V
    /\ Script[7].do = "ask" /\ Script[7].who = T
    /\ Script[8].do = "ask" /\ Script[8].who = V
    /\ Script[9].do = "ask" /\ Script[9].who = T
    /\ Script[10].do = "ask" /\ Script[10].who = V
    /\ Script[11].do = "configure" /\ Script[11].who = T
    /\ Script[12].do = "configure" /\ Script[12].who = V
    /\ Script[13].do = "SafeOp"
    /\ Script[14].do = "setSafeOp" /\ Script[14].who = T
    /\ Script[15].do = "setSafeOp" /\ Script[15].who = V
    /\ Script[16].do = "seeSafeOp" /\ Script[16].who = T
    /\ Script[17].do = "seeSafeOp" /\ Script[17].who = V
    /\ Script[18].do = "sample"
    /\ Script[19].do = "setOp" /\ Script[19].who = T
    /\ Script[20].do = "setOp" /\ Script[20].who = V
    /\ Script[21].do = "seeOp" /\ Script[21].who = T
    /\ Script[22].do = "seeOp" /\ Script[22].who = V
    /\ Script[23].do = "Op"
    /\ Script[24].do = "control"
    /\ Script[25].do = "setShutdown" /\ Script[25].who = T
    /\ Script[26].do = "setShutdown" /\ Script[26].who = V
    /\ Script[27].do = "seeShutdown" /\ Script[27].who = T
    /\ Script[28].do = "seeShutdown" /\ Script[28].who = V
    /\ Script[29].do = "Shutdown"
    /\ Script[30].do = "join"
    /\ Script[31].do = "joinSlave" /\ Script[31].who = T
    /\ Script[32].do = "joinSlave" /\ Script[32].who = V
<1>1. /\ Script[1].do = "discover"
      /\ Script[2].do = "setIp" /\ Script[2].who = T
      /\ Script[3].do = "setIp" /\ Script[3].who = V
      /\ Script[4].do = "PreOp"
      /\ Script[5].do = "connect" /\ Script[5].who = T
      /\ Script[6].do = "connect" /\ Script[6].who = V
      /\ Script[7].do = "ask" /\ Script[7].who = T
      /\ Script[8].do = "ask" /\ Script[8].who = V
  BY DEF Script, Local, Both
<1>2. /\ Script[9].do = "ask" /\ Script[9].who = T
      /\ Script[10].do = "ask" /\ Script[10].who = V
      /\ Script[11].do = "configure" /\ Script[11].who = T
      /\ Script[12].do = "configure" /\ Script[12].who = V
      /\ Script[13].do = "SafeOp"
      /\ Script[14].do = "setSafeOp" /\ Script[14].who = T
      /\ Script[15].do = "setSafeOp" /\ Script[15].who = V
      /\ Script[16].do = "seeSafeOp" /\ Script[16].who = T
  BY DEF Script, Local, Both
<1>3. /\ Script[17].do = "seeSafeOp" /\ Script[17].who = V
      /\ Script[18].do = "sample"
      /\ Script[19].do = "setOp" /\ Script[19].who = T
      /\ Script[20].do = "setOp" /\ Script[20].who = V
      /\ Script[21].do = "seeOp" /\ Script[21].who = T
      /\ Script[22].do = "seeOp" /\ Script[22].who = V
      /\ Script[23].do = "Op"
      /\ Script[24].do = "control"
  BY DEF Script, Local, Both
<1>4. /\ Script[25].do = "setShutdown" /\ Script[25].who = T
      /\ Script[26].do = "setShutdown" /\ Script[26].who = V
      /\ Script[27].do = "seeShutdown" /\ Script[27].who = T
      /\ Script[28].do = "seeShutdown" /\ Script[28].who = V
      /\ Script[29].do = "Shutdown"
      /\ Script[30].do = "join"
      /\ Script[31].do = "joinSlave" /\ Script[31].who = T
      /\ Script[32].do = "joinSlave" /\ Script[32].who = V
  BY DEF Script, Local, Both
<1> QED
  BY <1>1, <1>2, <1>3, <1>4

\* The values pc has at a call.
LEMMA Positions ==
    ASSUME TypeOK
    PROVE  /\ pc \in Nat /\ 1 <= pc /\ pc <= 33
           /\ At("discover") <=> pc = 1
           /\ At("setIp") <=> pc \in {2, 3}
           /\ At("PreOp") <=> pc = 4
           /\ At("connect") <=> pc \in {5, 6}
           /\ At("ask") <=> pc \in {7, 8, 9, 10}
           /\ At("configure") <=> pc \in {11, 12}
           /\ At("SafeOp") <=> pc = 13
           /\ At("setSafeOp") <=> pc \in {14, 15}
           /\ At("seeSafeOp") <=> pc \in {16, 17}
           /\ At("sample") <=> pc = 18
           /\ At("setOp") <=> pc \in {19, 20}
           /\ At("seeOp") <=> pc \in {21, 22}
           /\ At("Op") <=> pc = 23
           /\ At("control") <=> pc = 24
           /\ At("setShutdown") <=> pc \in {25, 26}
           /\ At("seeShutdown") <=> pc \in {27, 28}
           /\ At("Shutdown") <=> pc = 29
           /\ At("join") <=> pc = 30
           /\ At("joinSlave") <=> pc \in {31, 32}
<1>1. pc \in Nat /\ 1 <= pc /\ pc <= 33 /\ Done = 33
  <2>1. pc \in 1..Done
    BY DEF TypeOK
  <2> QED
    BY <2>1, Length
<1>2. At("discover") <=> pc = 1
  BY <1>1, Calls DEF At
<1>3. At("setIp") <=> pc \in {2, 3}
  BY <1>1, Calls DEF At
<1>4. At("PreOp") <=> pc = 4
  BY <1>1, Calls DEF At
<1>5. At("connect") <=> pc \in {5, 6}
  BY <1>1, Calls DEF At
<1>6. At("ask") <=> pc \in {7, 8, 9, 10}
  BY <1>1, Calls DEF At
<1>7. At("configure") <=> pc \in {11, 12}
  BY <1>1, Calls DEF At
<1>8. At("SafeOp") <=> pc = 13
  BY <1>1, Calls DEF At
<1>9. At("setSafeOp") <=> pc \in {14, 15}
  BY <1>1, Calls DEF At
<1>10. At("seeSafeOp") <=> pc \in {16, 17}
  BY <1>1, Calls DEF At
<1>11. At("sample") <=> pc = 18
  BY <1>1, Calls DEF At
<1>12. At("setOp") <=> pc \in {19, 20}
  BY <1>1, Calls DEF At
<1>13. At("seeOp") <=> pc \in {21, 22}
  BY <1>1, Calls DEF At
<1>14. At("Op") <=> pc = 23
  BY <1>1, Calls DEF At
<1>15. At("control") <=> pc = 24
  BY <1>1, Calls DEF At
<1>16. At("setShutdown") <=> pc \in {25, 26}
  BY <1>1, Calls DEF At
<1>17. At("seeShutdown") <=> pc \in {27, 28}
  BY <1>1, Calls DEF At
<1>18. At("Shutdown") <=> pc = 29
  BY <1>1, Calls DEF At
<1>19. At("join") <=> pc = 30
  BY <1>1, Calls DEF At
<1>20. At("joinSlave") <=> pc \in {31, 32}
  BY <1>1, Calls DEF At
<1> QED
  BY <1>1, <1>2, <1>3, <1>4, <1>5, <1>6, <1>7, <1>8, <1>9, <1>10, <1>11, <1>12,
     <1>13, <1>14, <1>15, <1>16, <1>17, <1>18, <1>19, <1>20
------------------------------------------------------------------------------
(***************************************************************************)
(* The inductive invariant.                                                *)
(***************************************************************************)

\* The state of the master follows from the call it is at, until the run fails
\* or ends.
MasterInv ==
    /\ pc <= 4 => mst = "DiscoverySync"
    /\ pc \in 5..13 => mst = "PreOp"
    /\ pc \in 14..23 => mst = "SafeOp"
    /\ pc \in 24..29 => mst = "Op"
    /\ pc = 30 => mst = "Shutdown"

\* So does the state of a slave.  Every call to the valve slave comes right
\* behind the one to the temperature slave.
Turn(s) == IF s = T THEN 0 ELSE 1

SlaveInv ==
    \A s \in Slaves :
        /\ pc <= 2 + Turn(s) => slave[s].state = "DiscoverySync"
        /\ pc \in 3 + Turn(s)..14 + Turn(s) => slave[s].state = "PreOp"
        /\ pc \in 15 + Turn(s)..19 + Turn(s) => slave[s].state = "SafeOp"
        /\ pc \in 20 + Turn(s)..25 + Turn(s) => slave[s].state = "Op"

\* No command to open is anywhere before the master is in Op.
Open == image.valve = "open" \/ valve.is = "open" \/ (\E i \in 1..Len(buffer) : buffer[i] = "open")
PlantInv == Open => mst \in {"Op", "Shutdown"}

IInv == TypeOK /\ MasterInv /\ SlaveInv /\ PlantInv
------------------------------------------------------------------------------
(***************************************************************************)
(* What the steps do.                                                      *)
(***************************************************************************)

\* The transitions of the script are allowed.
LEMMA Transitions ==
    /\ AfterSetTargetState("DiscoverySync", "PreOp") = "PreOp"
    /\ AfterSetTargetState("PreOp", "SafeOp") = "SafeOp"
    /\ AfterSetTargetState("SafeOp", "Op") = "Op"
    /\ AfterSetTargetState("Op", "Shutdown") = "Shutdown"
    /\ \A a, b \in DeviceStates : AfterSetTargetState(a, b) \in {a, b}
BY DEF AfterSetTargetState, MayTransition, Edges

\* What set_target_state leaves on a slave.
LEMMA TargetSet ==
    ASSUME TypeOK, NEW s \in Slaves, NEW target \in DeviceStates
    PROVE  /\ SetTarget(s, target) \in [Slaves -> SlaveRecords]
           /\ SetTarget(s, target)[s].state = AfterSetTargetState(slave[s].state, target)
           /\ \A r \in Slaves \ {s} : SetTarget(s, target)[r] = slave[r]
<1> DEFINE state == AfterSetTargetState(slave[s].state, target)
<1>1. slave \in [Slaves -> SlaveRecords] /\ slave[s] \in SlaveRecords
  BY DEF TypeOK, SlaveRecords
<1>2. state \in DeviceStates
  BY <1>1, Transitions DEF SlaveRecords
<1>3. SetTarget(s, target) = [slave EXCEPT ![s] = [slave[s] EXCEPT !.state = state]]
  BY DEF SetTarget
<1> HIDE DEF state
<1>4. [slave[s] EXCEPT !.state = state] \in SlaveRecords
  BY <1>1, <1>2 DEF SlaveRecords
<1> QED
  BY <1>1, <1>3, <1>4 DEF SlaveRecords, state

\* What configure_streams leaves on a slave.
LEMMA StreamsSet ==
    ASSUME TypeOK, NEW s \in Slaves, NEW new \in Configure(s)
    PROVE  /\ new \in [Slaves -> SlaveRecords]
           /\ \A r \in Slaves : new[r].state = slave[r].state
           /\ \A r \in Slaves \ {s} : new[r] = slave[r]
<1>1. slave \in [Slaves -> SlaveRecords] /\ slave[s] \in SlaveRecords
  BY DEF TypeOK, SlaveRecords
<1>2. PICK stored \in BOOLEAN : new = [slave EXCEPT ![s].streams = stored]
  BY <1>1 DEF Configure, SlaveRecords
<1> QED
  BY <1>1, <1>2 DEF SlaveRecords

\* An RPC and its outcomes.
LEMMA RpcStep ==
    ASSUME TypeOK, Rpc
    PROVE  /\ UNCHANGED <<master, plant>>
           /\ failed' \in BOOLEAN /\ ignored' \in BOOLEAN
           /\ Who \in Slaves
           /\ \/ pc' = 31 /\ slave' = slave
              \/ /\ At("connect") \/ At("ask")
                 /\ pc' \in {pc + 1, 31} /\ slave' = slave
              \/ /\ At("configure") /\ pc' \in {pc + 1, 31}
                 /\ slave' \in Configure(Who)
              \/ At("setSafeOp") /\ pc' \in {pc + 1, 31} /\ slave' = SetTarget(Who, "SafeOp")
              \/ At("setOp") /\ pc' \in {pc + 1, 31} /\ slave' = SetTarget(Who, "Op")
              \/ /\ At("setShutdown") /\ pc' = pc + 1
                 /\ slave' = slave \/ slave' = SetTarget(Who, "Shutdown")
<1>1. /\ UNCHANGED <<master, plant>>
      /\ \/ slave' \in Effect(Script[pc].do, Who) /\ (Proceed \/ RpcError)
         \/ UNCHANGED slave /\ RpcError
  BY DEF Rpc
<1>2. PICK do \in Rpcs : At(do)
  BY DEF Rpc
<1>3. Script[pc].do = do
  BY <1>2 DEF At
<1>4. failed' \in BOOLEAN /\ ignored' \in BOOLEAN
  BY <1>1 DEF Proceed, RpcError, Fail, Ignore, TypeOK
<1>5. Who \in Slaves
  BY <1>2, Positions, Calls DEF Rpcs, Who, Slaves
<1>6. /\ do # "setShutdown" => (RpcError => pc' = 31)
      /\ do = "setShutdown" => (RpcError => pc' = pc + 1)
      /\ Proceed => pc' = pc + 1
  BY <1>2, <1>3, Length DEF Rpcs, RpcError, Fail, Ignore, Proceed
<1>7. CASE do \in {"connect", "ask"}
  BY <1>1, <1>2, <1>3, <1>4, <1>5, <1>6, <1>7 DEF Effect
<1>8. CASE do = "configure"
  BY <1>1, <1>2, <1>3, <1>4, <1>5, <1>6, <1>8 DEF Effect
<1>9. CASE do = "setSafeOp"
  BY <1>1, <1>2, <1>3, <1>4, <1>5, <1>6, <1>9 DEF Effect
<1>10. CASE do = "setOp"
  BY <1>1, <1>2, <1>3, <1>4, <1>5, <1>6, <1>10 DEF Effect
<1>11. CASE do = "setShutdown"
  BY <1>1, <1>2, <1>3, <1>4, <1>5, <1>6, <1>11 DEF Effect
<1> QED
  BY <1>7, <1>8, <1>9, <1>10, <1>11 DEF Rpcs
------------------------------------------------------------------------------
(***************************************************************************)
(* The invariant is preserved.                                             *)
(***************************************************************************)

\* The master is about to look for the slaves.
LEMMA InitInv == Init => IInv
<1> SUFFICES ASSUME Init PROVE IInv
  OBVIOUS
<1>1. TypeOK
  <2>1. pc \in 1..Done /\ Len(buffer) <= BufferMax /\ buffer \in Seq({"open", "closed"})
    BY Length, DemoAssumption DEF Init
  <2> QED
    BY <2>1 DEF Init, TypeOK, DeviceStates
<1>2. pc = 1 /\ mst = "DiscoverySync" /\ ~Open /\ \A s \in Slaves : slave[s].state = "DiscoverySync"
  BY DEF Init, Open
<1> QED
  BY <1>1, <1>2 DEF IInv, MasterInv, SlaveInv, PlantInv, Turn

\* A step that moves neither the script nor a state.
LEMMA StatesKept ==
    ASSUME IInv, pc' = pc, mst' = mst,
           \A s \in Slaves : slave'[s].state = slave[s].state
    PROVE  MasterInv' /\ SlaveInv'
BY DEF IInv, MasterInv, SlaveInv

\* A run that has failed makes no further call.
LEMMA RunOver ==
    ASSUME pc' = 31
    PROVE  MasterInv' /\ SlaveInv'
BY DEF MasterInv, SlaveInv, Turn

\* A step that leaves the plant and the master alone.
LEMMA PlantKept ==
    ASSUME IInv, UNCHANGED plant, mst' \in {mst, "Op", "Shutdown"} \/ ~Open
    PROVE  PlantInv'
BY DEF IInv, PlantInv, Open, plant

\* A call that changes no state, and none is due: configure_streams is one.
LEMMA CallKept ==
    ASSUME IInv, pc \notin {2, 3, 4, 13, 14, 15, 19, 20, 23, 29},
           pc' = pc + 1, UNCHANGED mst, \A s \in Slaves : slave'[s].state = slave[s].state
    PROVE  MasterInv' /\ SlaveInv'
<1>1. pc \in Nat /\ \A s \in Slaves : Turn(s) \in {0, 1}
  BY Positions DEF IInv, Turn
<1>2. MasterInv'
  BY <1>1 DEF IInv, MasterInv
<1>3. SlaveInv'
  <2> SUFFICES ASSUME NEW s \in Slaves
               PROVE  /\ pc + 1 <= 2 + Turn(s) => slave'[s].state = "DiscoverySync"
                      /\ pc + 1 \in 3 + Turn(s)..14 + Turn(s) => slave'[s].state = "PreOp"
                      /\ pc + 1 \in 15 + Turn(s)..19 + Turn(s) => slave'[s].state = "SafeOp"
                      /\ pc + 1 \in 20 + Turn(s)..25 + Turn(s) => slave'[s].state = "Op"
    BY DEF SlaveInv
  <2> QED
    BY <1>1 DEF IInv, SlaveInv
<1> QED
  BY <1>2, <1>3

\* A call that changes the state of a slave.
LEMMA SlaveCalled ==
    ASSUME IInv, pc' = pc + 1, mst' = mst, NEW s \in Slaves,
           \A r \in Slaves \ {s} : slave'[r] = slave[r],
           \/ pc = 2 + Turn(s) /\ slave'[s].state = "PreOp"
           \/ pc = 14 + Turn(s) /\ slave'[s].state = "SafeOp"
           \/ pc = 19 + Turn(s) /\ slave'[s].state = "Op"
           \/ pc = 25 + Turn(s)
    PROVE  MasterInv' /\ SlaveInv'
<1>1. pc \in Nat /\ Turn(s) \in {0, 1} /\ \A r \in Slaves \ {s} : Turn(r) = 1 - Turn(s)
  BY Positions DEF IInv, Turn, Slaves, T, V
<1>2. MasterInv'
  BY <1>1 DEF IInv, MasterInv
<1>3. SlaveInv'
  <2> SUFFICES ASSUME NEW r \in Slaves
               PROVE  /\ pc + 1 <= 2 + Turn(r) => slave'[r].state = "DiscoverySync"
                      /\ pc + 1 \in 3 + Turn(r)..14 + Turn(r) => slave'[r].state = "PreOp"
                      /\ pc + 1 \in 15 + Turn(r)..19 + Turn(r) => slave'[r].state = "SafeOp"
                      /\ pc + 1 \in 20 + Turn(r)..25 + Turn(r) => slave'[r].state = "Op"
    BY DEF SlaveInv
  <2>1. /\ pc <= 2 + Turn(r) => slave[r].state = "DiscoverySync"
        /\ pc \in 3 + Turn(r)..14 + Turn(r) => slave[r].state = "PreOp"
        /\ pc \in 15 + Turn(r)..19 + Turn(r) => slave[r].state = "SafeOp"
        /\ pc \in 20 + Turn(r)..25 + Turn(r) => slave[r].state = "Op"
    BY DEF IInv, SlaveInv
  <2>2. CASE r = s
    BY <1>1, <2>1, <2>2
  <2>3. CASE r # s
    BY <1>1, <2>1, <2>3
  <2> QED
    BY <2>2, <2>3
<1> QED
  BY <1>2, <1>3

\* The position after a call that succeeds, fails or is ignored.
LEMMA Moves ==
    ASSUME TypeOK, Proceed \/ Fail \/ Ignore
    PROVE  /\ (Proceed \/ Ignore) => pc' = pc + 1
           /\ Fail => pc' = 31
           /\ failed' \in BOOLEAN /\ ignored' \in BOOLEAN
<1>1. (Proceed \/ Ignore) => pc' = pc + 1
  BY DEF Proceed, Ignore
<1>2. Fail => pc' = 31
  BY Length DEF Fail
<1>3. failed' \in BOOLEAN /\ ignored' \in BOOLEAN
  BY DEF Proceed, Fail, Ignore, TypeOK
<1> QED
  BY <1>1, <1>2, <1>3

\* The types of the script.
LEMMA ScriptTypes ==
    ASSUME TypeOK, pc' = 31 \/ (pc' = pc + 1 /\ pc <= 32), failed' \in BOOLEAN, ignored' \in BOOLEAN,
           mst' \in DeviceStates, {mSend', mRecv'} \subseteq {"absent", "running", "exited"},
           slave' \in [Slaves -> SlaveRecords], UNCHANGED plant
    PROVE  TypeOK'
<1>1. pc' \in 1..Done
  BY Positions, Length
<1> QED
  BY <1>1 DEF TypeOK, SlaveRecords, plant

\* The calls that change nothing: discover_devices, wait_for_slave_state, the
\* wait for a temperature, the end of the control loop and the joins.
LEMMA PlainCallInv ==
    ASSUME IInv, Discover \/ WaitForSlaveState \/ AwaitSample \/ EndControl \/ Join \/ JoinSlave
    PROVE  IInv'
<1>1. TypeOK /\ UNCHANGED <<master, slave, plant>>
  BY DEF IInv, Discover, WaitForSlaveState, AwaitSample, EndControl, Join, JoinSlave
<1>2. pc \in {1, 16, 17, 18, 21, 22, 24, 27, 28, 30, 31, 32}
  BY <1>1, Positions DEF Discover, WaitForSlaveState, AwaitSample, EndControl, Join, JoinSlave
<1>3. Proceed \/ Fail \/ Ignore
  BY DEF Discover, WaitForSlaveState, AwaitSample, EndControl, Join, JoinSlave, RpcError
<1>4. pc' \in {pc + 1, 31} /\ failed' \in BOOLEAN /\ ignored' \in BOOLEAN
  BY <1>1, <1>3, Moves
<1>5. MasterInv' /\ SlaveInv'
  BY <1>1, <1>2, <1>4, CallKept, RunOver DEF master
<1>6. PlantInv'
  BY <1>1, PlantKept DEF master
<1>7. TypeOK'
  BY <1>1, <1>2, <1>4, ScriptTypes DEF master, TypeOK, SlaveRecords
<1> QED
  BY <1>5, <1>6, <1>7 DEF IInv

\* set_ip_config takes a slave to PreOp, or the run ends.
LEMMA SetIpInv ==
    ASSUME IInv, SetIp
    PROVE  IInv'
<1>1. /\ TypeOK /\ pc \in {2, 3} /\ UNCHANGED <<master, plant>>
      /\ \/ slave' = SetTarget(Who, "PreOp") /\ (Proceed \/ Fail)
         \/ UNCHANGED slave /\ Fail
  BY Positions DEF IInv, SetIp
<1>2. Who \in Slaves /\ pc = 2 + Turn(Who)
  BY <1>1, Calls DEF Who, Turn, Slaves, T, V
<1>3. pc' \in {pc + 1, 31} /\ failed' \in BOOLEAN /\ ignored' \in BOOLEAN
  BY <1>1, Moves
<1>4. /\ SetTarget(Who, "PreOp") \in [Slaves -> SlaveRecords]
      /\ SetTarget(Who, "PreOp")[Who].state = "PreOp"
      /\ \A r \in Slaves \ {Who} : SetTarget(Who, "PreOp")[r] = slave[r]
  <2>1. slave[Who].state = "DiscoverySync" /\ "PreOp" \in DeviceStates
    BY <1>1, <1>2 DEF IInv, SlaveInv, DeviceStates, Turn
  <2>2. ASSUME NEW s \in Slaves, slave[s].state = "DiscoverySync"
        PROVE  /\ SetTarget(s, "PreOp") \in [Slaves -> SlaveRecords]
               /\ SetTarget(s, "PreOp")[s].state = "PreOp"
               /\ \A r \in Slaves \ {s} : SetTarget(s, "PreOp")[r] = slave[r]
    BY <1>1, <2>1, <2>2, TargetSet, Transitions
  <2> QED
    BY <1>2, <2>1, <2>2
<1>5. CASE pc' = 31
  BY <1>1, <1>3, <1>4, <1>5, RunOver, PlantKept, ScriptTypes DEF IInv, master, TypeOK, SlaveRecords
<1>6. CASE pc' = pc + 1
  <2>1. slave' = SetTarget(Who, "PreOp")
    BY <1>1, <1>6, Moves
  <2>2. MasterInv' /\ SlaveInv'
    BY <1>1, <1>2, <1>4, <1>6, <2>1, SlaveCalled DEF master
  <2>3. PlantInv' /\ TypeOK'
    BY <1>1, <1>3, <1>4, <1>6, <2>1, PlantKept, ScriptTypes DEF master, TypeOK, SlaveRecords
  <2> QED
    BY <2>2, <2>3 DEF IInv
<1> QED
  BY <1>3, <1>5, <1>6

\* A transition of the master.
LEMMA MasterStateInv ==
    ASSUME IInv, MasterState
    PROVE  IInv'
<1>1. /\ TypeOK /\ pc' = pc + 1 /\ UNCHANGED <<mSend, mRecv, slave, plant>>
      /\ failed' \in BOOLEAN /\ ignored' \in BOOLEAN
  BY Moves DEF IInv, MasterState
<1>2. \/ pc = 4 /\ mst' = AfterSetTargetState(mst, "PreOp")
      \/ pc = 23 /\ mst' = AfterSetTargetState(mst, "Op")
      \/ pc = 29 /\ mst' = AfterSetTargetState(mst, "Shutdown")
  BY <1>1, Positions DEF MasterState
<1>3. \/ pc = 4 /\ mst' = "PreOp" /\ mst = "DiscoverySync"
      \/ pc = 23 /\ mst' = "Op"
      \/ pc = 29 /\ mst' = "Shutdown"
  BY <1>2, Transitions DEF IInv, MasterInv
<1>4. MasterInv'
  BY <1>1, <1>3 DEF MasterInv
<1>5. SlaveInv'
  BY <1>1, <1>3 DEF IInv, SlaveInv, Turn
<1>6. PlantInv'
  BY <1>1, <1>3, PlantKept DEF IInv, PlantInv
<1>7. TypeOK'
  BY <1>1, <1>3, ScriptTypes DEF TypeOK, SlaveRecords, DeviceStates
<1> QED
  BY <1>4, <1>5, <1>6, <1>7 DEF IInv

\* The one that starts its L2 threads.
LEMMA MasterSafeOpInv ==
    ASSUME IInv, MasterSafeOp
    PROVE  IInv'
<1>1. /\ TypeOK /\ pc = 13 /\ UNCHANGED <<slave, plant>> /\ (Proceed \/ Fail)
      /\ mst' = AfterSetTargetState(mst, "SafeOp")
      /\ {mSend', mRecv'} \subseteq {"absent", "running", "exited"}
  BY Positions DEF IInv, MasterSafeOp, TypeOK
<1>2. mst = "PreOp" /\ mst' = "SafeOp" /\ ~Open
  BY <1>1, Transitions DEF IInv, MasterInv, PlantInv
<1>3. pc' \in {14, 31} /\ failed' \in BOOLEAN /\ ignored' \in BOOLEAN
  BY <1>1, Moves
<1>4. MasterInv' /\ SlaveInv'
  <2>1. CASE pc' = 14
    BY <1>1, <1>2, <2>1 DEF IInv, MasterInv, SlaveInv, Turn
  <2> QED
    BY <1>3, <2>1, RunOver
<1>5. PlantInv'
  BY <1>1, <1>2, PlantKept
<1>6. TypeOK'
  BY <1>1, <1>2, <1>3, ScriptTypes DEF TypeOK, SlaveRecords, DeviceStates
<1> QED
  BY <1>4, <1>5, <1>6 DEF IInv

\* An RPC takes a slave to the next state, or the run ends.
LEMMA RpcInv ==
    ASSUME IInv, Rpc
    PROVE  IInv'
<1> DEFINE s == Who
<1>1. TypeOK /\ UNCHANGED <<master, plant>> /\ failed' \in BOOLEAN /\ ignored' \in BOOLEAN /\ s \in Slaves
  BY RpcStep DEF IInv
<1>2. \/ pc' = 31 /\ slave' = slave
      \/ /\ At("connect") \/ At("ask")
         /\ pc' \in {pc + 1, 31} /\ slave' = slave
      \/ At("configure") /\ pc' \in {pc + 1, 31} /\ slave' \in Configure(s)
      \/ At("setSafeOp") /\ pc' \in {pc + 1, 31} /\ slave' = SetTarget(s, "SafeOp")
      \/ At("setOp") /\ pc' \in {pc + 1, 31} /\ slave' = SetTarget(s, "Op")
      \/ /\ At("setShutdown") /\ pc' = pc + 1
         /\ slave' = slave \/ slave' = SetTarget(s, "Shutdown")
  BY <1>1, RpcStep
<1>3. /\ At("connect") \/ At("ask") => pc \in 5..10
      /\ At("configure") => pc = 11 + Turn(s)
      /\ At("setSafeOp") => pc = 14 + Turn(s)
      /\ At("setOp") => pc = 19 + Turn(s)
      /\ At("setShutdown") => pc = 25 + Turn(s)
  <2>1. pc \in {11, 12, 14, 15, 19, 20, 25, 26} => s = (IF pc \in {11, 14, 19, 25} THEN T ELSE V)
    BY Calls DEF Who
  <2> QED
    BY <1>1, <2>1, Positions DEF Turn, T, V
<1>4. slave' \in Configure(s) => /\ slave' \in [Slaves -> SlaveRecords]
                                 /\ \A r \in Slaves : slave'[r].state = slave[r].state
  BY <1>1, StreamsSet
<1>5. ASSUME NEW target \in DeviceStates
      PROVE  /\ SetTarget(s, target) \in [Slaves -> SlaveRecords]
             /\ SetTarget(s, target)[s].state = AfterSetTargetState(slave[s].state, target)
             /\ \A r \in Slaves \ {s} : SetTarget(s, target)[r] = slave[r]
  BY <1>1, TargetSet
<1>6. {"SafeOp", "Op", "Shutdown"} \subseteq DeviceStates /\ slave \in [Slaves -> SlaveRecords]
  BY <1>1 DEF DeviceStates, TypeOK, SlaveRecords
<1>7. /\ pc = 14 + Turn(s) => slave[s].state = "PreOp"
      /\ pc = 19 + Turn(s) => slave[s].state = "SafeOp"
  BY <1>1 DEF IInv, SlaveInv, Turn
<1>8. PlantInv'
  BY <1>1, PlantKept DEF master
<1>9. slave' \in [Slaves -> SlaveRecords]
  BY <1>2, <1>4, <1>5, <1>6
<1>10. TypeOK'
  <2>1. pc' = 31 \/ (pc' = pc + 1 /\ pc <= 32)
    BY <1>2, <1>3 DEF Turn
  <2> QED
    BY <1>1, <1>9, <2>1, ScriptTypes DEF TypeOK, master
<1> HIDE DEF s
<1>11. MasterInv' /\ SlaveInv'
  <2>1. CASE pc' = 31
    BY <2>1, RunOver
  <2>2. CASE pc' = pc + 1 /\ pc \in 5..10 /\ slave' = slave
    BY <1>1, <2>2, CallKept DEF master
  <2>3. CASE pc' = pc + 1 /\ pc = 11 + Turn(s) /\ slave' \in Configure(s)
    BY <1>1, <1>4, <2>3, CallKept DEF master, Turn
  <2>4. CASE pc' = pc + 1 /\ pc = 14 + Turn(s) /\ slave' = SetTarget(s, "SafeOp")
    BY <1>1, <1>5, <1>6, <1>7, <2>4, SlaveCalled, Transitions DEF master
  <2>5. CASE pc' = pc + 1 /\ pc = 19 + Turn(s) /\ slave' = SetTarget(s, "Op")
    BY <1>1, <1>5, <1>6, <1>7, <2>5, SlaveCalled, Transitions DEF master
  <2>6. CASE /\ pc' = pc + 1 /\ pc = 25 + Turn(s)
             /\ slave' = slave \/ slave' = SetTarget(s, "Shutdown")
    <3>1. \A r \in Slaves \ {s} : slave'[r] = slave[r]
      BY <1>5, <1>6, <2>6
    <3> QED
      BY <1>1, <2>6, <3>1, SlaveCalled DEF master
  <2> QED
    BY <1>2, <1>3, <2>1, <2>2, <2>3, <2>4, <2>5, <2>6
<1> QED
  BY <1>8, <1>10, <1>11 DEF IInv

\* A slave moves on: the master's calls alone change its state.
LEMMA SlaveStepInv ==
    ASSUME IInv, NEW s \in Slaves, SlaveStep(s)
    PROVE  IInv'
<1>1. /\ slave \in [Slaves -> SlaveRecords] /\ slave[s] \in SlaveRecords
      /\ UNCHANGED <<script, master, plant>>
  BY DEF IInv, TypeOK, SlaveRecords, SlaveStep, SlaveMain, SlaveServes, SlaveStartL2, SlaveL2Exits, SlaveStops,
     SlaveJoined
<1>2. /\ slave' \in [Slaves -> SlaveRecords]
      /\ \A r \in Slaves : slave'[r].state = slave[r].state
  <2>1. CASE SlaveServes(s)
    BY <1>1, <2>1 DEF SlaveServes, SlaveRecords
  <2>2. CASE SlaveStartL2(s)
    BY <1>1, <2>2 DEF SlaveStartL2, SlaveRecords
  <2>3. CASE SlaveL2Exits(s)
    BY <1>1, <2>3 DEF SlaveL2Exits, SlaveRecords
  <2>4. CASE SlaveStops(s)
    BY <1>1, <2>4 DEF SlaveStops, SlaveRecords
  <2>5. CASE SlaveJoined(s)
    BY <1>1, <2>5 DEF SlaveJoined, SlaveRecords
  <2> QED
    BY <2>1, <2>2, <2>3, <2>4, <2>5 DEF SlaveStep, SlaveMain
<1>3. TypeOK'
  BY <1>1, <1>2 DEF IInv, TypeOK, script, master, plant, SlaveRecords
<1>4. MasterInv' /\ SlaveInv' /\ PlantInv'
  BY <1>1, <1>2, StatesKept, PlantKept DEF script, master
<1> QED
  BY <1>3, <1>4 DEF IInv

\* Process data move: only the control loop makes a command to open, and it
\* runs when the master is in Op.
LEMMA DataInv ==
    ASSUME IInv, Data
    PROVE  IInv'
<1>1. TypeOK /\ pc' = pc /\ mst' = mst /\ slave' = slave /\ UNCHANGED script
  BY DEF IInv, Data, Sense, Control, MasterReceive, MasterSend, ValveCheck, ValveFrame, script, master
<1>2. MasterInv' /\ SlaveInv'
  BY <1>1, StatesKept
<1>3. /\ sensor \in {"low", "high"} /\ buffer \in Seq({"open", "closed"}) /\ Len(buffer) <= BufferMax
      /\ image \in [temperature: {"low", "high"}, valve: {"open", "closed"}]
      /\ valve \in [is: {"open", "closed"}, receiver: {"check", "next"}]
      /\ {mSend, mRecv} \subseteq {"absent", "running", "exited"} /\ BufferMax \in Nat
  BY <1>1, DemoAssumption DEF TypeOK
<1> DEFINE NewTypes ==
        /\ sensor' \in {"low", "high"} /\ buffer' \in Seq({"open", "closed"})
        /\ Len(buffer') <= BufferMax
        /\ image' \in [temperature: {"low", "high"}, valve: {"open", "closed"}]
        /\ valve' \in [is: {"open", "closed"}, receiver: {"check", "next"}]
        /\ {mSend', mRecv'} \subseteq {"absent", "running", "exited"}
<1>4. NewTypes /\ (Open' => Open \/ mst = "Op")
  <2>1. CASE Sense
    BY <1>3, <2>1 DEF Sense, master, Open
  <2>2. CASE Control
    <3>1. mst = "Op"
      BY <1>1, <2>2, Positions DEF IInv, MasterInv, Control
    <3> QED
      BY <1>3, <2>2, <3>1 DEF Control, master
  <2>3. CASE \E temperature \in BOOLEAN : MasterReceive(temperature)
    <3>1. image'.valve = image.valve /\ UNCHANGED <<mSend, sensor, buffer, valve>>
      BY <1>3, <2>3 DEF MasterReceive
    <3>2. image' \in [temperature: {"low", "high"}, valve: {"open", "closed"}]
      BY <1>3, <2>3 DEF MasterReceive
    <3>3. mRecv' \in {"absent", "running", "exited"}
      BY <1>3, <2>3 DEF MasterReceive
    <3> QED
      BY <1>3, <3>1, <3>2, <3>3 DEF Open
  <2>4. CASE MasterSend
    <3>1. UNCHANGED <<mRecv, sensor, image, valve>> /\ mSend' \in {"running", "exited"}
      BY <2>4 DEF MasterSend
    <3>2. \/ buffer' = buffer
          \/ Len(buffer) < BufferMax /\ buffer' = Append(buffer, image.valve)
      BY <2>4 DEF MasterSend
    <3>3. CASE buffer' = buffer
      BY <1>3, <3>1, <3>3 DEF Open
    <3>4. CASE Len(buffer) < BufferMax /\ buffer' = Append(buffer, image.valve)
      <4>1. image.valve \in {"open", "closed"} /\ Len(buffer) \in Nat
        BY <1>3
      <4>2. /\ buffer' \in Seq({"open", "closed"}) /\ Len(buffer') = Len(buffer) + 1
            /\ \A i \in 1..Len(buffer') :
                  buffer'[i] = IF i <= Len(buffer) THEN buffer[i] ELSE image.valve
        BY <1>3, <3>4, <4>1
      <4>3. Len(buffer') <= BufferMax
        BY <1>3, <3>4, <4>1, <4>2
      <4>4. Open' => Open
        BY <3>1, <4>1, <4>2 DEF Open
      <4> QED
        BY <1>3, <3>1, <4>2, <4>3, <4>4
    <3> QED
      BY <3>2, <3>3, <3>4
  <2>5. CASE ValveCheck
    BY <1>3, <2>5 DEF ValveCheck, master, Open
  <2>6. CASE ValveFrame
    <3>1. UNCHANGED <<mSend, mRecv, sensor, image>>
      BY <2>6 DEF ValveFrame, master
    <3>2. CASE buffer = <<>> /\ valve' = [valve EXCEPT !.receiver = "check"] /\ UNCHANGED buffer
      BY <1>3, <3>1, <3>2 DEF Open
    <3>3. CASE /\ buffer # <<>> /\ buffer' = Tail(buffer)
               /\ valve' = [receiver |-> "check",
                            is |-> IF slave[V].streams THEN Head(buffer) ELSE valve.is]
      <4>1. Len(buffer) \in Nat /\ Len(buffer) >= 1 /\ Head(buffer) = buffer[1]
        BY <1>3, <3>3
      <4>2. /\ buffer' \in Seq({"open", "closed"}) /\ Len(buffer') = Len(buffer) - 1
            /\ \A i \in 1..Len(buffer') : buffer'[i] = buffer[i + 1]
        BY <1>3, <3>3, <4>1
      <4>3. /\ Head(buffer) \in {"open", "closed"}
            /\ valve' \in [is: {"open", "closed"}, receiver: {"check", "next"}]
            /\ valve'.is = "open" => Open
        BY <1>3, <3>3, <4>1 DEF Open
      <4>4. Open' => Open
        <5>1. ASSUME NEW i \in 1..Len(buffer'), buffer'[i] = "open" PROVE Open
          <6>1. i + 1 \in 1..Len(buffer) /\ buffer[i + 1] = "open"
            BY <4>1, <4>2, <5>1
          <6> QED
            BY <6>1 DEF Open
        <5> QED
          BY <3>1, <4>3, <5>1 DEF Open
      <4> QED
        BY <1>3, <3>1, <4>1, <4>2, <4>3, <4>4
    <3> QED
      BY <2>6, <3>2, <3>3 DEF ValveFrame
  <2> QED
    BY <2>1, <2>2, <2>3, <2>4, <2>5, <2>6 DEF Data
<1>5. PlantInv'
  BY <1>1, <1>4 DEF IInv, PlantInv
<1>6. TypeOK'
  BY <1>1, <1>4 DEF TypeOK, script
<1> QED
  BY <1>2, <1>5, <1>6 DEF IInv

\* Every step preserves the invariant.
LEMMA NextInv ==
    ASSUME IInv, [Next]_vars
    PROVE  IInv'
<1>1. CASE Discover \/ WaitForSlaveState \/ AwaitSample \/ EndControl \/ Join \/ JoinSlave
  BY <1>1, PlainCallInv
<1>2. CASE SetIp
  BY <1>2, SetIpInv
<1>3. CASE MasterState
  BY <1>3, MasterStateInv
<1>4. CASE MasterSafeOp
  BY <1>4, MasterSafeOpInv
<1>5. CASE Rpc
  BY <1>5, RpcInv
<1>6. CASE \E s \in Slaves : SlaveStep(s)
  BY <1>6, SlaveStepInv
<1>7. CASE Data
  BY <1>7, DataInv
<1>8. CASE UNCHANGED vars
  BY <1>8 DEF vars, script, master, plant, IInv, TypeOK, MasterInv, SlaveInv, PlantInv, Open
<1> QED
  BY <1>1, <1>2, <1>3, <1>4, <1>5, <1>6, <1>7, <1>8 DEF Next, Master, Exit
------------------------------------------------------------------------------
(***************************************************************************)
(* Theorems.                                                               *)
(***************************************************************************)

\* The inductive invariant holds in every reachable state.
THEOREM DemoInvariance == Spec => []IInv
<1>1. Init => IInv
  BY InitInv
<1>2. IInv /\ [Next]_vars => IInv'
  BY NextInv
<1> QED
  BY <1>1, <1>2, PTL DEF Spec

\* The commands that wait in the socket of the valve slave through SafeOp, and
\* that its receiver applies, old, when it enters Op, do not open the valve
\* before the master is in Op, however many of them the socket holds.
THEOREM ValveClosedUntilOp == Spec => []ClosedUntilOp
<1>1. IInv => ClosedUntilOp
  BY DEF IInv, PlantInv, Open, ClosedUntilOp
<1> QED
  BY <1>1, DemoInvariance, PTL

\* Whichever calls of run_master_thread fail, and although it looks at no
\* response code, a slave enters Op only when both slaves are in SafeOp or Op
\* and the master is in SafeOp.
THEOREM OpTogether == Spec => OpInLockstep
<1>1. ASSUME IInv, [Next]_vars
      PROVE  [\A s \in Slaves : slave[s].state # "Op" /\ slave'[s].state = "Op" =>
                 /\ mst = "SafeOp"
                 /\ \A r \in Slaves : slave[r].state \in Active]_vars
  <2> SUFFICES ASSUME NEW s \in Slaves, slave[s].state # "Op", slave'[s].state = "Op"
               PROVE  /\ mst = "SafeOp"
                      /\ \A r \in Slaves : slave[r].state \in Active
    OBVIOUS
  <2>1. pc \in {19, 20}
    <3>1. TypeOK
      BY <1>1 DEF IInv
    <3>2. ASSUME NEW r \in Slaves, NEW target \in DeviceStates \ {"Op"}, slave' = SetTarget(r, target)
          PROVE  FALSE
      <4>1. \A q \in Slaves : slave'[q].state \in {slave[q].state, target}
        <5>1. /\ slave'[r].state = AfterSetTargetState(slave[r].state, target)
              /\ \A q \in Slaves \ {r} : slave'[q] = slave[q]
          BY <3>1, <3>2, TargetSet
        <5>2. slave[r].state \in DeviceStates
          BY <3>1 DEF TypeOK
        <5> QED
          BY <5>1, <5>2, Transitions
      <4> QED
        BY <4>1
    <3>3. CASE \A q \in Slaves : slave'[q].state = slave[q].state
      BY <3>3
    <3>4. CASE Rpc
      <4>1. Who \in Slaves
        BY <3>1, <3>4, RpcStep
      <4>2. {"SafeOp", "Shutdown"} \subseteq DeviceStates \ {"Op"}
        BY DEF DeviceStates
      <4>3. slave' \notin Configure(Who)
        <5>1. ASSUME NEW r \in Slaves, slave' \in Configure(r)
              PROVE  FALSE
          BY <3>1, <3>3, <5>1, StreamsSet
        <5> QED
          BY <4>1, <5>1
      <4>4. At("setOp")
        BY <3>1, <3>2, <3>3, <3>4, <4>1, <4>2, <4>3, RpcStep
      <4> QED
        BY <3>1, <4>4, Positions
    <3>5. CASE SetIp
      <4>1. Who \in Slaves /\ "PreOp" \in DeviceStates \ {"Op"}
        <5>1. pc \in {2, 3}
          BY <3>1, <3>5, Positions DEF SetIp
        <5> QED
          BY <5>1, Calls DEF Who, Slaves, DeviceStates
      <4> QED
        BY <3>2, <3>3, <3>5, <4>1 DEF SetIp
    <3>6. CASE \E r \in Slaves : SlaveStep(r)
      BY <3>1, <3>3, <3>6 DEF SlaveStep, SlaveMain, SlaveServes, SlaveStartL2, SlaveL2Exits, SlaveStops, SlaveJoined, TypeOK
    <3>7. CASE slave' = slave
      BY <3>7
    <3>8. CASE Data
      BY <3>7, <3>8 DEF Data, Sense, Control, MasterReceive, MasterSend, ValveCheck, ValveFrame
    <3>9. CASE Discover \/ WaitForSlaveState \/ AwaitSample \/ EndControl \/ Join \/ JoinSlave
               \/ MasterState \/ MasterSafeOp
      BY <3>7, <3>9 DEF Discover, WaitForSlaveState, AwaitSample, EndControl, Join, JoinSlave,
         MasterState, MasterSafeOp
    <3> QED
      BY <1>1, <3>4, <3>5, <3>6, <3>7, <3>8, <3>9 DEF Next, Master, Exit, vars
  <2>2. mst = "SafeOp"
    BY <1>1, <2>1 DEF IInv, MasterInv
  <2>3. ASSUME NEW r \in Slaves PROVE slave[r].state \in Active
    <3>1. Turn(r) \in {0, 1}
      BY DEF Turn
    <3> QED
      BY <1>1, <2>1, <3>1 DEF IInv, SlaveInv, Active
  <2> QED
    BY <2>2, <2>3
<1> QED
  BY <1>1, DemoInvariance, PTL DEF Spec, OpInLockstep

==============================================================================
