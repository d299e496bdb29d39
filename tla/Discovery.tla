------------------------------ MODULE Discovery ------------------------------
(***************************************************************************)
(* The SDCP discovery and commissioning protocol: one DiscoveryMaster      *)
(* (master/src/discovery.rs), the discovery listener thread of every slave *)
(* (slave/src/discovery.rs), their security contexts, and a layer-2        *)
(* network that loses, duplicates, delays and reorders frames.             *)
(*                                                                         *)
(* net holds every frame that was ever sent and never shrinks: a frame     *)
(* may be read by a receiver once, several times, late or never.           *)
(***************************************************************************)
EXTENDS DeviceState, DiscoveryAuth

CONSTANTS
    Master,         \* the MAC address of the master
    Slaves,         \* the MAC addresses of the slaves
    Broadcast,      \* ff:ff:ff:ff:ff:ff
    Configs,        \* the IP configurations the application may assign
    NoConfig,       \* the unassigned configuration, 0.0.0.0
    Flooding,       \* TRUE: unicast frames also reach other stations
    MaxRequests     \* bound on the requests of the master

\* u16: the width of the transaction identifier.
TidModulus == 65536

ASSUME DiscoveryAssumption ==
    /\ Master \notin Slaves
    /\ Broadcast \notin Slaves \cup {Master}
    /\ NoConfig \notin Configs
    /\ Flooding \in BOOLEAN
    /\ MaxRequests \in Nat
    /\ MaxRequests < TidModulus - 1     \* transaction_counter does not wrap

VARIABLES
    \* DiscoveryMaster and the application that calls it
    mstate,         \* the master's DeviceStateManager
    counter,        \* transaction_counter
    mauth,          \* the master's DiscoveryAuthHandler
    discovered,     \* discovered_devices: what each cached device reported
    mpc,            \* "idle", or the place in the receive loop of a call
    call,           \* the arguments and the transaction of the running call
    expired,        \* start.elapsed() >= timeout in the running call
    result,         \* what the last call returned
    assigned,       \* history: the <<slave, config>> set_ip_config said Ok to
    \* every slave
    sstate,         \* the slave's DeviceStateManager
    sauth,          \* the slave's DiscoveryAuthHandler
    listener,       \* where the listener thread is
    ifcfg,          \* the configuration of the network interface
    info,           \* the configuration stored in the device information
    \* the wire
    net

mvars == <<mstate, counter, mauth, discovered, mpc, call, expired, result, assigned>>
svars == <<sstate, sauth, listener, ifcfg, info>>
vars == <<mvars, svars, net>>

Macs == Slaves \cup {Master}
Tids == 0 .. TidModulus - 1
Requests == {"DiscoverReq", "GetIpReq", "SetIpReq"}
Responses == {"DiscoverRes", "GetIpRes", "SetIpRes"}

\* The answer that belongs to a request.
ResponseTo(op) == CASE op = "DiscoverReq" -> "DiscoverRes"
                    [] op = "GetIpReq" -> "GetIpRes"
                    [] op = "SetIpReq" -> "SetIpRes"

\* What the TLV of a frame says, by its kind.
Tlvs == [kind: {"none"}, val: {"none"}]
   \cup [kind: {"ipConfig"}, val: Configs]
   \cup [kind: {"ipReport"}, val: Configs \cup {NoConfig}]
   \cup [kind: {"deviceInfo"}, val: {"identity", "default"}]
   \cup [kind: {"status"}, val: {"NoError", "ErrHardwareAccess", "ErrOsFailure"}]

Tlv(kind, val) == [kind |-> kind, val |-> val]
NoTlv == Tlv("none", "none")

\* Ethernet header, SDCP header, TLV and security footer.
Frames == [src: Macs, dst: Macs \cup {Broadcast}, op: Requests \cup Responses,
           tid: Tids, tlv: Tlvs, seq: 0..SeqMax]

\* The sockets are promiscuous, so the destination address decides only what
\* the switches deliver: a flooded unicast frame reaches everybody.
Reaches(f, mac) == f.dst \in {mac, Broadcast} \/ (Flooding /\ f.src # mac)

Calls == [op: Requests, target: Slaves \cup {Broadcast},
          cfg: Configs \cup {NoConfig}, tid: Tids]
NoCall == [op |-> "none", target |-> Broadcast, cfg |-> NoConfig, tid |-> 0]

Codes == {"NoError", "ErrTimeout", "ErrStateConflict", "ErrSocketChannel",
          "ErrHardwareAccess", "ErrInvalidResponse"}
Outcomes == [op: Requests, target: Slaves \cup {Broadcast}, cfg: Configs \cup {NoConfig},
             code: Codes, report: Configs \cup {NoConfig}]
NoOutcome == [op |-> "none", target |-> Broadcast, cfg |-> NoConfig,
              code |-> "NoError", report |-> NoConfig]
Outcome(c, code, report) == [op |-> c.op, target |-> c.target, cfg |-> c.cfg,
                             code |-> code, report |-> report]
------------------------------------------------------------------------------
(***************************************************************************)
(* The start-up of both programs: the state managers are taken from Init   *)
(* to DiscoverySync, the slave registers the MAC of the trusted master and *)
(* starts its listener.                                                    *)
(***************************************************************************)
Init ==
    /\ mstate = "DiscoverySync"
    /\ counter = 1
    /\ mauth = [m \in Macs |-> NoContext]
    /\ discovered = [s \in Slaves |-> "absent"]
    /\ mpc = "idle"
    /\ call = NoCall
    /\ expired = FALSE
    /\ result = NoOutcome
    /\ assigned = {}
    /\ sstate = [s \in Slaves |-> "DiscoverySync"]
    /\ sauth = [s \in Slaves |-> AddNewDevice([m \in Macs |-> NoContext], Master)]
    /\ listener = [s \in Slaves |-> "running"]
    /\ ifcfg = [s \in Slaves |-> NoConfig]
    /\ info = [s \in Slaves |-> NoConfig]
    /\ net = {}
------------------------------------------------------------------------------
(***************************************************************************)
(* The master.                                                             *)
(***************************************************************************)

\* build_request_frame: a tag is made under the master's own MAC.
RequestFrame(devices, dst, op, tlv) ==
    [src |-> Master, dst |-> dst, op |-> op, tid |-> counter, tlv |-> tlv,
     seq |-> TagSeq(devices, Master)]

\* The contexts after a request to target was built and, for a unicast
\* request, after wait_for_response has made sure the target has a context.
AfterRequest(target) ==
    LET built == CreateAuthTag(AddNewDevice(mauth, Master), Master)
    IN  IF target = Broadcast THEN built ELSE AddNewDevice(built, target)

\* The common part of discover_devices, get_ip_config and set_ip_config up to
\* the receive loop.  The transaction and the sequence number are spent even
\* when send_frame fails.
Request(op, target, cfg, tlv) ==
    LET c == [op |-> op, target |-> target, cfg |-> cfg, tid |-> counter]
        f == RequestFrame(AddNewDevice(mauth, Master), target, op, tlv)
    IN  /\ mpc = "idle"
        /\ mstate = "DiscoverySync"
        /\ counter <= MaxRequests
        /\ counter' = (counter + 1) % TidModulus
        /\ \/ /\ net' = net \cup {f}
              /\ mauth' = AfterRequest(target)
              /\ mpc' = "check"
              /\ call' = c
              /\ expired' = FALSE
              /\ UNCHANGED result
           \/ /\ mauth' = AfterRequest(Broadcast)
              /\ result' = Outcome(c, "ErrSocketChannel", NoConfig)
              /\ UNCHANGED <<net, mpc, call, expired>>
        /\ UNCHANGED <<mstate, discovered, assigned, svars>>

DiscoverDevices == Request("DiscoverReq", Broadcast, NoConfig, NoTlv)

GetIpConfig(s) == Request("GetIpReq", s, NoConfig, NoTlv)

SetIpConfig(s, c) == Request("SetIpReq", s, c, Tlv("ipConfig", c))

\* The guard at the head of the three calls: the wrong state, nothing is sent.
RefuseCall(op) ==
    /\ mpc = "idle"
    /\ mstate # "DiscoverySync"
    /\ result' = Outcome([NoCall EXCEPT !.op = op], "ErrStateConflict", NoConfig)
    /\ UNCHANGED <<mstate, counter, mauth, discovered, mpc, call, expired, assigned,
                   svars, net>>

\* The clock of the running call passes its timeout.
Expire ==
    /\ mpc # "idle"
    /\ ~expired
    /\ expired' = TRUE
    /\ UNCHANGED <<mstate, counter, mauth, discovered, mpc, call, result, assigned,
                   svars, net>>

\* A mutant: the call forgets to look at the clock.
LoopCheck_NoTimeout ==
    /\ mpc = "check"
    /\ mpc' = "next"
    /\ UNCHANGED <<mstate, counter, mauth, discovered, call, expired, result, assigned,
                   svars, net>>

\* while start.elapsed() < timeout: the loop either enters receiver.next(),
\* which blocks until a frame arrives, or the call ends.
LoopCheck ==
    /\ mpc = "check"
    /\ IF ~expired
       THEN mpc' = "next" /\ UNCHANGED <<call, expired, result>>
       ELSE /\ mpc' = "idle"
            /\ call' = NoCall
            /\ expired' = FALSE
            /\ result' = Outcome(call, IF call.op = "DiscoverReq"
                                       THEN "NoError" ELSE "ErrTimeout", NoConfig)
    /\ UNCHANGED <<mstate, counter, mauth, discovered, assigned, svars, net>>

\* receiver.next() returns a frame the loop drops: another ethertype, another
\* source, operation or transaction, or a tag that is refused.
ReadOther ==
    /\ mpc = "next"
    /\ mpc' = "check"
    /\ UNCHANGED <<mstate, counter, mauth, discovered, call, expired, result, assigned,
                   svars, net>>

\* process_discover_frame: is the frame an answer to the running discovery ...
AnswersDiscovery(f) ==
    /\ call.op = "DiscoverReq"
    /\ f.op = "DiscoverRes"
    /\ f.tid = call.tid
    /\ Reaches(f, Master)

\* ... and is its tag accepted?
DiscoveryTagValid(f) ==
    IF HasDevice(mauth, f.src)
    THEN ValidateAuthTag(mauth, f.src, f.seq)
    ELSE ValidateDiscoveryResponse(f.seq)

\* An accepted answer: its sender gets a context and an entry in the cache.
ReadDiscoverRes(f) ==
    /\ mpc = "next"
    /\ AnswersDiscovery(f)
    /\ DiscoveryTagValid(f)
    /\ mauth' = IF HasDevice(mauth, f.src)
                THEN AcceptAuthTag(mauth, f.src, f.seq)
                ELSE SetLastValid(AddNewDevice(mauth, f.src), f.src, f.seq)
    /\ discovered' = [discovered EXCEPT ![f.src] = f.tlv.val]
    /\ mpc' = "check"
    /\ UNCHANGED <<mstate, counter, call, expired, result, assigned, svars, net>>

\* A mutant: the transaction of the answer is not compared.
AnswersCall_AnyTid(f) ==
    /\ call.op \in {"GetIpReq", "SetIpReq"}
    /\ f.src = call.target
    /\ f.op = ResponseTo(call.op)
    /\ Reaches(f, Master)
    /\ ValidateAuthTag(mauth, call.target, f.seq)

\* wait_for_response: source, operation and transaction are compared before
\* the tag is validated, so a frame that fails there spends no sequence number.
AnswersCall(f) ==
    /\ call.op \in {"GetIpReq", "SetIpReq"}
    /\ f.src = call.target
    /\ f.op = ResponseTo(call.op)
    /\ f.tid = call.tid
    /\ Reaches(f, Master)
    /\ ValidateAuthTag(mauth, call.target, f.seq)

\* A mutant: any status counts as success.
ResponseCode_AnyStatus(f) ==
    IF call.op = "GetIpReq" /\ f.tlv.kind # "ipReport" THEN "ErrInvalidResponse" ELSE "NoError"

\* The code get_ip_config and set_ip_config make of an accepted answer.
ResponseCode(f) ==
    CASE call.op = "GetIpReq" ->
            IF f.tlv.kind = "ipReport" THEN "NoError" ELSE "ErrInvalidResponse"
      [] call.op = "SetIpReq" ->
            IF f.tlv.val = "NoError" THEN "NoError" ELSE "ErrHardwareAccess"

ReadResponse(f) ==
    /\ mpc = "next"
    /\ AnswersCall(f)
    /\ mauth' = AcceptAuthTag(mauth, call.target, f.seq)
    /\ mpc' = "idle"
    /\ call' = NoCall
    /\ expired' = FALSE
    /\ result' = Outcome(call, ResponseCode(f),
                         IF f.tlv.kind = "ipReport" THEN f.tlv.val ELSE NoConfig)
    /\ assigned' = IF call.op = "SetIpReq" /\ ResponseCode(f) = "NoError"
                   THEN assigned \cup {<<call.target, call.cfg>>} ELSE assigned
    /\ UNCHANGED <<mstate, counter, discovered, svars, net>>

\* clear_discovered_devices: the cache is emptied, the contexts are kept.
ClearDiscoveredDevices ==
    /\ mpc = "idle"
    /\ discovered' = [s \in Slaves |-> "absent"]
    /\ UNCHANGED <<mstate, counter, mauth, mpc, call, expired, result, assigned,
                   svars, net>>

\* The application leaves the discovery phase.
MasterEnterPreOp ==
    /\ mpc = "idle"
    /\ mstate' = AfterSetTargetState(mstate, "PreOp")
    /\ UNCHANGED <<counter, mauth, discovered, mpc, call, expired, result, assigned,
                   svars, net>>
------------------------------------------------------------------------------
(***************************************************************************)
(* The listener thread of slave s.                                         *)
(***************************************************************************)

\* handle_packet looks at the source address and the sequence number; the
\* destination address is not compared with the slave's own.
Accepts(s, f) ==
    /\ listener[s] = "running"
    /\ Reaches(f, s)
    /\ ValidateAuthTag(sauth[s], f.src, f.seq)

\* The contexts after f was accepted and answered under the slave's own MAC.
AfterResponse(s, f) ==
    CreateAuthTag(AddNewDevice(AcceptAuthTag(sauth[s], f.src, f.seq), s), s)

\* send_response: a send error is only logged, which is a frame nobody reads.
Respond(s, f, tlv) ==
    /\ sauth' = [sauth EXCEPT ![s] = AfterResponse(s, f)]
    /\ net' = net \cup
          {[src |-> s, dst |-> f.src, op |-> ResponseTo(f.op), tid |-> f.tid, tlv |-> tlv,
            seq |-> TagSeq(AddNewDevice(sauth[s], s), s)]}

\* handle_discovery_request: an unreadable device answers with the default.
HandleDiscover(s, f) ==
    /\ Accepts(s, f)
    /\ f.op = "DiscoverReq"
    /\ \E v \in {"identity", "default"} : Respond(s, f, Tlv("deviceInfo", v))
    /\ UNCHANGED <<mvars, sstate, listener, ifcfg, info>>

\* handle_get_ip_request: the stored configuration, or why it cannot be read.
HandleGetIp(s, f) ==
    /\ Accepts(s, f)
    /\ f.op = "GetIpReq"
    /\ \/ Respond(s, f, Tlv("ipReport", info[s]))
       \/ Respond(s, f, Tlv("status", "ErrOsFailure"))
    /\ UNCHANGED <<mvars, sstate, listener, ifcfg, info>>

\* handle_set_ip_request, up to the response: apply_ip_config fails; or it
\* succeeds and the device information cannot be read or written; or all of it
\* succeeds.
HandleSetIp(s, f) ==
    /\ Accepts(s, f)
    /\ f.op = "SetIpReq"
    /\ \/ /\ Respond(s, f, Tlv("status", "ErrHardwareAccess"))
          /\ UNCHANGED <<ifcfg, info, listener>>
       \/ /\ ifcfg' = [ifcfg EXCEPT ![s] = f.tlv.val]
          /\ Respond(s, f, Tlv("status", "ErrOsFailure"))
          /\ UNCHANGED <<info, listener>>
       \/ /\ ifcfg' = [ifcfg EXCEPT ![s] = f.tlv.val]
          /\ info' = [info EXCEPT ![s] = f.tlv.val]
          /\ Respond(s, f, Tlv("status", "NoError"))
          /\ listener' = [listener EXCEPT ![s] = "configured"]
    /\ UNCHANGED <<mvars, sstate>>

\* A mutant: the thread goes on listening after it was configured.
EnterPreOp_KeepsListening(s) ==
    /\ listener[s] = "configured"
    /\ sstate' = [sstate EXCEPT ![s] = AfterSetTargetState(@, "PreOp")]
    /\ listener' = [listener EXCEPT ![s] = "running"]
    /\ UNCHANGED <<mvars, sauth, ifcfg, info, net>>

\* The rest of handle_set_ip_request, after the response has left: the slave
\* enters PreOp, and the check at the head of the loop ends the thread.
EnterPreOp(s) ==
    /\ listener[s] = "configured"
    /\ sstate' = [sstate EXCEPT ![s] = AfterSetTargetState(@, "PreOp")]
    /\ listener' = [listener EXCEPT ![s] =
                       IF sstate'[s] = "DiscoverySync" THEN "running" ELSE "exited"]
    /\ UNCHANGED <<mvars, sauth, ifcfg, info, net>>
------------------------------------------------------------------------------
MasterCall ==
    \/ DiscoverDevices
    \/ \E s \in Slaves : GetIpConfig(s)
    \/ \E s \in Slaves, c \in Configs : SetIpConfig(s, c)
    \/ \E op \in Requests : RefuseCall(op)
    \/ ClearDiscoveredDevices
    \/ MasterEnterPreOp

MasterLoop ==
    \/ Expire
    \/ LoopCheck
    \/ ReadOther
    \/ \E f \in net : ReadDiscoverRes(f) \/ ReadResponse(f)

Listener(s) ==
    \/ \E f \in net : HandleDiscover(s, f) \/ HandleGetIp(s, f) \/ HandleSetIp(s, f)
    \/ EnterPreOp(s)

Next ==
    \/ MasterCall
    \/ MasterLoop
    \/ \E s \in Slaves : Listener(s)

Spec == Init /\ [][Next]_vars
------------------------------------------------------------------------------
(***************************************************************************)
(* Properties.                                                             *)
(***************************************************************************)

\* Every variable has the type the code gives it; sequence numbers stay in
\* their width and the listener is in one of its places.
TypeOK ==
    /\ mstate \in DeviceStates
    /\ counter \in 1 .. MaxRequests + 1
    /\ mauth \in [Macs -> Contexts]
    /\ discovered \in [Slaves -> {"absent", "identity", "default"}]
    /\ mpc \in {"idle", "check", "next"}
    /\ call \in Calls \cup {NoCall}
    /\ expired \in BOOLEAN
    /\ result \in Outcomes \cup {NoOutcome}
    /\ assigned \subseteq Slaves \X Configs
    /\ sstate \in [Slaves -> DeviceStates]
    /\ sauth \in [Slaves -> [Macs -> Contexts]]
    /\ listener \in [Slaves -> {"running", "configured", "exited"}]
    /\ ifcfg \in [Slaves -> Configs \cup {NoConfig}]
    /\ info \in [Slaves -> Configs \cup {NoConfig}]
    /\ net \subseteq Frames

\* set_ip_config returns Ok for a slave and a configuration only when exactly
\* that configuration is in force there, on the interface and in the device
\* information, and it stays so: neither a late answer to an earlier attempt
\* nor a duplicate can be taken for the answer to a later one.
OkMeansApplied ==
    \A s \in Slaves, c \in Configs :
        <<s, c>> \in assigned => ifcfg[s] = c /\ info[s] = c

\* A slave acts on a request at most once however often the network delivers
\* it: no two frames of one slave answer the same transaction.
AnsweredOnce ==
    \A f, g \in net :
        f.src \in Slaves /\ f.src = g.src /\ f.tid = g.tid => f = g

\* Neither end's replay window runs ahead of what its peer has sent, so the
\* next frame of a peer that is known is never refused as a replay.
WindowBehindPeer ==
    \A s \in Slaves :
        /\ mauth[s].rx > 0 /\ sauth[s][s].tx < SeqMax => mauth[s].rx < sauth[s][s].tx
        /\ sauth[s][Master].rx > 0 /\ mauth[Master].tx < SeqMax
              => sauth[s][Master].rx < mauth[Master].tx

\* A slave that has taken and stored a configuration never takes another one:
\* the listener is gone before it could read the next request.
ConfiguredOnce ==
    [][\A s \in Slaves : info[s] # NoConfig => info'[s] = info[s] /\ ifcfg'[s] = ifcfg[s]]_vars

\* The protocol implements IpAssignment: with lost, late and repeated frames a
\* slave takes a configuration once and only one that was sent to it, or
\* flooded to it, and the master confirms only what the slave has stored.
Offered == {p \in Slaves \X Configs :
                \E f \in net : f.op = "SetIpReq" /\ Reaches(f, p[1]) /\ f.tlv.val = p[2]}
Assignment == INSTANCE IpAssignment
              WITH offered <- Offered, config <- info, confirmed <- assigned
ImplementsAssignment == Assignment!Spec

\* ErrHardwareAccess from set_ip_config means that the configuration is not on
\* the interface of the slave.
HardwareErrorMeansNotApplied ==
    result.op = "SetIpReq" /\ result.code = "ErrHardwareAccess"
        => ifcfg[result.target] # result.cfg

\* While discover_devices collects, the answer of a device that is not in the
\* cache yet is one that it accepts.
AnswersAccepted ==
    \A f \in net : mpc = "next" /\ AnswersDiscovery(f) /\ discovered[f.src] = "absent"
        => DiscoveryTagValid(f)

\* Every call of the master returns, with an answer or with its timeout.
CallReturns == (mpc # "idle") ~> (mpc = "idle")

\* The clock runs and the thread of the call is scheduled.  Nothing is assumed
\* of the network or of the slaves.
QuietFairness == WF_vars(Expire) /\ WF_vars(LoopCheck)
QuietSpec == Spec /\ QuietFairness

\* In addition, frames of other protocols keep arriving on the interface.
BusySpec == QuietSpec /\ WF_vars(ReadOther)
==============================================================================
