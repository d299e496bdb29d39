--------------------------- MODULE DiscoveryProofs ---------------------------
(***************************************************************************)
(* Proofs about Discovery for every number of slaves, every set of         *)
(* configurations, every width of the sequence number and every number of  *)
(* requests below the wrap of the transaction identifier.                  *)
(*                                                                         *)
(* The actions are looked at once: every step sends a request, reads an    *)
(* answer, answers a request or does neither (StepKinds).  The theorems    *)
(* are proved from these four kinds of steps.                              *)
(***************************************************************************)
EXTENDS Discovery, TLAPS

(***************************************************************************)
(* What holds whether or not the master has been started more than once.   *)
(***************************************************************************)

\* The master sends requests, slaves send responses, and the TLV fits the
\* operation.
WellFormed(f) ==
    /\ f.src = Master => f.op \in Requests
    /\ f.src \in Slaves => f.op \in Responses
    /\ f.op = "SetIpReq" => f.tlv.kind = "ipConfig"
    /\ f.op = "DiscoverRes" => f.tlv.kind = "deviceInfo"

\* The call is there while the receive loop runs, and a set_ip_config has a
\* configuration.
CallInv ==
    /\ (mpc = "idle") <=> (call = NoCall)
    /\ call.op = "SetIpReq" => call.cfg \in Configs

\* A running listener is in DiscoverySync, and a slave with a stored
\* configuration has stopped listening and has it on its interface.
ListenerInv ==
    \A s \in Slaves :
        /\ listener[s] # "exited" => sstate[s] = "DiscoverySync"
        /\ info[s] # NoConfig => listener[s] # "running" /\ ifcfg[s] = info[s]

BaseInv ==
    /\ TypeOK
    /\ \A f \in net : WellFormed(f)
    /\ CallInv
    /\ ListenerInv
------------------------------------------------------------------------------
(***************************************************************************)
(* The four kinds of steps.                                                *)
(***************************************************************************)

\* The number of the next frame under mac, whether or not it has a context.
NextSeq(devices, mac) == IF HasDevice(devices, mac) THEN TagSeq(devices, mac) ELSE 1

\* The number is spent.
Spent(devices, mac, seq) == devices[mac].known /\ devices[mac].tx = SaturatingInc(seq)

\* f is the SetIpReq of transaction tid that carries configuration c.
IsSetRequest(f, tid, c) ==
    f.src = Master /\ f.op = "SetIpReq" /\ f.tid = tid /\ f.tlv.val = c

\* f is a positive answer to a SetIpReq.
IsPositive(f) == f.src \in Slaves /\ f.op = "SetIpRes" /\ f.tlv.val = "NoError"

\* A request is made, and sent unless the socket fails.
Requested(f) ==
    /\ f.src = Master /\ f.op \in Requests /\ f.tid = counter
    /\ f.seq = NextSeq(mauth, Master)
    /\ f.op = "SetIpReq" => f.dst \in Slaves /\ f.tlv.val \in Configs
    /\ counter' = counter + 1
    /\ Spent(mauth', Master, f.seq)
    /\ \A s \in Slaves : mauth'[s] = mauth[s] \/ mauth'[s] = DefaultContext
    /\ \/ /\ net' = net \cup {f}
          /\ call'.op = f.op /\ call'.tid = f.tid
          /\ f.op = "SetIpReq" => call'.cfg = f.tlv.val
       \/ UNCHANGED <<net, call>>
    /\ UNCHANGED <<assigned, svars>>

\* The running call takes an answer.
Taken(f) ==
    /\ f.src \in Slaves
    /\ mauth'[f.src].rx = f.seq
    /\ \A m \in Macs \ {f.src} : mauth'[m] = mauth[m]
    /\ \/ assigned' = assigned
       \/ /\ IsPositive(f) /\ call.op = "SetIpReq" /\ call.tid = f.tid
          /\ assigned' = assigned \cup {<<f.src, call.cfg>>}
    /\ call' = call \/ call' = NoCall
    /\ UNCHANGED <<counter, svars, net>>

\* Slave s takes request f and answers with g.
Answered(s, f, g) ==
    /\ listener[s] = "running" /\ Reaches(f, s)
    /\ f.src = Master /\ f.op \in Requests /\ f.seq > sauth[s][Master].rx
    /\ g.src = s /\ g.op = ResponseTo(f.op) /\ g.tid = f.tid
    /\ g.seq = NextSeq(sauth[s], s)
    /\ net' = net \cup {g}
    /\ sauth'[s][Master].rx = f.seq
    /\ Spent(sauth'[s], s, g.seq)
    /\ \A t \in Slaves \ {s} : sauth'[t] = sauth[t]
    /\ \/ UNCHANGED <<ifcfg, info>> /\ ~IsPositive(g)
       \/ f.op = "SetIpReq" /\ ifcfg' = [ifcfg EXCEPT ![s] = f.tlv.val]
          /\ info' = info /\ ~IsPositive(g)
       \/ f.op = "SetIpReq" /\ ifcfg' = [ifcfg EXCEPT ![s] = f.tlv.val]
          /\ info' = [info EXCEPT ![s] = f.tlv.val]
    /\ UNCHANGED mvars

\* Nothing is sent and nothing is taken.
Local ==
    /\ call' = call \/ call' = NoCall
    /\ UNCHANGED <<counter, mauth, assigned, sauth, ifcfg, info, net>>

StepKind ==
    \/ \E f \in Frames : Requested(f)
    \/ \E f \in net : Taken(f)
    \/ \E s \in Slaves, f \in net, g \in Frames : Answered(s, f, g)
    \/ Local
------------------------------------------------------------------------------
(***************************************************************************)
(* Lemmas about the table of security contexts.                            *)
(***************************************************************************)

\* Zero is a sequence number.
LEMMA ZeroSeq == 0 \in 0..SeqMax
BY SeqMaxAssumption

\* Adding a device, creating a tag and accepting a tag keep the table typed.
LEMMA ContextTypes ==
    ASSUME NEW d \in [Macs -> Contexts], NEW m \in Macs, NEW q \in 0..SeqMax
    PROVE  /\ AddNewDevice(d, m) \in [Macs -> Contexts]
           /\ CreateAuthTag(d, m) \in [Macs -> Contexts]
           /\ AcceptAuthTag(d, m, q) \in [Macs -> Contexts]
           /\ SetLastValid(d, m, q) \in [Macs -> Contexts]
           /\ TagSeq(d, m) \in 0..SeqMax
<1>. USE SeqMaxAssumption DEF Contexts
<1>1. DefaultContext \in Contexts
  BY DEF DefaultContext
<1>2. AddNewDevice(d, m) \in [Macs -> Contexts]
  BY <1>1 DEF AddNewDevice, HasDevice
<1>3. CreateAuthTag(d, m) \in [Macs -> Contexts]
  BY DEF CreateAuthTag, SaturatingInc
<1>4. AcceptAuthTag(d, m, q) \in [Macs -> Contexts]
  BY DEF AcceptAuthTag
<1>5. SetLastValid(d, m, q) \in [Macs -> Contexts]
  BY DEF SetLastValid, HasDevice
<1>6. TagSeq(d, m) \in 0..SeqMax
  BY DEF TagSeq
<1>. QED  BY <1>2, <1>3, <1>4, <1>5, <1>6

\* The context a call works on is the only one it changes.
LEMMA ContextFrame ==
    ASSUME NEW d \in [Macs -> Contexts], NEW m \in Macs, NEW n \in Macs, m # n,
           NEW q \in 0..SeqMax
    PROVE  /\ AddNewDevice(d, m)[n] = d[n]
           /\ CreateAuthTag(d, m)[n] = d[n]
           /\ AcceptAuthTag(d, m, q)[n] = d[n]
           /\ SetLastValid(d, m, q)[n] = d[n]
BY DEF AddNewDevice, CreateAuthTag, AcceptAuthTag, SetLastValid

\* A tag takes the next number under mac, and spends it.
LEMMA TagSpends ==
    ASSUME NEW d \in [Macs -> Contexts], NEW m \in Macs
    PROVE  /\ TagSeq(AddNewDevice(d, m), m) = NextSeq(d, m)
           /\ Spent(CreateAuthTag(AddNewDevice(d, m), m), m, NextSeq(d, m))
           /\ NextSeq(d, m) \in 0..SeqMax
<1>1. DefaultContext \in Contexts /\ DefaultContext.known /\ DefaultContext.tx = 1
  BY SeqMaxAssumption DEF DefaultContext, Contexts
<1>2. AddNewDevice(d, m) \in [Macs -> Contexts]
  BY ContextTypes, ZeroSeq
<1>3. AddNewDevice(d, m)[m].known /\ AddNewDevice(d, m)[m].tx = NextSeq(d, m)
  BY <1>1 DEF AddNewDevice, HasDevice, NextSeq, TagSeq, Contexts
<1>4. Spent(CreateAuthTag(AddNewDevice(d, m), m), m, NextSeq(d, m))
  BY <1>2, <1>3 DEF CreateAuthTag, Spent, Contexts
<1>5. NextSeq(d, m) \in 0..SeqMax
  BY <1>2, <1>3 DEF Contexts
<1>. QED  BY <1>3, <1>4, <1>5 DEF TagSeq
------------------------------------------------------------------------------
(***************************************************************************)
(* Every action is of one of the four kinds and keeps BaseInv.             *)
(***************************************************************************)

\* A number whose successor is below the modulus is in the range of the counter.
LEMMA BelowModulus ==
    ASSUME NEW m \in Nat, NEW k \in Nat, k + 1 < m PROVE k \in 0 .. m - 1
OBVIOUS

\* A request below the bound does not wrap the counter.
LEMMA CounterEffect ==
    ASSUME TypeOK, counter <= MaxRequests, counter' = (counter + 1) % TidModulus
    PROVE  counter' = counter + 1 /\ counter' \in 1 .. MaxRequests + 1 /\ counter \in Tids
<1>. USE DiscoveryAssumption
<1>1. counter \in 1 .. MaxRequests + 1 /\ counter <= MaxRequests
  BY DEF TypeOK
<1>2. counter + 1 \in Nat /\ counter + 1 < TidModulus
  BY <1>1 DEF TidModulus
<1>3. (counter + 1) % TidModulus = counter + 1
  BY <1>2 DEF TidModulus
<1>4. counter + 1 \in 1 .. MaxRequests + 1
  BY <1>1
<1>5. counter \in Tids
  <2>1. TidModulus \in Nat /\ counter \in Nat
    BY <1>1 DEF TidModulus
  <2>. QED  BY <1>2, <2>1, BelowModulus DEF Tids
<1>. QED  BY <1>3, <1>4, <1>5

\* A request spends a number of the master and gives the target a context.
LEMMA RequestContexts ==
    ASSUME TypeOK, NEW t \in Slaves \cup {Broadcast}
    PROVE  /\ AfterRequest(t) \in [Macs -> Contexts]
           /\ Spent(AfterRequest(t), Master, NextSeq(mauth, Master))
           /\ \A s \in Slaves : \/ AfterRequest(t)[s] = mauth[s]
                                \/ AfterRequest(t)[s] = DefaultContext
<1>. USE DiscoveryAssumption
<1>. DEFINE own == AddNewDevice(mauth, Master)
            built == CreateAuthTag(own, Master)
<1>1. mauth \in [Macs -> Contexts] /\ Master \in Macs /\ Slaves \subseteq Macs
  BY DEF TypeOK, Macs
<1>2. own \in [Macs -> Contexts]
  BY <1>1, ContextTypes, ZeroSeq
<1>3. built \in [Macs -> Contexts] /\ Spent(built, Master, NextSeq(mauth, Master))
  <2>1. built \in [Macs -> Contexts]
    BY <1>1, <1>2, ContextTypes, ZeroSeq
  <2>. QED  BY <1>1, <2>1, TagSpends
<1>4. \A s \in Slaves : built[s] = mauth[s]
  <2>. TAKE s \in Slaves
  <2>1. s \in Macs /\ Master # s
    BY <1>1
  <2>2. own[s] = mauth[s]
    BY <1>1, <2>1, ContextFrame, ZeroSeq
  <2>3. built[s] = own[s]
    BY <1>1, <1>2, <2>1, ContextFrame, ZeroSeq
  <2>. QED  BY <2>2, <2>3
<1>5. CASE t = Broadcast
  <2>1. AfterRequest(t) = built
    BY <1>5 DEF AfterRequest
  <2>. QED  BY <1>3, <1>4, <2>1
<1>6. CASE t # Broadcast
  <2>1. AfterRequest(t) = AddNewDevice(built, t) /\ t \in Macs /\ t # Master
    BY <1>1, <1>6 DEF AfterRequest
  <2>. HIDE DEF built
  <2>2. AddNewDevice(built, t) \in [Macs -> Contexts]
    BY <1>3, <2>1, ContextTypes, ZeroSeq
  <2>3. AddNewDevice(built, t)[Master] = built[Master]
    BY <1>1, <1>3, <2>1, ContextFrame, ZeroSeq
  <2>4. \A s \in Slaves : \/ AddNewDevice(built, t)[s] = mauth[s]
                          \/ AddNewDevice(built, t)[s] = DefaultContext
    BY <1>1, <1>3, <1>4, <2>1 DEF AddNewDevice
  <2>. QED  BY <1>3, <2>1, <2>2, <2>3, <2>4 DEF Spent
<1>. QED  BY <1>5, <1>6

\* discover_devices, get_ip_config and set_ip_config up to the receive loop.
LEMMA RequestKind ==
    ASSUME BaseInv,
           NEW op \in Requests, NEW target \in Slaves \cup {Broadcast},
           NEW cfg \in Configs \cup {NoConfig}, NEW tlv \in Tlvs,
           Request(op, target, cfg, tlv),
           op = "SetIpReq" => /\ cfg \in Configs /\ tlv = Tlv("ipConfig", cfg)
                              /\ target \in Slaves
    PROVE  BaseInv' /\ \E f \in Frames : Requested(f)
<1>. USE DiscoveryAssumption
<1>. DEFINE own == AddNewDevice(mauth, Master)
            f == RequestFrame(own, target, op, tlv)
            c == [op |-> op, target |-> target, cfg |-> cfg, tid |-> counter]
<1>1. /\ TypeOK /\ mpc = "idle"
      /\ UNCHANGED <<mstate, discovered, assigned, sstate, sauth, listener, ifcfg, info>>
  BY DEF BaseInv, Request, svars
<1>2. counter' = counter + 1 /\ counter' \in 1 .. MaxRequests + 1 /\ counter \in Tids
  <2>1. counter <= MaxRequests /\ counter' = (counter + 1) % TidModulus
    BY DEF Request
  <2>. QED  BY <1>1, <2>1, CounterEffect
<1>3. f.seq = NextSeq(mauth, Master) /\ f.seq \in 0..SeqMax
  <2>1. f.seq = TagSeq(own, Master)
    BY DEF RequestFrame
  <2>2. mauth \in [Macs -> Contexts] /\ Master \in Macs
    BY <1>1 DEF TypeOK, Macs
  <2>. QED  BY <2>1, <2>2, TagSpends
<1>4. /\ f.src = Master /\ f.dst = target /\ f.op = op /\ f.tid = counter /\ f.tlv = tlv
      /\ f \in Frames
  <2>1. /\ f.src = Master /\ f.dst = target /\ f.op = op /\ f.tid = counter /\ f.tlv = tlv
        /\ f = [src |-> Master, dst |-> target, op |-> op, tid |-> counter, tlv |-> tlv,
                seq |-> f.seq]
    BY DEF RequestFrame
  <2>. HIDE DEF f
  <2>2. Master \in Macs /\ target \in Macs \cup {Broadcast} /\ op \in Requests \cup Responses
    BY DEF Macs
  <2>. QED  BY <1>2, <1>3, <2>1, <2>2 DEF Frames
<1>5. /\ mauth' \in [Macs -> Contexts] /\ Spent(mauth', Master, f.seq)
      /\ \A s \in Slaves : mauth'[s] = mauth[s] \/ mauth'[s] = DefaultContext
  <2>1. mauth' = AfterRequest(target) \/ mauth' = AfterRequest(Broadcast)
    BY DEF Request
  <2>. QED  BY <1>1, <1>3, <2>1, RequestContexts
<1>6. \/ /\ net' = net \cup {f} /\ mpc' = "check" /\ call' = c /\ expired' = FALSE
         /\ result' = result
      \/ /\ result' = Outcome(c, "ErrSocketChannel", NoConfig)
         /\ UNCHANGED <<net, mpc, call, expired>>
  BY DEF Request
<1>. HIDE DEF f, own
<1>7. /\ c \in Calls /\ c # NoCall /\ c.op = op /\ c.tid = counter /\ c.cfg = cfg
      /\ Outcome(c, "ErrSocketChannel", NoConfig) \in Outcomes
  BY <1>2 DEF Calls, NoCall, Requests, Outcome, Outcomes, Codes
<1>8. f.op = "SetIpReq" => f.dst \in Slaves /\ f.tlv.val = cfg /\ cfg \in Configs
  BY <1>4 DEF Tlv
<1>. HIDE DEF c
<1>9. Requested(f)
  <2>1. \/ net' = net \cup {f} /\ call'.op = f.op /\ call'.tid = f.tid /\ call'.cfg = cfg
        \/ UNCHANGED <<net, call>>
    BY <1>4, <1>6, <1>7
  <2>. QED  BY <1>1, <1>2, <1>3, <1>4, <1>5, <1>8, <2>1 DEF Requested, svars
<1>10. TypeOK'
  <2>1. net' \subseteq Frames /\ call' \in Calls \cup {NoCall} /\ expired' \in BOOLEAN
        /\ mpc' \in {"idle", "check", "next"} /\ result' \in Outcomes \cup {NoOutcome}
    BY <1>1, <1>4, <1>6, <1>7 DEF TypeOK
  <2>. QED  BY <1>1, <1>2, <1>5, <2>1 DEF TypeOK
<1>11. (\A h \in net : WellFormed(h))'
  <2>1. WellFormed(f)
    BY <1>4 DEF WellFormed, Requests, Tlv
  <2>. QED  BY <1>6, <2>1 DEF BaseInv, WellFormed
<1>12. CallInv'
  BY <1>1, <1>6, <1>7 DEF BaseInv, CallInv
<1>13. ListenerInv'
  BY <1>1 DEF BaseInv, ListenerInv
<1>. QED  BY <1>4, <1>9, <1>10, <1>11, <1>12, <1>13 DEF BaseInv

\* The steps that touch no slave and send nothing keep what is said of the
\* slaves and of the frames.
LEMMA MasterOnly ==
    ASSUME BaseInv, UNCHANGED <<svars, net>>, TypeOK', CallInv'
    PROVE  BaseInv'
<1>1. (\A h \in net : WellFormed(h))'
  BY DEF BaseInv, WellFormed
<1>2. ListenerInv'
  BY DEF BaseInv, ListenerInv, svars
<1>. QED  BY <1>1, <1>2 DEF BaseInv

\* process_discover_frame takes an answer.
LEMMA DiscoverResKind ==
    ASSUME BaseInv, NEW f \in net, ReadDiscoverRes(f)
    PROVE  BaseInv' /\ Taken(f)
<1>1. /\ f \in Frames /\ f.op = "DiscoverRes" /\ f.tlv.kind = "deviceInfo"
      /\ mpc = "next" /\ mpc' = "check"
      /\ UNCHANGED <<mstate, counter, call, expired, result, assigned, svars, net>>
  BY DEF ReadDiscoverRes, AnswersDiscovery, BaseInv, TypeOK, WellFormed
<1>2. f.src \in Slaves /\ f.src \in Macs
  BY <1>1 DEF BaseInv, WellFormed, Requests, Frames, Macs
<1>3. f.seq \in 0..SeqMax /\ f.tlv.val \in {"identity", "default"}
  BY <1>1 DEF Frames, Tlvs
<1>4. mauth \in [Macs -> Contexts]
  BY DEF BaseInv, TypeOK
<1>5. /\ mauth' \in [Macs -> Contexts] /\ mauth'[f.src].rx = f.seq
      /\ \A m \in Macs \ {f.src} : mauth'[m] = mauth[m]
  <2>1. CASE HasDevice(mauth, f.src)
    <3>1. mauth' = AcceptAuthTag(mauth, f.src, f.seq)
      BY <2>1 DEF ReadDiscoverRes
    <3>2. mauth' \in [Macs -> Contexts]
      BY <1>2, <1>3, <1>4, <3>1, ContextTypes
    <3>3. \A m \in Macs \ {f.src} : mauth'[m] = mauth[m]
      BY <1>2, <1>3, <1>4, <3>1, ContextFrame
    <3>4. mauth'[f.src].rx = f.seq
      BY <1>2, <1>4, <3>1 DEF AcceptAuthTag, Contexts
    <3>. QED  BY <3>2, <3>3, <3>4
  <2>2. CASE ~HasDevice(mauth, f.src)
    <3>. DEFINE d == AddNewDevice(mauth, f.src)
    <3>1. mauth' = SetLastValid(d, f.src, f.seq)
      BY <2>2 DEF ReadDiscoverRes
    <3>2. d \in [Macs -> Contexts] /\ HasDevice(d, f.src)
      <4>1. d \in [Macs -> Contexts]
        BY <1>2, <1>3, <1>4, ContextTypes
      <4>2. HasDevice(d, f.src)
        BY <1>2, <1>4, <2>2 DEF AddNewDevice, HasDevice, DefaultContext
      <4>. QED  BY <4>1, <4>2
    <3>3. \A m \in Macs \ {f.src} : d[m] = mauth[m]
      BY <1>2, <1>3, <1>4, ContextFrame
    <3>. HIDE DEF d
    <3>4. mauth' \in [Macs -> Contexts]
      BY <1>2, <1>3, <3>1, <3>2, ContextTypes
    <3>5. \A m \in Macs \ {f.src} : mauth'[m] = d[m]
      BY <1>2, <1>3, <3>1, <3>2, ContextFrame
    <3>6. mauth'[f.src].rx = f.seq
      BY <1>2, <3>1, <3>2 DEF SetLastValid, Contexts
    <3>. QED  BY <3>3, <3>4, <3>5, <3>6
  <2>. QED  BY <2>1, <2>2
<1>6. Taken(f)
  BY <1>1, <1>2, <1>5 DEF Taken
<1>7. discovered' \in [Slaves -> {"absent", "identity", "default"}]
  BY <1>3 DEF ReadDiscoverRes, BaseInv, TypeOK
<1>8. TypeOK'
  BY <1>1, <1>5, <1>7 DEF BaseInv, TypeOK, svars
<1>9. CallInv'
  BY <1>1 DEF BaseInv, CallInv
<1>. QED  BY <1>1, <1>6, <1>8, <1>9, MasterOnly

\* wait_for_response takes an answer.
LEMMA ResponseKind ==
    ASSUME BaseInv, NEW f \in net, ReadResponse(f)
    PROVE  BaseInv' /\ Taken(f)
<1>. USE DiscoveryAssumption
<1>1. /\ mpc = "next" /\ mpc' = "idle" /\ call' = NoCall /\ expired' = FALSE
      /\ call.op \in {"GetIpReq", "SetIpReq"} /\ f.src = call.target
      /\ f.op = ResponseTo(call.op) /\ f.tid = call.tid
      /\ UNCHANGED <<mstate, counter, discovered, svars, net>>
  BY DEF ReadResponse, AnswersCall
<1>2. f \in Frames /\ call \in Calls /\ mauth \in [Macs -> Contexts]
  BY <1>1 DEF BaseInv, TypeOK, NoCall
<1>3. f.src \in Slaves /\ f.src \in Macs
  BY <1>1, <1>2 DEF Frames, Calls, Macs
<1>4. f.seq \in 0..SeqMax
  BY <1>2 DEF Frames
<1>5. /\ mauth' \in [Macs -> Contexts] /\ mauth'[f.src].rx = f.seq
      /\ \A m \in Macs \ {f.src} : mauth'[m] = mauth[m]
  <2>1. mauth' = AcceptAuthTag(mauth, f.src, f.seq)
    BY <1>1 DEF ReadResponse
  <2>2. mauth' \in [Macs -> Contexts]
    BY <1>2, <1>3, <1>4, <2>1, ContextTypes
  <2>3. \A m \in Macs \ {f.src} : mauth'[m] = mauth[m]
    BY <1>2, <1>3, <1>4, <2>1, ContextFrame
  <2>4. mauth'[f.src].rx = f.seq
    BY <1>2, <1>3, <2>1 DEF AcceptAuthTag, Contexts
  <2>. QED  BY <2>2, <2>3, <2>4
<1>6. result' \in Outcomes
  <2>1. ResponseCode(f) \in Codes
    BY <1>1 DEF ResponseCode, Codes
  <2>2. f.tlv.kind = "ipReport" => f.tlv.val \in Configs \cup {NoConfig}
    BY <1>2 DEF Frames, Tlvs
  <2>3. result' = Outcome(call, ResponseCode(f),
                          IF f.tlv.kind = "ipReport" THEN f.tlv.val ELSE NoConfig)
    BY DEF ReadResponse
  <2>. QED  BY <1>1, <1>2, <2>1, <2>2, <2>3 DEF Outcome, Outcomes, Calls, Requests
<1>7. \/ assigned' = assigned
      \/ /\ IsPositive(f) /\ call.op = "SetIpReq" /\ call.tid = f.tid
         /\ assigned' = assigned \cup {<<f.src, call.cfg>>}
  <2>1. CASE call.op = "SetIpReq" /\ ResponseCode(f) = "NoError"
    <3>1. f.op = "SetIpRes" /\ f.tlv.val = "NoError"
      BY <1>1, <2>1 DEF ResponseTo, ResponseCode
    <3>. QED  BY <1>1, <1>3, <2>1, <3>1 DEF ReadResponse, IsPositive
  <2>2. CASE ~(call.op = "SetIpReq" /\ ResponseCode(f) = "NoError")
    BY <2>2 DEF ReadResponse
  <2>. QED  BY <2>1, <2>2
<1>8. Taken(f)
  BY <1>1, <1>3, <1>5, <1>7 DEF Taken
<1>9. TypeOK'
  <2>1. assigned' \subseteq Slaves \X Configs
    BY <1>3, <1>7 DEF BaseInv, TypeOK, CallInv
  <2>. QED  BY <1>1, <1>5, <1>6, <2>1 DEF BaseInv, TypeOK, svars
<1>10. CallInv'
  BY <1>1 DEF CallInv, NoCall
<1>. QED  BY <1>1, <1>8, <1>9, <1>10, MasterOnly

\* The steps of the master that send nothing and take no answer.
LEMMA LocalMasterKind ==
    ASSUME BaseInv,
           \/ \E op \in Requests : RefuseCall(op)
           \/ ClearDiscoveredDevices \/ MasterEnterPreOp
           \/ Expire \/ LoopCheck \/ ReadOther
    PROVE  BaseInv' /\ Local
<1>1. ASSUME NEW op \in Requests, RefuseCall(op)  PROVE BaseInv' /\ Local
  <2>1. result' \in Outcomes
    BY <1>1 DEF RefuseCall, Outcome, Outcomes, NoCall, Codes
  <2>2. TypeOK' /\ CallInv'
    BY <1>1, <2>1 DEF RefuseCall, BaseInv, TypeOK, CallInv, svars
  <2>. QED  BY <1>1, <2>2, MasterOnly DEF RefuseCall, Local, svars
<1>2. CASE ClearDiscoveredDevices
  <2>1. TypeOK' /\ CallInv'
    BY <1>2 DEF ClearDiscoveredDevices, BaseInv, TypeOK, CallInv, svars
  <2>. QED  BY <1>2, <2>1, MasterOnly DEF ClearDiscoveredDevices, Local, svars
<1>3. CASE MasterEnterPreOp
  <2>1. TypeOK' /\ CallInv'
    BY <1>3 DEF MasterEnterPreOp, AfterSetTargetState, DeviceStates, BaseInv, TypeOK,
                CallInv, svars
  <2>. QED  BY <1>3, <2>1, MasterOnly DEF MasterEnterPreOp, Local, svars
<1>4. CASE Expire
  <2>1. TypeOK' /\ CallInv'
    BY <1>4 DEF Expire, BaseInv, TypeOK, CallInv, svars
  <2>. QED  BY <1>4, <2>1, MasterOnly DEF Expire, Local, svars
<1>5. CASE LoopCheck
  <2>1. call \in Calls
    BY <1>5 DEF LoopCheck, BaseInv, CallInv, TypeOK
  <2>2. result' \in Outcomes \cup {NoOutcome}
    BY <1>5, <2>1 DEF LoopCheck, Outcome, Outcomes, Calls, Codes, BaseInv, TypeOK
  <2>3. call' = call \/ call' = NoCall
    BY <1>5 DEF LoopCheck
  <2>4. TypeOK'
    BY <1>5, <2>2, <2>3 DEF LoopCheck, BaseInv, TypeOK, svars
  <2>5. CallInv'
    <3>1. CASE expired
      BY <1>5, <3>1 DEF LoopCheck, CallInv, NoCall
    <3>2. CASE ~expired
      BY <1>5, <3>2 DEF LoopCheck, BaseInv, CallInv
    <3>. QED  BY <3>1, <3>2
  <2>. QED  BY <1>5, <2>3, <2>4, <2>5, MasterOnly DEF LoopCheck, Local, svars
<1>6. CASE ReadOther
  <2>1. TypeOK' /\ CallInv'
    BY <1>6 DEF ReadOther, BaseInv, TypeOK, CallInv, svars
  <2>. QED  BY <1>6, <2>1, MasterOnly DEF ReadOther, Local, svars
<1>. QED  BY <1>1, <1>2, <1>3, <1>4, <1>5, <1>6

\* The end of the commissioning of a slave.
LEMMA EnterPreOpKind ==
    ASSUME BaseInv, NEW s \in Slaves, EnterPreOp(s)
    PROVE  BaseInv' /\ Local
<1>1. /\ sstate[s] = "DiscoverySync" /\ listener[s] = "configured"
      /\ UNCHANGED <<mvars, sauth, ifcfg, info, net>>
  BY DEF EnterPreOp, BaseInv, ListenerInv
<1>2. sstate' = [sstate EXCEPT ![s] = "PreOp"]
  BY <1>1 DEF EnterPreOp, AfterSetTargetState, MayTransition, Edges
<1>3. listener' = [listener EXCEPT ![s] = "exited"]
  BY <1>2 DEF EnterPreOp, BaseInv, TypeOK
<1>4. TypeOK'
  BY <1>1, <1>2, <1>3 DEF BaseInv, TypeOK, mvars, DeviceStates
<1>5. ListenerInv'
  BY <1>1, <1>2, <1>3 DEF BaseInv, TypeOK, ListenerInv
<1>6. (\A h \in net : WellFormed(h))' /\ CallInv'
  BY <1>1 DEF BaseInv, WellFormed, CallInv, mvars
<1>7. Local
  BY <1>1 DEF Local, mvars
<1>. QED  BY <1>4, <1>5, <1>6, <1>7 DEF BaseInv

\* What an answer does to the slave's contexts and to the wire.
LEMMA RespondEffect ==
    ASSUME BaseInv, NEW s \in Slaves, NEW f \in net, f.op \in Requests,
           NEW tlv \in Tlvs, Accepts(s, f), Respond(s, f, tlv)
    PROVE  /\ f.src = Master /\ f \in Frames
           /\ listener[s] = "running" /\ Reaches(f, s) /\ f.seq > sauth[s][Master].rx
           /\ sauth' \in [Slaves -> [Macs -> Contexts]]
           /\ sauth'[s][Master].rx = f.seq
           /\ Spent(sauth'[s], s, NextSeq(sauth[s], s))
           /\ \A t \in Slaves \ {s} : sauth'[t] = sauth[t]
           /\ \E g \in Frames :
                 /\ g.src = s /\ g.op = ResponseTo(f.op) /\ g.tid = f.tid /\ g.tlv = tlv
                 /\ g.seq = NextSeq(sauth[s], s) /\ net' = net \cup {g}
<1>. USE DiscoveryAssumption
<1>. DEFINE acc == AcceptAuthTag(sauth[s], f.src, f.seq)
            own == AddNewDevice(acc, s)
            tag == CreateAuthTag(own, s)
            g == [src |-> s, dst |-> f.src, op |-> ResponseTo(f.op), tid |-> f.tid,
                  tlv |-> tlv, seq |-> TagSeq(AddNewDevice(sauth[s], s), s)]
<1>1. f \in Frames
  BY DEF BaseInv, TypeOK
<1>2. f.src = Master
  BY <1>1 DEF BaseInv, WellFormed, Requests, Responses, Frames, Macs
<1>3. /\ sauth[s] \in [Macs -> Contexts] /\ s \in Macs /\ Master \in Macs /\ s # Master
      /\ f.seq \in 0..SeqMax /\ f.tid \in Tids
  BY <1>1 DEF BaseInv, TypeOK, Macs, Frames
<1>4. listener[s] = "running" /\ Reaches(f, s) /\ f.seq > sauth[s][Master].rx
  BY <1>2 DEF Accepts, ValidateAuthTag
<1>5. acc \in [Macs -> Contexts] /\ acc[Master].rx = f.seq /\ acc[s] = sauth[s][s]
  <2>1. acc \in [Macs -> Contexts]
    BY <1>2, <1>3, ContextTypes
  <2>2. acc[Master].rx = f.seq
    BY <1>2, <1>3 DEF AcceptAuthTag, Contexts
  <2>3. acc[s] = sauth[s][s]
    BY <1>2, <1>3, ContextFrame
  <2>. QED  BY <2>1, <2>2, <2>3
<1>. HIDE DEF acc
<1>6. own \in [Macs -> Contexts] /\ own[Master] = acc[Master]
  <2>1. own \in [Macs -> Contexts]
    BY <1>3, <1>5, ContextTypes
  <2>2. own[Master] = acc[Master]
    BY <1>3, <1>5, ContextFrame
  <2>. QED  BY <2>1, <2>2
<1>7. /\ tag \in [Macs -> Contexts] /\ tag[Master] = own[Master]
      /\ Spent(tag, s, NextSeq(sauth[s], s))
  <2>1. tag \in [Macs -> Contexts]
    BY <1>3, <1>6, ContextTypes
  <2>2. tag[Master] = own[Master]
    BY <1>3, <1>6, ContextFrame
  <2>3. NextSeq(acc, s) = NextSeq(sauth[s], s)
    BY <1>5 DEF NextSeq, HasDevice, TagSeq
  <2>4. Spent(tag, s, NextSeq(acc, s))
    BY <1>3, <1>5, TagSpends
  <2>. QED  BY <2>1, <2>2, <2>3, <2>4
<1>8. sauth' = [sauth EXCEPT ![s] = tag]
  BY DEF Respond, AfterResponse, acc
<1>9. TagSeq(AddNewDevice(sauth[s], s), s) = NextSeq(sauth[s], s)
      /\ NextSeq(sauth[s], s) \in 0..SeqMax
  BY <1>3, TagSpends
<1>. HIDE DEF own, tag
<1>10. /\ sauth' \in [Slaves -> [Macs -> Contexts]] /\ sauth'[s] = tag
       /\ \A t \in Slaves \ {s} : sauth'[t] = sauth[t]
  BY <1>7, <1>8 DEF BaseInv, TypeOK
<1>11. g \in Frames /\ g.seq = NextSeq(sauth[s], s)
  <2>1. ResponseTo(f.op) \in Responses
    BY DEF ResponseTo, Requests, Responses
  <2>. QED  BY <1>2, <1>3, <1>9, <2>1 DEF Frames
<1>12. net' = net \cup {g}
  BY DEF Respond
<1>13. g.src = s /\ g.op = ResponseTo(f.op) /\ g.tid = f.tid /\ g.tlv = tlv
  OBVIOUS
<1>. HIDE DEF g
<1>. QED  BY <1>1, <1>2, <1>4, <1>5, <1>6, <1>7, <1>10, <1>11, <1>12, <1>13

\* A handler of the listener, whatever it answers.
LEMMA AnswerKind ==
    ASSUME BaseInv, NEW s \in Slaves, NEW f \in net, f.op \in Requests,
           NEW tlv \in Tlvs, Accepts(s, f), Respond(s, f, tlv), UNCHANGED <<mvars, sstate>>,
           f.op = "DiscoverReq" => tlv.kind = "deviceInfo",
           \/ UNCHANGED <<ifcfg, info, listener>> /\ (f.op = "SetIpReq" => tlv.val # "NoError")
           \/ /\ f.op = "SetIpReq" /\ tlv.val # "NoError"
              /\ ifcfg' = [ifcfg EXCEPT ![s] = f.tlv.val] /\ UNCHANGED <<info, listener>>
           \/ /\ f.op = "SetIpReq"
              /\ ifcfg' = [ifcfg EXCEPT ![s] = f.tlv.val]
              /\ info' = [info EXCEPT ![s] = f.tlv.val]
              /\ listener' = [listener EXCEPT ![s] = "configured"]
    PROVE  BaseInv' /\ \E g \in Frames : Answered(s, f, g)
<1>. USE DiscoveryAssumption
<1>1. /\ f.src = Master /\ f \in Frames
      /\ listener[s] = "running" /\ Reaches(f, s) /\ f.seq > sauth[s][Master].rx
      /\ sauth' \in [Slaves -> [Macs -> Contexts]]
      /\ sauth'[s][Master].rx = f.seq
      /\ Spent(sauth'[s], s, NextSeq(sauth[s], s))
      /\ \A t \in Slaves \ {s} : sauth'[t] = sauth[t]
  BY RespondEffect
<1>2. PICK g \in Frames :
         /\ g.src = s /\ g.op = ResponseTo(f.op) /\ g.tid = f.tid /\ g.tlv = tlv
         /\ g.seq = NextSeq(sauth[s], s) /\ net' = net \cup {g}
  BY RespondEffect
<1>3. f.op = "SetIpReq" => f.tlv.val \in Configs
  BY <1>1 DEF BaseInv, WellFormed, Frames, Tlvs
<1>4. IsPositive(g) => f.op = "SetIpReq" /\ tlv.val = "NoError"
  BY <1>2 DEF IsPositive, ResponseTo, Requests
<1>5. Answered(s, f, g)
  <2>1. \/ UNCHANGED <<ifcfg, info>> /\ ~IsPositive(g)
        \/ /\ f.op = "SetIpReq" /\ ifcfg' = [ifcfg EXCEPT ![s] = f.tlv.val]
           /\ info' = info /\ ~IsPositive(g)
        \/ /\ f.op = "SetIpReq" /\ ifcfg' = [ifcfg EXCEPT ![s] = f.tlv.val]
           /\ info' = [info EXCEPT ![s] = f.tlv.val]
    BY <1>4
  <2>. QED  BY <1>1, <1>2, <2>1 DEF Answered
<1>6. TypeOK'
  <2>1. net' \subseteq Frames
    BY <1>2 DEF BaseInv, TypeOK
  <2>2. /\ ifcfg' \in [Slaves -> Configs \cup {NoConfig}]
        /\ info' \in [Slaves -> Configs \cup {NoConfig}]
        /\ listener' \in [Slaves -> {"running", "configured", "exited"}]
    BY <1>3 DEF BaseInv, TypeOK
  <2>. QED  BY <1>1, <2>1, <2>2 DEF BaseInv, TypeOK, mvars
<1>7. (\A h \in net : WellFormed(h))'
  <2>1. WellFormed(g)
    BY <1>2 DEF WellFormed, ResponseTo, Requests, Responses
  <2>. QED  BY <1>2, <2>1 DEF BaseInv, WellFormed
<1>8. CallInv'
  BY DEF BaseInv, CallInv, mvars
<1>9. ListenerInv'
  <2>1. info[s] = NoConfig /\ sstate[s] = "DiscoverySync"
    BY <1>1 DEF BaseInv, ListenerInv
  <2>. QED  BY <1>1, <2>1 DEF BaseInv, ListenerInv, TypeOK
<1>. QED  BY <1>5, <1>6, <1>7, <1>8, <1>9 DEF BaseInv

\* handle_discovery_request, handle_get_ip_request and handle_set_ip_request.
LEMMA HandlerKind ==
    ASSUME BaseInv, NEW s \in Slaves, NEW f \in net,
           HandleDiscover(s, f) \/ HandleGetIp(s, f) \/ HandleSetIp(s, f)
    PROVE  BaseInv' /\ \E g \in Frames : Answered(s, f, g)
<1>1. CASE HandleDiscover(s, f)
  <2>1. PICK v \in {"identity", "default"} : Respond(s, f, Tlv("deviceInfo", v))
    BY <1>1 DEF HandleDiscover
  <2>2. Tlv("deviceInfo", v) \in Tlvs /\ Tlv("deviceInfo", v).kind = "deviceInfo"
    BY DEF Tlv, Tlvs
  <2>3. /\ Accepts(s, f) /\ f.op = "DiscoverReq" /\ f.op \in Requests
        /\ UNCHANGED <<mvars, sstate>> /\ UNCHANGED <<ifcfg, info, listener>>
    BY <1>1 DEF HandleDiscover, Requests
  <2>. QED  BY <2>1, <2>2, <2>3, AnswerKind
<1>2. CASE HandleGetIp(s, f)
  <2>1. PICK t \in {Tlv("ipReport", info[s]), Tlv("status", "ErrOsFailure")} : Respond(s, f, t)
    BY <1>2 DEF HandleGetIp
  <2>2. t \in Tlvs
    BY DEF Tlv, Tlvs, BaseInv, TypeOK
  <2>3. /\ Accepts(s, f) /\ f.op = "GetIpReq" /\ f.op \in Requests
        /\ UNCHANGED <<mvars, sstate>> /\ UNCHANGED <<ifcfg, info, listener>>
    BY <1>2 DEF HandleGetIp, Requests
  <2>. QED  BY <2>1, <2>2, <2>3, AnswerKind
<1>3. CASE HandleSetIp(s, f)
  <2>1. /\ Accepts(s, f) /\ f.op = "SetIpReq" /\ f.op \in Requests
        /\ UNCHANGED <<mvars, sstate>>
    BY <1>3 DEF HandleSetIp, Requests
  <2>2. \A v \in {"NoError", "ErrHardwareAccess", "ErrOsFailure"} :
           Tlv("status", v) \in Tlvs /\ Tlv("status", v).val = v
    BY DEF Tlv, Tlvs
  <2>3. CASE /\ Respond(s, f, Tlv("status", "ErrHardwareAccess"))
             /\ UNCHANGED <<ifcfg, info, listener>>
    BY <2>1, <2>2, <2>3, AnswerKind
  <2>4. CASE /\ ifcfg' = [ifcfg EXCEPT ![s] = f.tlv.val]
             /\ Respond(s, f, Tlv("status", "ErrOsFailure"))
             /\ UNCHANGED <<info, listener>>
    BY <2>1, <2>2, <2>4, AnswerKind
  <2>5. CASE /\ ifcfg' = [ifcfg EXCEPT ![s] = f.tlv.val]
             /\ info' = [info EXCEPT ![s] = f.tlv.val]
             /\ Respond(s, f, Tlv("status", "NoError"))
             /\ listener' = [listener EXCEPT ![s] = "configured"]
    BY <2>1, <2>2, <2>5, AnswerKind
  <2>. QED  BY <1>3, <2>3, <2>4, <2>5 DEF HandleSetIp
<1>. QED  BY <1>1, <1>2, <1>3

\* The initial states satisfy the base invariant.
LEMMA BaseInit == Init => BaseInv
<1>. SUFFICES ASSUME Init PROVE BaseInv
  OBVIOUS
<1>. USE DiscoveryAssumption, SeqMaxAssumption
<1>1. NoContext \in Contexts
  BY DEF NoContext, Contexts
<1>2. [m \in Macs |-> NoContext] \in [Macs -> Contexts]
  BY <1>1
<1>3. AddNewDevice([m \in Macs |-> NoContext], Master) \in [Macs -> Contexts]
  BY <1>2, ZeroSeq, ContextTypes DEF Macs
<1>4. TypeOK
  <2>1. mauth \in [Macs -> Contexts]
    BY <1>2 DEF Init
  <2>2. sauth \in [Slaves -> [Macs -> Contexts]]
    BY <1>3 DEF Init
  <2>3. counter \in 1 .. MaxRequests + 1
    BY DEF Init
  <2>4. mstate \in DeviceStates /\ sstate \in [Slaves -> DeviceStates]
    BY DEF Init, DeviceStates
  <2>5. /\ discovered \in [Slaves -> {"absent", "identity", "default"}]
        /\ mpc \in {"idle", "check", "next"} /\ expired \in BOOLEAN
        /\ call \in Calls \cup {NoCall} /\ result \in Outcomes \cup {NoOutcome}
        /\ assigned \subseteq Slaves \X Configs
        /\ listener \in [Slaves -> {"running", "configured", "exited"}]
        /\ ifcfg \in [Slaves -> Configs \cup {NoConfig}]
        /\ info \in [Slaves -> Configs \cup {NoConfig}] /\ net \subseteq Frames
    BY DEF Init
  <2>. QED  BY <2>1, <2>2, <2>3, <2>4, <2>5 DEF TypeOK
<1>5. (\A f \in net : WellFormed(f)) /\ CallInv /\ ListenerInv
  BY DEF Init, CallInv, ListenerInv, NoCall
<1>. QED  BY <1>4, <1>5 DEF BaseInv

\* Every step keeps the base invariant and is of one of the four kinds.
LEMMA StepKinds == BaseInv /\ [Next]_vars => BaseInv' /\ StepKind
<1>. SUFFICES ASSUME BaseInv, [Next]_vars PROVE BaseInv' /\ StepKind
  OBVIOUS
<1>1. CASE DiscoverDevices
  <2>1. "DiscoverReq" \in Requests /\ NoTlv \in Tlvs
    BY DEF Requests, NoTlv, Tlv, Tlvs
  <2>. QED  BY <1>1, <2>1, RequestKind DEF DiscoverDevices, StepKind
<1>2. ASSUME NEW s \in Slaves, GetIpConfig(s)  PROVE BaseInv' /\ StepKind
  <2>1. "GetIpReq" \in Requests /\ NoTlv \in Tlvs
    BY DEF Requests, NoTlv, Tlv, Tlvs
  <2>. QED  BY <1>2, <2>1, RequestKind DEF GetIpConfig, StepKind
<1>3. ASSUME NEW s \in Slaves, NEW c \in Configs, SetIpConfig(s, c)
      PROVE  BaseInv' /\ StepKind
  <2>1. "SetIpReq" \in Requests /\ Tlv("ipConfig", c) \in Tlvs
    BY DEF Requests, Tlv, Tlvs
  <2>. QED  BY <1>3, <2>1, RequestKind DEF SetIpConfig, StepKind
<1>4. ASSUME NEW f \in net, ReadDiscoverRes(f) \/ ReadResponse(f)
      PROVE  BaseInv' /\ StepKind
  BY <1>4, DiscoverResKind, ResponseKind DEF StepKind
<1>5. ASSUME NEW s \in Slaves, NEW f \in net,
             HandleDiscover(s, f) \/ HandleGetIp(s, f) \/ HandleSetIp(s, f)
      PROVE  BaseInv' /\ StepKind
  BY <1>5, HandlerKind DEF StepKind
<1>6. ASSUME NEW s \in Slaves, EnterPreOp(s)  PROVE BaseInv' /\ StepKind
  BY <1>6, EnterPreOpKind DEF StepKind
<1>7. ASSUME \/ \E op \in Requests : RefuseCall(op)
             \/ ClearDiscoveredDevices \/ MasterEnterPreOp
             \/ Expire \/ LoopCheck \/ ReadOther
      PROVE  BaseInv' /\ StepKind
  BY <1>7, LocalMasterKind DEF StepKind
<1>8. CASE UNCHANGED vars
  <2>1. TypeOK' /\ CallInv'
    BY <1>8 DEF vars, mvars, svars, BaseInv, TypeOK, CallInv
  <2>2. Local
    BY <1>8 DEF vars, mvars, svars, Local
  <2>. QED  BY <1>8, <2>1, <2>2, MasterOnly DEF vars, StepKind
<1>. QED  BY <1>1, <1>2, <1>3, <1>4, <1>5, <1>6, <1>7, <1>8
          DEF Next, MasterCall, MasterLoop, Listener
------------------------------------------------------------------------------
(***************************************************************************)
(* The protocol with one master.                                           *)
(***************************************************************************)

\* A transaction identifier names one request.
RequestsUnique ==
    /\ \A f \in net : f.src = Master => f.tid < counter
    /\ \A f, g \in net : f.src = Master /\ g.src = Master /\ f.tid = g.tid => f = g

\* A running set_ip_config has sent its request.
CallSent ==
    call.op = "SetIpReq" => \E f \in net : IsSetRequest(f, call.tid, call.cfg)

\* A positive SetIpRes comes from a slave that is done with exactly the
\* configuration the request of that transaction carried.
PositiveAnswerInv ==
    \A f \in net : IsPositive(f) =>
        /\ info[f.src] # NoConfig
        /\ \E r \in net : IsSetRequest(r, f.tid, info[f.src])

\* Every answer belongs to a request inside the slave's replay window.
AnswerInv ==
    \A f \in net : f.src \in Slaves =>
        \E r \in net : r.src = Master /\ r.tid = f.tid /\ r.seq <= sauth[f.src][Master].rx

AssignedInv ==
    \A s \in Slaves, c \in Configs : <<s, c>> \in assigned => info[s] = c

SafetyInv ==
    /\ BaseInv
    /\ RequestsUnique
    /\ CallSent
    /\ PositiveAnswerInv
    /\ AnswerInv
    /\ AssignedInv

\* The numbers of frames and windows are numbers.
LEMMA Numbers ==
    ASSUME BaseInv
    PROVE  /\ counter \in Nat
           /\ \A f \in net : f.tid \in Nat /\ f.seq \in Nat
           /\ \A s \in Slaves : sauth[s][Master].rx \in Nat
<1>1. counter \in Nat
  BY DEF BaseInv, TypeOK
<1>2. \A f \in net : f.tid \in Nat /\ f.seq \in Nat
  BY SeqMaxAssumption DEF BaseInv, TypeOK, Frames, Tids
<1>3. \A s \in Slaves : sauth[s][Master].rx \in Nat
  BY SeqMaxAssumption DEF BaseInv, TypeOK, Contexts, Macs
<1>. QED  BY <1>1, <1>2, <1>3

\* What a slave that is listening has in store.
LEMMA ListeningUnconfigured ==
    ASSUME BaseInv, NEW s \in Slaves, listener[s] = "running"
    PROVE  info[s] = NoConfig
BY DEF BaseInv, ListenerInv

\* The configuration in a SetIpReq is one the application may assign.
LEMMA RequestedConfig ==
    ASSUME BaseInv, NEW f \in net, f.op = "SetIpReq"
    PROVE  f.tlv.val \in Configs /\ f.tlv.val # NoConfig
<1>1. f \in Frames /\ f.tlv.kind = "ipConfig"
  BY DEF BaseInv, TypeOK, WellFormed
<1>. QED  BY <1>1, DiscoveryAssumption DEF Frames, Tlvs

\* A request of the master preserves the invariant.
LEMMA RequestStep ==
    ASSUME SafetyInv, NEW f \in Frames, Requested(f)
    PROVE  RequestsUnique' /\ CallSent' /\ PositiveAnswerInv' /\ AnswerInv' /\ AssignedInv'
<1>. USE DiscoveryAssumption
<1>1. /\ f.src = Master /\ f.tid = counter /\ counter' = counter + 1
      /\ UNCHANGED <<assigned, sauth, info>>
      /\ net' = net \cup {f} \/ net' = net
  BY DEF Requested, svars
<1>2. counter \in Nat /\ \A h \in net : h.tid \in Nat
  BY Numbers DEF SafetyInv
<1>3. RequestsUnique'
  BY <1>1, <1>2 DEF SafetyInv, RequestsUnique
<1>4. CallSent'
  <2>1. CASE net' = net \cup {f} /\ call'.op = f.op /\ call'.tid = f.tid
             /\ (f.op = "SetIpReq" => call'.cfg = f.tlv.val)
    BY <1>1, <2>1 DEF CallSent, IsSetRequest
  <2>2. CASE UNCHANGED <<net, call>>
    BY <2>2 DEF SafetyInv, CallSent
  <2>. QED  BY <2>1, <2>2 DEF Requested
<1>5. PositiveAnswerInv'
  BY <1>1 DEF SafetyInv, PositiveAnswerInv, IsPositive
<1>6. AnswerInv'
  BY <1>1 DEF SafetyInv, AnswerInv
<1>7. AssignedInv'
  BY <1>1 DEF SafetyInv, AssignedInv
<1>. QED  BY <1>3, <1>4, <1>5, <1>6, <1>7

\* An answer that is taken preserves the invariant: a positive SetIpRes of the
\* call's transaction answers the call's own request.
LEMMA TakenStep ==
    ASSUME SafetyInv, NEW f \in net, Taken(f)
    PROVE  RequestsUnique' /\ CallSent' /\ PositiveAnswerInv' /\ AnswerInv' /\ AssignedInv'
<1>1. UNCHANGED <<counter, sauth, info, net>> /\ (call' = call \/ call' = NoCall)
  BY DEF Taken, svars
<1>2. RequestsUnique' /\ PositiveAnswerInv' /\ AnswerInv'
  BY <1>1 DEF SafetyInv, RequestsUnique, PositiveAnswerInv, AnswerInv
<1>3. CallSent'
  BY <1>1 DEF SafetyInv, CallSent, NoCall
<1>4. AssignedInv'
  <2>1. CASE assigned' = assigned
    BY <1>1, <2>1 DEF SafetyInv, AssignedInv
  <2>2. CASE /\ IsPositive(f) /\ call.op = "SetIpReq" /\ call.tid = f.tid
             /\ assigned' = assigned \cup {<<f.src, call.cfg>>}
    <3>1. PICK r \in net : IsSetRequest(r, f.tid, info[f.src])
      BY <2>2 DEF SafetyInv, PositiveAnswerInv
    <3>2. PICK q \in net : IsSetRequest(q, call.tid, call.cfg)
      BY <2>2 DEF SafetyInv, CallSent
    <3>3. r = q
      BY <2>2, <3>1, <3>2 DEF SafetyInv, RequestsUnique, IsSetRequest
    <3>4. info[f.src] = call.cfg
      BY <3>1, <3>2, <3>3 DEF IsSetRequest
    <3>. QED  BY <1>1, <2>2, <3>4 DEF SafetyInv, AssignedInv
  <2>. QED  BY <2>1, <2>2 DEF Taken
<1>. QED  BY <1>2, <1>3, <1>4

\* An answer preserves the invariant: the window has moved up to the request,
\* and a positive one is sent with the configuration stored.
LEMMA AnswerStep ==
    ASSUME SafetyInv, BaseInv', NEW s \in Slaves, NEW f \in net, NEW g \in Frames,
           Answered(s, f, g)
    PROVE  RequestsUnique' /\ CallSent' /\ PositiveAnswerInv' /\ AnswerInv' /\ AssignedInv'
<1>. USE DiscoveryAssumption
<1>1. /\ f.src = Master /\ f.seq > sauth[s][Master].rx
      /\ g.src = s /\ g.op = ResponseTo(f.op) /\ g.tid = f.tid /\ net' = net \cup {g}
      /\ sauth'[s][Master].rx = f.seq /\ \A t \in Slaves \ {s} : sauth'[t] = sauth[t]
      /\ UNCHANGED <<counter, call, assigned>>
  BY DEF Answered, mvars
<1>2. /\ f.seq \in Nat /\ \A t \in Slaves : sauth[t][Master].rx \in Nat
      /\ \A h \in net : h.seq \in Nat
  BY Numbers DEF SafetyInv
<1>3. info[s] = NoConfig
  BY ListeningUnconfigured DEF Answered, SafetyInv
<1>4. RequestsUnique'
  BY <1>1 DEF SafetyInv, RequestsUnique
<1>5. CallSent'
  BY <1>1 DEF SafetyInv, CallSent
<1>6. AnswerInv'
  <2>1. SUFFICES ASSUME NEW h \in net', h.src \in Slaves
                 PROVE  \E r \in net' : /\ r.src = Master /\ r.tid = h.tid
                                       /\ r.seq <= sauth'[h.src][Master].rx
    BY DEF AnswerInv
  <2>2. CASE h = g
    BY <1>1, <1>2, <2>2
  <2>3. CASE h \in net
    <3>1. PICK r \in net : r.src = Master /\ r.tid = h.tid /\ r.seq <= sauth[h.src][Master].rx
      BY <2>1, <2>3 DEF SafetyInv, AnswerInv
    <3>2. r.seq <= sauth'[h.src][Master].rx
      BY <1>1, <1>2, <2>1, <3>1
    <3>. QED  BY <1>1, <3>1, <3>2
  <2>. QED  BY <1>1, <2>2, <2>3
<1>7. CASE info' = info /\ ~IsPositive(g)
  <2>1. PositiveAnswerInv'
    BY <1>1, <1>7 DEF SafetyInv, PositiveAnswerInv
  <2>2. AssignedInv'
    BY <1>1, <1>7 DEF SafetyInv, AssignedInv
  <2>. QED  BY <1>4, <1>5, <1>6, <2>1, <2>2
<1>8. CASE f.op = "SetIpReq" /\ info' = [info EXCEPT ![s] = f.tlv.val]
  <2>1. /\ f.tlv.val \in Configs /\ f.tlv.val # NoConfig /\ info'[s] = f.tlv.val
        /\ \A t \in Slaves \ {s} : info'[t] = info[t]
    BY <1>8, RequestedConfig DEF SafetyInv, BaseInv, TypeOK
  <2>2. PositiveAnswerInv'
    <3>1. IsSetRequest(f, g.tid, info'[s])
      BY <1>1, <1>8, <2>1 DEF IsSetRequest
    <3>2. \A h \in net : IsPositive(h) => h.src # s
      BY <1>3 DEF SafetyInv, PositiveAnswerInv
    <3>. QED  BY <1>1, <2>1, <3>1, <3>2 DEF SafetyInv, PositiveAnswerInv, IsPositive
  <2>3. AssignedInv'
    BY <1>1, <1>3, <2>1 DEF SafetyInv, AssignedInv
  <2>. QED  BY <1>4, <1>5, <1>6, <2>2, <2>3
<1>. QED  BY <1>7, <1>8 DEF Answered

\* The initial states satisfy the invariant.
LEMMA SafetyInit == Init => SafetyInv
<1>. SUFFICES ASSUME Init PROVE SafetyInv
  OBVIOUS
<1>1. RequestsUnique /\ CallSent /\ PositiveAnswerInv /\ AnswerInv /\ AssignedInv
  BY DEF Init, RequestsUnique, CallSent, PositiveAnswerInv, AnswerInv, AssignedInv, NoCall
<1>. QED  BY <1>1, BaseInit DEF SafetyInv

\* Every step preserves the invariant.
LEMMA SafetyStep == SafetyInv /\ [Next]_vars => SafetyInv'
<1>. SUFFICES ASSUME SafetyInv, [Next]_vars PROVE SafetyInv'
  OBVIOUS
<1>1. BaseInv' /\ StepKind
  BY StepKinds DEF SafetyInv
<1>2. ASSUME NEW f \in Frames, Requested(f)  PROVE SafetyInv'
  BY <1>1, <1>2, RequestStep DEF SafetyInv
<1>3. ASSUME NEW f \in net, Taken(f)  PROVE SafetyInv'
  BY <1>1, <1>3, TakenStep DEF SafetyInv
<1>4. ASSUME NEW s \in Slaves, NEW f \in net, NEW g \in Frames, Answered(s, f, g)
      PROVE  SafetyInv'
  BY <1>1, <1>4, AnswerStep DEF SafetyInv
<1>5. CASE Local
  <2>1. RequestsUnique' /\ PositiveAnswerInv' /\ AnswerInv' /\ AssignedInv'
    BY <1>5 DEF Local, SafetyInv, RequestsUnique, PositiveAnswerInv, AnswerInv, AssignedInv
  <2>2. CallSent'
    BY <1>5 DEF Local, SafetyInv, CallSent, NoCall
  <2>. QED  BY <1>1, <2>1, <2>2 DEF SafetyInv
<1>. QED  BY <1>1, <1>2, <1>3, <1>4, <1>5 DEF StepKind

\* The inductive invariant holds in every reachable state of the protocol.
THEOREM Safety == Spec => []SafetyInv
BY SafetyInit, SafetyStep, PTL DEF Spec

\* Types: the contexts, the caches and the frames of both programs keep their
\* types; sequence numbers never leave their width.
THEOREM TypeCorrect == Spec => []TypeOK
<1>1. SafetyInv => TypeOK
  BY DEF SafetyInv, BaseInv
<1>. QED  BY <1>1, Safety, PTL

\* When set_ip_config has returned Ok, the slave has that configuration on its
\* interface and in its device information, whatever the network loses,
\* repeats, delays or floods.
THEOREM OkIsApplied == Spec => []OkMeansApplied
<1>1. SafetyInv => OkMeansApplied
  BY DiscoveryAssumption DEF SafetyInv, BaseInv, AssignedInv, ListenerInv, OkMeansApplied
<1>. QED  BY <1>1, Safety, PTL

\* A slave answers a new transaction only: the request it takes is beyond its
\* replay window, those it has answered are inside.
LEMMA AnswerFresh ==
    ASSUME SafetyInv, NEW s \in Slaves, NEW f \in net, NEW g \in Frames, Answered(s, f, g),
           NEW h \in net, h.src = s
    PROVE  h.tid # g.tid
<1>1. SUFFICES ASSUME h.tid = f.tid  PROVE FALSE
  BY DEF Answered
<1>2. f.src = Master /\ f.seq > sauth[s][Master].rx
  BY DEF Answered
<1>3. PICK r \in net : r.src = Master /\ r.tid = h.tid /\ r.seq <= sauth[s][Master].rx
  BY DEF SafetyInv, AnswerInv
<1>4. r = f
  BY <1>1, <1>2, <1>3 DEF SafetyInv, RequestsUnique
<1>5. f.seq \in Nat /\ sauth[s][Master].rx \in Nat
  BY Numbers DEF SafetyInv
<1>. QED  BY <1>2, <1>3, <1>4, <1>5

\* A slave acts on a request at most once, however often it is delivered, up
\* to and beyond the saturation of the sequence number.
THEOREM AtMostOneAnswer == Spec => []AnsweredOnce
<1>1. Init => AnsweredOnce
  BY DEF Init, AnsweredOnce
<1>2. SafetyInv /\ AnsweredOnce /\ [Next]_vars => AnsweredOnce'
  <2>. SUFFICES ASSUME SafetyInv, AnsweredOnce, [Next]_vars PROVE AnsweredOnce'
    OBVIOUS
  <2>1. StepKind
    BY StepKinds DEF SafetyInv
  <2>2. CASE net' = net
    BY <2>2 DEF AnsweredOnce
  <2>3. ASSUME NEW f \in Frames, Requested(f)  PROVE AnsweredOnce'
    BY <2>2, <2>3, DiscoveryAssumption DEF Requested, AnsweredOnce
  <2>4. ASSUME NEW s \in Slaves, NEW f \in net, NEW g \in Frames, Answered(s, f, g)
        PROVE  AnsweredOnce'
    <3>1. net' = net \cup {g} /\ g.src = s
      BY <2>4 DEF Answered
    <3>2. \A h \in net : h.src = s => h.tid # g.tid
      BY <2>4, AnswerFresh
    <3>. QED  BY <3>1, <3>2 DEF AnsweredOnce
  <2>. QED  BY <2>1, <2>2, <2>3, <2>4 DEF StepKind, Taken, Local
<1>. QED  BY <1>1, <1>2, Safety, PTL DEF Spec

\* A slave that has stored a configuration keeps it: no request that arrives
\* later, repeated or flooded, changes it.
THEOREM NeverReconfigured == Spec => ConfiguredOnce
<1>. DEFINE Kept == \A s \in Slaves :
               info[s] # NoConfig => info'[s] = info[s] /\ ifcfg'[s] = ifcfg[s]
<1>1. SafetyInv /\ [Next]_vars => [Kept]_vars
  <2>. SUFFICES ASSUME SafetyInv, [Next]_vars PROVE Kept
    OBVIOUS
  <2>1. StepKind
    BY StepKinds DEF SafetyInv
  <2>2. ASSUME NEW s \in Slaves, NEW f \in net, NEW g \in Frames, Answered(s, f, g)
        PROVE  Kept
    <3>1. info[s] = NoConfig
      BY <2>2, ListeningUnconfigured DEF Answered, SafetyInv
    <3>. QED  BY <2>2, <3>1 DEF Answered, SafetyInv, BaseInv, TypeOK
  <2>. QED  BY <2>1, <2>2 DEF StepKind, Requested, Taken, Local, svars
<1>. QED  BY <1>1, Safety, PTL DEF Spec, ConfiguredOnce
------------------------------------------------------------------------------
(***************************************************************************)
(* The replay windows.                                                     *)
(***************************************************************************)

\* seq is behind the counter of mac, which has stopped when it is at its end.
BehindCounter(devices, mac, seq) ==
    devices[mac].known /\ (seq < devices[mac].tx \/ devices[mac].tx = SeqMax)

\* Every frame is behind the counter of its sender.
SentInv ==
    /\ \A f \in net : f.src = Master => BehindCounter(mauth, Master, f.seq)
    /\ \A f \in net : f.src \in Slaves => BehindCounter(sauth[f.src], f.src, f.seq)

\* The edge of a window is a frame of the peer.
EdgeInv ==
    \A s \in Slaves :
        /\ mauth[s].rx > 0 => \E f \in net : f.src = s /\ f.seq = mauth[s].rx
        /\ sauth[s][Master].rx > 0 =>
              \E f \in net : f.src = Master /\ f.seq = sauth[s][Master].rx

WindowInv == SentInv /\ EdgeInv

\* Spending a number puts it, and all that were behind the counter, behind it.
LEMMA SpentBehind ==
    ASSUME NEW d \in [Macs -> Contexts], NEW e \in [Macs -> Contexts], NEW m \in Macs,
           Spent(e, m, NextSeq(d, m))
    PROVE  /\ BehindCounter(e, m, NextSeq(d, m))
           /\ \A q \in Nat : BehindCounter(d, m, q) => BehindCounter(e, m, q)
<1>1. d[m].tx \in 0..SeqMax /\ e[m].tx \in 0..SeqMax /\ SeqMax \in Nat /\ SeqMax >= 1
  BY SeqMaxAssumption DEF Contexts
<1>2. e[m].known /\ e[m].tx = SaturatingInc(NextSeq(d, m))
  BY DEF Spent
<1>3. NextSeq(d, m) \in 0..SeqMax /\ (d[m].known => NextSeq(d, m) = d[m].tx)
  BY <1>1 DEF NextSeq, HasDevice, TagSeq
<1>4. \/ NextSeq(d, m) < SeqMax /\ e[m].tx = NextSeq(d, m) + 1
      \/ NextSeq(d, m) = SeqMax /\ e[m].tx = SeqMax
  BY <1>1, <1>2, <1>3 DEF SaturatingInc
<1>5. BehindCounter(e, m, NextSeq(d, m))
  BY <1>1, <1>2, <1>3, <1>4 DEF BehindCounter
<1>6. ASSUME NEW q \in Nat, BehindCounter(d, m, q)  PROVE BehindCounter(e, m, q)
  BY <1>1, <1>2, <1>3, <1>4, <1>6 DEF BehindCounter
<1>. QED  BY <1>5, <1>6

\* A request of the master.
LEMMA RequestWindow ==
    ASSUME BaseInv, BaseInv', WindowInv, NEW f \in Frames, Requested(f)
    PROVE  WindowInv'
<1>. USE DiscoveryAssumption
<1>1. /\ f.src = Master /\ f.seq = NextSeq(mauth, Master) /\ Spent(mauth', Master, f.seq)
      /\ \A s \in Slaves : mauth'[s] = mauth[s] \/ mauth'[s] = DefaultContext
      /\ net' = net \cup {f} \/ net' = net
      /\ sauth' = sauth
  BY DEF Requested, svars
<1>2. /\ BehindCounter(mauth', Master, f.seq)
      /\ \A q \in Nat : BehindCounter(mauth, Master, q) => BehindCounter(mauth', Master, q)
  <2>1. mauth \in [Macs -> Contexts] /\ mauth' \in [Macs -> Contexts] /\ Master \in Macs
    BY DEF BaseInv, TypeOK, Macs
  <2>. QED  BY <1>1, <2>1, SpentBehind
<1>3. SentInv'
  <2>1. \A h \in net : h.seq \in Nat
    BY Numbers
  <2>2. (\A h \in net : h.src = Master => BehindCounter(mauth, Master, h.seq))'
    BY <1>1, <1>2, <2>1 DEF WindowInv, SentInv
  <2>3. (\A h \in net : h.src \in Slaves => BehindCounter(sauth[h.src], h.src, h.seq))'
    BY <1>1 DEF WindowInv, SentInv
  <2>. QED  BY <2>2, <2>3 DEF SentInv
<1>4. EdgeInv'
  <2>1. DefaultContext.rx = 0
    BY DEF DefaultContext
  <2>. QED  BY <1>1, <2>1 DEF WindowInv, EdgeInv
<1>. QED  BY <1>3, <1>4 DEF WindowInv

\* An answer of a slave.
LEMMA AnswerWindow ==
    ASSUME BaseInv, BaseInv', WindowInv, NEW s \in Slaves, NEW f \in net, NEW g \in Frames,
           Answered(s, f, g)
    PROVE  WindowInv'
<1>. USE DiscoveryAssumption
<1>1. /\ f.src = Master /\ g.src = s /\ g.seq = NextSeq(sauth[s], s)
      /\ Spent(sauth'[s], s, g.seq) /\ sauth'[s][Master].rx = f.seq
      /\ \A t \in Slaves \ {s} : sauth'[t] = sauth[t]
      /\ net' = net \cup {g} /\ mauth' = mauth
  BY DEF Answered, mvars
<1>2. /\ BehindCounter(sauth'[s], s, g.seq)
      /\ \A q \in Nat : BehindCounter(sauth[s], s, q) => BehindCounter(sauth'[s], s, q)
  <2>1. sauth[s] \in [Macs -> Contexts] /\ sauth'[s] \in [Macs -> Contexts] /\ s \in Macs
    BY DEF BaseInv, TypeOK, Macs
  <2>. QED  BY <1>1, <2>1, SpentBehind
<1>3. SentInv'
  <2>1. \A h \in net : h.seq \in Nat
    BY Numbers
  <2>2. (\A h \in net : h.src = Master => BehindCounter(mauth, Master, h.seq))'
    BY <1>1 DEF WindowInv, SentInv
  <2>3. ASSUME NEW h \in net', h.src \in Slaves
        PROVE  BehindCounter(sauth'[h.src], h.src, h.seq)
    <3>1. CASE h = g
      BY <1>1, <1>2, <3>1
    <3>2. CASE h \in net
      BY <1>1, <1>2, <2>1, <2>3, <3>2 DEF WindowInv, SentInv
    <3>. QED  BY <1>1, <3>1, <3>2
  <2>. QED  BY <2>2, <2>3 DEF SentInv
<1>4. EdgeInv'
  BY <1>1 DEF WindowInv, EdgeInv
<1>. QED  BY <1>3, <1>4 DEF WindowInv

\* Every step keeps the windows in order.
LEMMA WindowStep == BaseInv /\ WindowInv /\ [Next]_vars => WindowInv'
<1>. SUFFICES ASSUME BaseInv, WindowInv, [Next]_vars PROVE WindowInv'
  OBVIOUS
<1>1. BaseInv' /\ StepKind
  BY StepKinds
<1>2. ASSUME NEW f \in net, Taken(f)  PROVE WindowInv'
  <2>1. /\ f.src \in Slaves /\ mauth'[f.src].rx = f.seq
        /\ \A m \in Macs \ {f.src} : mauth'[m] = mauth[m]
        /\ sauth' = sauth /\ net' = net
    BY <1>2 DEF Taken, svars
  <2>2. mauth'[Master] = mauth[Master] /\ \A s \in Slaves \ {f.src} : mauth'[s] = mauth[s]
    BY <2>1, DiscoveryAssumption DEF Macs
  <2>3. SentInv'
    BY <2>1, <2>2 DEF WindowInv, SentInv, BehindCounter
  <2>4. EdgeInv'
    BY <2>1, <2>2 DEF WindowInv, EdgeInv
  <2>. QED  BY <2>3, <2>4 DEF WindowInv
<1>3. CASE Local
  BY <1>3 DEF Local, WindowInv, SentInv, EdgeInv
<1>. QED  BY <1>1, <1>2, <1>3, RequestWindow, AnswerWindow DEF StepKind

\* The next frame of a known peer is never refused as a replay before the
\* counters are exhausted: every frame is behind its sender's counter, and a
\* window only moves to the number of such a frame.
THEOREM WindowsStayBehind == Spec => []WindowBehindPeer
<1>1. Init => WindowInv
  <2>. SUFFICES ASSUME Init PROVE WindowInv
    OBVIOUS
  <2>1. net = {}
    BY DEF Init
  <2>2. \A s \in Slaves : mauth[s].rx = 0 /\ sauth[s][Master].rx = 0
    BY DEF Init, NoContext, Macs, AddNewDevice, HasDevice, DefaultContext
  <2>. QED  BY <2>1, <2>2 DEF WindowInv, SentInv, EdgeInv
<1>2. SafetyInv /\ WindowInv /\ [Next]_vars => WindowInv'
  BY WindowStep DEF SafetyInv
<1>3. SafetyInv /\ WindowInv => WindowBehindPeer
  <2>. SUFFICES ASSUME SafetyInv, WindowInv, NEW s \in Slaves
                PROVE  /\ mauth[s].rx > 0 /\ sauth[s][s].tx < SeqMax => mauth[s].rx < sauth[s][s].tx
                       /\ sauth[s][Master].rx > 0 /\ mauth[Master].tx < SeqMax
                             => sauth[s][Master].rx < mauth[Master].tx
    BY DEF WindowBehindPeer
  <2>1. SeqMax \in Nat /\ sauth[s][s].tx \in Nat /\ mauth[Master].tx \in Nat
    BY SeqMaxAssumption DEF SafetyInv, BaseInv, TypeOK, Contexts, Macs
  <2>. QED  BY <2>1 DEF WindowInv, SentInv, EdgeInv, BehindCounter
<1>. QED  BY <1>1, <1>2, <1>3, Safety, PTL DEF Spec
------------------------------------------------------------------------------
(***************************************************************************)
(* The protocol implements the assignment of configurations.               *)
(***************************************************************************)

\* A new frame adds to the offers what it carries, if it is a SetIpReq, for
\* the slaves it reaches.
LEMMA OfferedBy ==
    ASSUME NEW f \in Frames, net' = net \cup {f}
    PROVE  /\ f.op # "SetIpReq" => Offered' = Offered
           /\ f.op = "SetIpReq" /\ f.tlv.val \in Configs =>
                 Offered' = Offered \cup ({s \in Slaves : Reaches(f, s)} \X {f.tlv.val})
<1>1. ASSUME f.op # "SetIpReq"  PROVE Offered' = Offered
  BY <1>1 DEF Offered, Reaches
<1>2. ASSUME f.op = "SetIpReq", f.tlv.val \in Configs
      PROVE  Offered' = Offered \cup ({s \in Slaves : Reaches(f, s)} \X {f.tlv.val})
  <2>. DEFINE Reached == {s \in Slaves : Reaches(f, s)}
  <2>1. ASSUME NEW p \in Offered'  PROVE p \in Offered \cup (Reached \X {f.tlv.val})
    <3>1. PICK s \in Slaves, c \in Configs :
             /\ p = <<s, c>>
             /\ \E g \in net' : g.op = "SetIpReq" /\ Reaches(g, s) /\ g.tlv.val = c
      BY <2>1 DEF Offered, Reaches
    <3>2. PICK g \in net' : g.op = "SetIpReq" /\ Reaches(g, s) /\ g.tlv.val = c
      BY <3>1
    <3>3. CASE g \in net
      BY <3>1, <3>2, <3>3 DEF Offered
    <3>4. CASE g = f
      BY <3>1, <3>2, <3>4
    <3>. QED  BY <3>3, <3>4
  <2>2. ASSUME NEW p \in Offered  PROVE p \in Offered'
    <3>1. PICK s \in Slaves, c \in Configs :
             /\ p = <<s, c>>
             /\ \E g \in net : g.op = "SetIpReq" /\ Reaches(g, s) /\ g.tlv.val = c
      BY <2>2 DEF Offered
    <3>. QED  BY <3>1 DEF Offered, Reaches
  <2>3. ASSUME NEW p \in Reached \X {f.tlv.val}  PROVE p \in Offered'
    <3>1. PICK s \in Slaves : p = <<s, f.tlv.val>> /\ Reaches(f, s)
      BY <2>3
    <3>. QED  BY <1>2, <3>1 DEF Offered, Reaches
  <2>. QED  BY <2>1, <2>2, <2>3
<1>. QED  BY <1>1, <1>2

\* Every step of Discovery is a step of IpAssignment or none: a SetIpReq is an
\* offer to those it reaches, handle_set_ip_request the assignment when it
\* stores the configuration, and an answer confirms what the slave has stored.
LEMMA StepRefines ==
    SafetyInv /\ SafetyInv' /\ [Next]_vars => [Assignment!Next]_(Assignment!vars)
<1>. SUFFICES ASSUME SafetyInv, SafetyInv', [Next]_vars
              PROVE  [Assignment!Next]_(Assignment!vars)
  OBVIOUS
<1>1. StepKind
  BY StepKinds DEF SafetyInv
<1>2. CASE UNCHANGED <<net, info, assigned>>
  <2>1. Offered' = Offered
    BY <1>2 DEF Offered, Reaches
  <2>. QED  BY <1>2, <2>1 DEF Assignment!vars
<1>3. ASSUME NEW f \in Frames, Requested(f)  PROVE [Assignment!Next]_(Assignment!vars)
  <2>1. /\ UNCHANGED <<info, assigned>> /\ (net' = net \/ net' = net \cup {f})
        /\ f.op = "SetIpReq" => f.tlv.val \in Configs
    BY <1>3 DEF Requested, svars
  <2>2. CASE net' = net
    BY <1>2, <2>1, <2>2
  <2>3. CASE net' = net \cup {f} /\ f.op # "SetIpReq"
    <3>1. Offered' = Offered
      BY <2>3, OfferedBy
    <3>. QED  BY <2>1, <3>1 DEF Assignment!vars
  <2>4. CASE net' = net \cup {f} /\ f.op = "SetIpReq"
    <3>. DEFINE Reached == {s \in Slaves : Reaches(f, s)}
    <3>1. Offered' = Offered \cup (Reached \X {f.tlv.val})
      BY <2>1, <2>4, OfferedBy
    <3>2. Reached \in SUBSET Slaves
      OBVIOUS
    <3>3. Assignment!Offer(Reached, f.tlv.val)
      BY <2>1, <3>1 DEF Assignment!Offer
    <3>. QED  BY <2>1, <2>4, <3>2, <3>3 DEF Assignment!Next
  <2>. QED  BY <2>1, <2>2, <2>3, <2>4
<1>4. ASSUME NEW f \in net, Taken(f)  PROVE [Assignment!Next]_(Assignment!vars)
  <2>1. f.src \in Slaves /\ UNCHANGED <<net, info>>
    BY <1>4 DEF Taken, svars
  <2>2. CASE assigned' = assigned
    BY <1>2, <2>1, <2>2
  <2>3. CASE call.op = "SetIpReq" /\ assigned' = assigned \cup {<<f.src, call.cfg>>}
    <3>1. call.cfg \in Configs
      BY <2>3 DEF SafetyInv, BaseInv, CallInv
    <3>2. info[f.src] = call.cfg
      BY <2>1, <2>3, <3>1 DEF SafetyInv, AssignedInv
    <3>3. Offered' = Offered
      BY <2>1 DEF Offered, Reaches
    <3>4. Assignment!Confirm(f.src, call.cfg)
      BY <2>1, <2>3, <3>2, <3>3 DEF Assignment!Confirm
    <3>. QED  BY <2>1, <3>1, <3>4 DEF Assignment!Next
  <2>. QED  BY <1>4, <2>2, <2>3 DEF Taken
<1>5. ASSUME NEW s \in Slaves, NEW f \in net, NEW g \in Frames, Answered(s, f, g)
      PROVE  [Assignment!Next]_(Assignment!vars)
  <2>1. /\ listener[s] = "running" /\ Reaches(f, s) /\ assigned' = assigned
        /\ net' = net \cup {g} /\ g.op # "SetIpReq"
    BY <1>5 DEF Answered, mvars, ResponseTo, Requests
  <2>2. Offered' = Offered
    BY <2>1, OfferedBy
  <2>3. CASE info' = info
    BY <2>1, <2>2, <2>3 DEF Assignment!vars
  <2>4. CASE f.op = "SetIpReq" /\ info' = [info EXCEPT ![s] = f.tlv.val]
    <3>1. info[s] = NoConfig
      BY <2>1, ListeningUnconfigured DEF SafetyInv
    <3>2. f.tlv.val \in Configs
      BY <2>4, RequestedConfig DEF SafetyInv
    <3>3. <<s, f.tlv.val>> \in Offered
      BY <2>1, <2>4, <3>2 DEF Offered
    <3>4. Assignment!Assign(s, f.tlv.val)
      BY <2>1, <2>2, <2>4, <3>1, <3>3 DEF Assignment!Assign
    <3>. QED  BY <3>2, <3>4 DEF Assignment!Next
  <2>. QED  BY <1>5, <2>3, <2>4 DEF Answered
<1>6. CASE Local
  BY <1>2, <1>6 DEF Local
<1>. QED  BY <1>1, <1>3, <1>4, <1>5, <1>6 DEF StepKind

\* The discovery protocol implements the assignment of configurations: what it
\* stores was offered, nothing is stored twice, and what set_ip_config reports
\* as done is done.
THEOREM Implementation == Spec => ImplementsAssignment
<1>1. Init => Assignment!Init
  BY DEF Init, Assignment!Init, Offered
<1>. QED  BY <1>1, StepRefines, Safety, PTL
          DEF Spec, ImplementsAssignment, Assignment!Spec
==============================================================================
