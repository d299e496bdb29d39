----------------------- MODULE DiscoveryRestartProofs ------------------------
(***************************************************************************)
(* Proofs about DiscoveryRestart: what is left of the protocol's promises  *)
(* when the master may crash at any point and start again with a counter   *)
(* and contexts of its own, for every number of restarts.                  *)
(*                                                                         *)
(* A transaction identifier no longer names one request.  What holds is    *)
(* that a master numbers its frames and its transactions alike, so that    *)
(* the slave's replay window refuses the transactions it has answered, for *)
(* whichever master.                                                       *)
(***************************************************************************)
EXTENDS DiscoveryRestart, DiscoveryProofs

\* The sequence number of the request with transaction n.
Capped(n) == IF n < SeqMax THEN n ELSE SeqMax

\* The n-th request of a master is the n-th frame it makes.
NumberInv ==
    /\ NextSeq(mauth, Master) = Capped(counter)
    /\ \A f \in net : f.src = Master => f.seq = Capped(f.tid)

\* The transactions a slave has answered are inside its replay window.
AnsweredInv ==
    \A f \in net : f.src \in Slaves => Capped(f.tid) <= sauth[f.src][Master].rx

\* A positive SetIpRes, and the master's Ok, come from a slave that is done.
ConfiguredInv ==
    /\ \A f \in net : IsPositive(f) => info[f.src] # NoConfig
    /\ \A s \in Slaves, c \in Configs : <<s, c>> \in assigned => info[s] # NoConfig

RestartInv ==
    /\ BaseInv
    /\ NumberInv
    /\ AnsweredInv
    /\ ConfiguredInv
------------------------------------------------------------------------------
\* A spent number is the number of the next transaction.
LEMMA CappedNext ==
    ASSUME NEW n \in Nat, n >= 1
    PROVE  Capped(n) \in Nat /\ SaturatingInc(Capped(n)) = Capped(n + 1)
BY SeqMaxAssumption DEF Capped, SaturatingInc

\* The first transaction has number 1 in a table without contexts.
LEMMA FirstNumber ==
    ASSUME NEW d, d[Master] = NoContext
    PROVE  NextSeq(d, Master) = Capped(1)
<1>1. Capped(1) = 1
  BY SeqMaxAssumption DEF Capped
<1>2. NextSeq(d, Master) = 1
  BY DEF NextSeq, HasDevice, NoContext
<1>. QED  BY <1>1, <1>2

\* A request takes the number that goes with its transaction.
LEMMA RequestRestart ==
    ASSUME RestartInv, NEW f \in Frames, Requested(f)
    PROVE  NumberInv' /\ AnsweredInv' /\ ConfiguredInv'
<1>. USE DiscoveryAssumption
<1>1. /\ f.src = Master /\ f.tid = counter /\ f.seq = NextSeq(mauth, Master)
      /\ counter' = counter + 1 /\ Spent(mauth', Master, f.seq)
      /\ net' = net \cup {f} \/ net' = net
      /\ UNCHANGED <<assigned, sauth, info>>
  BY DEF Requested, svars
<1>2. counter \in Nat /\ counter >= 1
  BY DEF RestartInv, BaseInv, TypeOK
<1>3. f.seq = Capped(f.tid)
  BY <1>1 DEF RestartInv, NumberInv
<1>4. NextSeq(mauth', Master) = Capped(counter')
  <2>1. NextSeq(mauth', Master) = SaturatingInc(f.seq)
    BY <1>1 DEF Spent, NextSeq, HasDevice, TagSeq
  <2>. QED  BY <1>1, <1>2, <1>3, <2>1, CappedNext
<1>5. NumberInv'
  BY <1>1, <1>3, <1>4 DEF RestartInv, NumberInv
<1>6. AnsweredInv'
  BY <1>1 DEF RestartInv, AnsweredInv
<1>7. ConfiguredInv'
  BY <1>1 DEF RestartInv, ConfiguredInv, IsPositive
<1>. QED  BY <1>5, <1>6, <1>7

\* An answer moves the window up to its transaction.
LEMMA AnswerRestart ==
    ASSUME RestartInv, NEW s \in Slaves, NEW f \in net, NEW g \in Frames, Answered(s, f, g)
    PROVE  NumberInv' /\ AnsweredInv' /\ ConfiguredInv'
<1>. USE DiscoveryAssumption
<1>1. /\ f.src = Master /\ f.seq > sauth[s][Master].rx
      /\ g.src = s /\ g.tid = f.tid /\ net' = net \cup {g}
      /\ sauth'[s][Master].rx = f.seq /\ \A t \in Slaves \ {s} : sauth'[t] = sauth[t]
      /\ UNCHANGED <<counter, mauth, assigned>>
  BY DEF Answered, mvars
<1>2. /\ f.seq \in Nat /\ \A h \in net : h.tid \in Nat
      /\ \A t \in Slaves : sauth[t][Master].rx \in Nat
  BY Numbers DEF RestartInv
<1>3. f.seq = Capped(f.tid)
  BY <1>1 DEF RestartInv, NumberInv
<1>4. NumberInv'
  BY <1>1 DEF RestartInv, NumberInv
<1>5. AnsweredInv'
  <2>1. SUFFICES ASSUME NEW h \in net', h.src \in Slaves
                 PROVE  Capped(h.tid) <= sauth'[h.src][Master].rx
    BY DEF AnsweredInv
  <2>2. CASE h = g
    BY <1>1, <1>2, <1>3, <2>2
  <2>3. CASE h \in net
    <3>1. Capped(h.tid) <= sauth[h.src][Master].rx /\ Capped(h.tid) \in Nat
      BY <1>2, <2>1, <2>3, SeqMaxAssumption DEF RestartInv, AnsweredInv, Capped
    <3>. QED  BY <1>1, <1>2, <2>1, <3>1
  <2>. QED  BY <1>1, <2>2, <2>3
<1>6. ConfiguredInv'
  <2>1. CASE info' = info /\ ~IsPositive(g)
    BY <1>1, <2>1 DEF RestartInv, ConfiguredInv
  <2>2. CASE f.op = "SetIpReq" /\ info' = [info EXCEPT ![s] = f.tlv.val]
    <3>1. /\ info'[s] # NoConfig
          /\ \A t \in Slaves \ {s} : info'[t] = info[t]
      BY <2>2, RequestedConfig DEF RestartInv, BaseInv, TypeOK
    <3>. QED  BY <1>1, <3>1 DEF RestartInv, ConfiguredInv, IsPositive
  <2>. QED  BY <2>1, <2>2 DEF Answered
<1>. QED  BY <1>4, <1>5, <1>6

\* A step of the protocol.
LEMMA ProtocolRestart == RestartInv /\ [Next]_vars => RestartInv'
<1>. SUFFICES ASSUME RestartInv, [Next]_vars PROVE RestartInv'
  OBVIOUS
<1>1. BaseInv' /\ StepKind
  BY StepKinds DEF RestartInv
<1>2. ASSUME NEW f \in Frames, Requested(f)  PROVE RestartInv'
  BY <1>1, <1>2, RequestRestart DEF RestartInv
<1>3. ASSUME NEW s \in Slaves, NEW f \in net, NEW g \in Frames, Answered(s, f, g)
      PROVE  RestartInv'
  BY <1>1, <1>3, AnswerRestart DEF RestartInv
<1>4. ASSUME NEW f \in net, Taken(f)  PROVE RestartInv'
  <2>1. /\ f.src \in Slaves /\ \A m \in Macs \ {f.src} : mauth'[m] = mauth[m]
        /\ UNCHANGED <<counter, sauth, info, net>>
        /\ assigned' = assigned \/ (IsPositive(f) /\ assigned' = assigned \cup {<<f.src, call.cfg>>})
    BY <1>4 DEF Taken, svars
  <2>2. mauth'[Master] = mauth[Master]
    BY <2>1, DiscoveryAssumption DEF Macs
  <2>3. NumberInv'
    BY <2>1, <2>2 DEF RestartInv, NumberInv, NextSeq, HasDevice, TagSeq
  <2>4. AnsweredInv'
    BY <2>1 DEF RestartInv, AnsweredInv
  <2>5. ConfiguredInv'
    BY <2>1 DEF RestartInv, ConfiguredInv
  <2>. QED  BY <1>1, <2>3, <2>4, <2>5 DEF RestartInv
<1>5. CASE Local
  BY <1>1, <1>5 DEF Local, RestartInv, NumberInv, AnsweredInv, ConfiguredInv
<1>. QED  BY <1>1, <1>2, <1>3, <1>4, <1>5 DEF StepKind

\* A restart: the new master begins to count at 1, in both numbers.
LEMMA MasterRestart ==
    ASSUME RestartInv, RestartMaster
    PROVE  RestartInv'
<1>. USE DiscoveryAssumption
<1>1. /\ mstate' = "DiscoverySync" /\ counter' = 1 /\ mauth' = [m \in Macs |-> NoContext]
      /\ discovered' = [s \in Slaves |-> "absent"] /\ mpc' = "idle" /\ call' = NoCall
      /\ expired' = FALSE /\ result' = NoOutcome
      /\ UNCHANGED <<assigned, svars, net>>
  BY DEF RestartMaster
<1>2. TypeOK'
  <2>1. mauth' \in [Macs -> Contexts]
    BY <1>1, SeqMaxAssumption DEF NoContext, Contexts
  <2>2. mstate' \in DeviceStates /\ counter' \in 1 .. MaxRequests + 1
    BY <1>1 DEF DeviceStates
  <2>. QED  BY <1>1, <2>1, <2>2 DEF RestartInv, BaseInv, TypeOK, svars
<1>3. CallInv'
  BY <1>1 DEF CallInv, NoCall
<1>4. BaseInv'
  BY <1>1, <1>2, <1>3, MasterOnly DEF RestartInv
<1>5. NumberInv'
  <2>1. mauth'[Master] = NoContext
    BY <1>1 DEF Macs
  <2>. QED  BY <1>1, <2>1, FirstNumber DEF RestartInv, NumberInv
<1>6. AnsweredInv' /\ ConfiguredInv'
  BY <1>1 DEF RestartInv, AnsweredInv, ConfiguredInv, svars
<1>. QED  BY <1>4, <1>5, <1>6 DEF RestartInv

\* The inductive invariant holds however often the master has been restarted.
THEOREM RestartSafety == RestartSpec => []RestartInv
<1>1. RestartInit => RestartInv
  <2>. SUFFICES ASSUME Init PROVE RestartInv
    BY DEF RestartInit
  <2>1. mauth[Master] = NoContext /\ counter = 1 /\ net = {} /\ assigned = {}
    BY DEF Init, Macs
  <2>2. NumberInv
    BY <2>1, FirstNumber DEF NumberInv
  <2>3. AnsweredInv /\ ConfiguredInv
    BY <2>1 DEF AnsweredInv, ConfiguredInv
  <2>. QED  BY <2>2, <2>3, BaseInit DEF RestartInv
<1>2. RestartInv /\ [RestartNext]_allVars => RestartInv'
  <2>. SUFFICES ASSUME RestartInv, [RestartNext]_allVars PROVE RestartInv'
    OBVIOUS
  <2>1. [Next]_vars \/ RestartMaster
    BY DEF RestartNext, allVars
  <2>. QED  BY <2>1, ProtocolRestart, MasterRestart
<1>. QED  BY <1>1, <1>2, PTL DEF RestartSpec

\* Types: a restart leaves no variable outside its type.
THEOREM RestartTypeCorrect == RestartSpec => []TypeOK
<1>1. RestartInv => TypeOK
  BY DEF RestartInv, BaseInv
<1>. QED  BY <1>1, RestartSafety, PTL

\* Whichever master asks, a slave never answers a transaction identifier
\* twice: a restarted master is refused until it has counted past the window
\* of the slave.
THEOREM RestartAnsweredOnce == RestartSpec => []AnsweredOnce
<1>1. RestartInit => AnsweredOnce
  BY DEF RestartInit, Init, AnsweredOnce
<1>2. RestartInv /\ AnsweredOnce /\ [RestartNext]_allVars => AnsweredOnce'
  <2>. SUFFICES ASSUME RestartInv, AnsweredOnce, [RestartNext]_allVars PROVE AnsweredOnce'
    OBVIOUS
  <2>1. StepKind \/ net' = net
    <3>1. [Next]_vars \/ RestartMaster
      BY DEF RestartNext, allVars
    <3>. QED  BY <3>1, StepKinds DEF RestartInv, RestartMaster
  <2>2. CASE net' = net
    BY <2>2 DEF AnsweredOnce
  <2>3. ASSUME NEW f \in Frames, Requested(f)  PROVE AnsweredOnce'
    BY <2>2, <2>3, DiscoveryAssumption DEF Requested, AnsweredOnce
  <2>4. ASSUME NEW s \in Slaves, NEW f \in net, NEW g \in Frames, Answered(s, f, g)
        PROVE  AnsweredOnce'
    <3>1. /\ net' = net \cup {g} /\ g.src = s /\ g.tid = f.tid
          /\ f.src = Master /\ f.seq > sauth[s][Master].rx
      BY <2>4 DEF Answered
    <3>2. ASSUME NEW h \in net, h.src = s, h.tid = g.tid  PROVE FALSE
      <4>1. Capped(f.tid) <= sauth[s][Master].rx
        BY <3>1, <3>2 DEF RestartInv, AnsweredInv
      <4>2. f.seq = Capped(f.tid)
        BY <3>1 DEF RestartInv, NumberInv
      <4>3. f.seq \in Nat /\ sauth[s][Master].rx \in Nat
        BY Numbers DEF RestartInv
      <4>. QED  BY <3>1, <4>1, <4>2, <4>3
    <3>. QED  BY <3>1, <3>2 DEF AnsweredOnce
  <2>. QED  BY <2>1, <2>2, <2>3, <2>4 DEF StepKind, Taken, Local
<1>. QED  BY <1>1, <1>2, RestartSafety, PTL DEF RestartSpec

\* Ok from set_ip_config, to whichever master, means that the slave has stored
\* a configuration and has left discovery for good.
THEOREM OkIsConfigured == RestartSpec => []OkMeansConfigured
<1>1. RestartInv => OkMeansConfigured
  BY DEF RestartInv, ConfiguredInv, BaseInv, ListenerInv, OkMeansConfigured
<1>. QED  BY <1>1, RestartSafety, PTL
==============================================================================
