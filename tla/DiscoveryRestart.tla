-------------------------- MODULE DiscoveryRestart ---------------------------
(***************************************************************************)
(* Discovery with a master that may crash and start again in the middle of *)
(* anything.  Its counter, its contexts and its cache are volatile         *)
(* (DiscoveryMaster::new, DiscoveryAuthHandler::new): the new one numbers  *)
(* its transactions and its frames from 1, while the slaves keep their     *)
(* windows and the network the frames of the old one.                      *)
(***************************************************************************)
EXTENDS Discovery

CONSTANT MaxRestarts        \* bound on the restarts

ASSUME RestartAssumption == MaxRestarts \in Nat

VARIABLE restarts

allVars == <<vars, restarts>>

RestartInit == Init /\ restarts = 0

RestartMaster ==
    /\ restarts < MaxRestarts
    /\ restarts' = restarts + 1
    /\ mstate' = "DiscoverySync"
    /\ counter' = 1
    /\ mauth' = [m \in Macs |-> NoContext]
    /\ discovered' = [s \in Slaves |-> "absent"]
    /\ mpc' = "idle"
    /\ call' = NoCall
    /\ expired' = FALSE
    /\ result' = NoOutcome
    /\ UNCHANGED <<assigned, svars, net>>

RestartNext ==
    \/ Next /\ UNCHANGED restarts
    \/ RestartMaster

\* The fairness of BusySpec.
RestartSpec ==
    /\ RestartInit /\ [][RestartNext]_allVars
    /\ WF_allVars(Expire /\ UNCHANGED restarts)
    /\ WF_allVars(LoopCheck /\ UNCHANGED restarts)
    /\ WF_allVars(ReadOther /\ UNCHANGED restarts)
------------------------------------------------------------------------------
\* When set_ip_config has returned Ok, to whichever master, the slave has
\* stored a configuration and left discovery for good: a restart may confuse
\* the answers to two attempts, but makes no success out of a failure.
OkMeansConfigured ==
    \A s \in Slaves, c \in Configs :
        <<s, c>> \in assigned => info[s] # NoConfig /\ listener[s] # "running"
==============================================================================
