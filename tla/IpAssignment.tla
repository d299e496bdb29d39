---------------------------- MODULE IpAssignment -----------------------------
(***************************************************************************)
(* What the commissioning of slaves promises, without frames, numbers or   *)
(* timeouts: a slave takes one configuration, one that was offered to it,  *)
(* and the master confirms only what a slave has taken.                    *)
(***************************************************************************)
CONSTANTS
    Slaves,
    Configs,
    NoConfig

VARIABLES
    offered,        \* the <<slave, config>> the application has asked for
    config,         \* the configuration of every slave
    confirmed       \* the <<slave, config>> that were reported as done

vars == <<offered, config, confirmed>>

Init ==
    /\ offered = {}
    /\ config = [s \in Slaves |-> NoConfig]
    /\ confirmed = {}

\* An offer reaches one slave, or all those the network delivers it to.
Offer(S, c) ==
    /\ offered' = offered \cup (S \X {c})
    /\ UNCHANGED <<config, confirmed>>

Assign(s, c) ==
    /\ config[s] = NoConfig
    /\ <<s, c>> \in offered
    /\ config' = [config EXCEPT ![s] = c]
    /\ UNCHANGED <<offered, confirmed>>

Confirm(s, c) ==
    /\ config[s] = c
    /\ confirmed' = confirmed \cup {<<s, c>>}
    /\ UNCHANGED <<offered, config>>

Next ==
    \/ \E S \in SUBSET Slaves, c \in Configs : Offer(S, c)
    \/ \E s \in Slaves, c \in Configs : Assign(s, c) \/ Confirm(s, c)

Spec == Init /\ [][Next]_vars
==============================================================================
