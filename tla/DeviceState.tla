----------------------------- MODULE DeviceState -----------------------------
(***************************************************************************)
(* The transition rules of DeviceStateManager                              *)
(* (common/src/state_machine.rs), as operators on the current state.  The  *)
(* mutex makes every call of set_target_state one atomic step of whoever   *)
(* calls it, so the operators below are all that its users need.           *)
(***************************************************************************)

\* The device states of slave_api.proto that the state machine knows.
DeviceStates ==
    {"Init", "DiscoverySync", "PreOp", "SafeOp", "Op", "Error", "Shutdown"}

\* The transitions that have a match arm of their own.
Edges == { <<"Init", "DiscoverySync">>, <<"DiscoverySync", "PreOp">>,
           <<"PreOp", "SafeOp">>, <<"SafeOp", "PreOp">>, <<"SafeOp", "Op">>,
           <<"SafeOp", "Shutdown">>, <<"Op", "SafeOp">>, <<"Op", "Shutdown">>,
           <<"Error", "Init">> }

\* set_target_state succeeds: an explicit arm, the same state, or Error, which
\* the last-but-one arm allows from every state.
MayTransition(current, target) ==
    \/ <<current, target>> \in Edges
    \/ current = target
    \/ target = "Error"

\* The state set_target_state leaves behind: a refused transition changes nothing.
AfterSetTargetState(current, target) ==
    IF MayTransition(current, target) THEN target ELSE current
==============================================================================
