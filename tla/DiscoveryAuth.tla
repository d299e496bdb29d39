---------------------------- MODULE DiscoveryAuth ----------------------------
(***************************************************************************)
(* The sequence-number bookkeeping of DiscoveryAuthHandler                 *)
(* (common/src/security/discovery_auth.rs): a table of security contexts,  *)
(* one per MAC address, as operators that return the table a call leaves.  *)
(*                                                                         *)
(* A context holds tx, the sequence number of the next frame sent under    *)
(* that MAC, and rx, the sequence number of the last frame accepted from   *)
(* it.  known = FALSE stands for a MAC that is not a key of the HashMap.   *)
(*                                                                         *)
(* The HMAC is not computed: every frame of the model is made by a holder  *)
(* of the shared secret, so verify_hmac holds of every one of them and     *)
(* what decides between acceptance and refusal is the context.             *)
(***************************************************************************)
EXTENDS Naturals

CONSTANT SeqMax     \* u64::MAX, where saturating_add stops

ASSUME SeqMaxAssumption == SeqMax \in Nat \ {0}

Contexts == [known: BOOLEAN, tx: 0..SeqMax, rx: 0..SeqMax]

\* A MAC without an entry in the table.
NoContext == [known |-> FALSE, tx |-> 0, rx |-> 0]

\* DeviceSecurityContext::default().
DefaultContext == [known |-> TRUE, tx |-> 1, rx |-> 0]

\* has_device
HasDevice(devices, mac) == devices[mac].known

\* add_new_device: entry(..).or_default() keeps an existing context.
AddNewDevice(devices, mac) ==
    IF HasDevice(devices, mac) THEN devices
    ELSE [devices EXCEPT ![mac] = DefaultContext]

\* set_last_valid_received_sequence_number
SetLastValid(devices, mac, seq) ==
    IF HasDevice(devices, mac) THEN [devices EXCEPT ![mac].rx = seq]
    ELSE devices

\* A mutant: the counter is incremented without saturation.
SaturatingInc_Unbounded(n) == n + 1

\* u64::saturating_add(1)
SaturatingInc(n) == IF n < SeqMax THEN n + 1 ELSE n

\* The sequence number create_auth_tag signs, and the table it leaves.
TagSeq(devices, mac) == devices[mac].tx

\* A mutant: the transmit counter is not advanced.
CreateAuthTag_NoAdvance(devices, mac) == devices

CreateAuthTag(devices, mac) ==
    [devices EXCEPT ![mac].tx = SaturatingInc(@)]

\* Mutants: the replay window accepts its own edge; or it is not moved.
ValidateAuthTag_Edge(devices, mac, seq) ==
    HasDevice(devices, mac) /\ seq >= devices[mac].rx
AcceptAuthTag_Stale(devices, mac, seq) == devices

\* validate_auth_tag: the verdict, and the table after a positive one.
ValidateAuthTag(devices, mac, seq) ==
    HasDevice(devices, mac) /\ seq > devices[mac].rx
AcceptAuthTag(devices, mac, seq) == [devices EXCEPT ![mac].rx = seq]

\* validate_discovery_response: a first contact must carry sequence number 1.
ValidateDiscoveryResponse(seq) == seq = 1
==============================================================================
