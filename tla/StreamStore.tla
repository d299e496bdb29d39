----------------------------- MODULE StreamStore -----------------------------
(***************************************************************************)
(* StreamStore (common/src/stream_store.rs): a table from stream ids to    *)
(* the sequence number of the stream, as operators that return the table a *)
(* call leaves.  For an output stream the number is the one of the next    *)
(* frame, for an input stream the one of the last accepted frame; Absent   *)
(* stands for an id that is not a key of the HashMap.                      *)
(*                                                                         *)
(* As in DiscoveryAuth the HMAC is not computed: every frame is made by a  *)
(* holder of the shared secret and is delivered unchanged.                 *)
(***************************************************************************)
EXTENDS Integers

CONSTANTS
    Streams,        \* the stream ids
    SeqMax          \* u64::MAX, where saturating_add stops

ASSUME StreamStoreAssumption == SeqMax \in Nat \ {0, 1}

Directions == {"Input", "Output"}

\* An id without an entry.
Absent == -1

Tables == [Streams -> 0..SeqMax \cup {Absent}]

Has(table, s) == table[s] # Absent

\* reset
Reset(table) == [s \in Streams |-> Absent]

\* initial_sequence_number
InitialSequenceNumber(direction) == IF direction = "Output" THEN 1 ELSE 0

\* add_stream_configs of distinct ids none of which is in the table.
AddStreamConfigs(table, ids, direction) ==
    [s \in Streams |-> IF s \in ids THEN InitialSequenceNumber(direction[s]) ELSE table[s]]

\* Mutants: the sequence number is not advanced; or it does not saturate.
GenerateStreamTag_NoAdvance(table, s) == table
GenerateStreamTag_Unbounded(table, s) == [table EXCEPT ![s] = @ + 1]

\* generate_stream_tag: the number signed is table[s], the table afterwards has
\* the next one.
GenerateStreamTag(table, s) ==
    [table EXCEPT ![s] = IF @ < SeqMax THEN @ + 1 ELSE @]

\* Mutants: the last accepted number is accepted once more; or the window is
\* not moved.
ValidateStreamTag_Edge(table, s, seq) == Has(table, s) /\ seq >= table[s]
AcceptStreamTag_Stale(table, s, seq) == table

\* validate_stream_tag: the verdict, and the table after a positive one.
ValidateStreamTag(table, s, seq) == Has(table, s) /\ seq > table[s]
AcceptStreamTag(table, s, seq) == [table EXCEPT ![s] = seq]
==============================================================================
