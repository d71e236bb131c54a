------------------------------ MODULE Delivery ------------------------------
(***************************************************************************)
(* What the sink promises, with no process, file, upload or rebalance in   *)
(* it: "The service has an at-least-once delivery semantic." (README.md).  *)
(* Records get stored; the group's committed offset of a partition only    *)
(* moves forward, and only past records that are stored, because what lies *)
(* below it is never read again.                                           *)
(***************************************************************************)
EXTENDS DataModel

VARIABLES
    stored,     \* the records in the object store
    committed,  \* the group's committed offset of each partition, or NoOffset
    resets      \* where reading a partition began while nothing was committed

dvars == <<stored, committed, resets>>

DeliveryInit ==
    /\ stored = {}
    /\ committed = [p \in Partitions |-> NoOffset]
    /\ resets = [p \in Partitions |-> {}]

\* The group is bound to deliver the records from its latest reset on.
Owed(p, o) == IsData(<<p, o>>) /\ \A r \in resets[p] : r <= o

Delivered(p) ==
    \A o \in Offsets : Owed(p, o) /\ o < committed[p] => <<p, o>> \in stored

Store == stored \subseteq stored' /\ stored' \subseteq RecordIds

Commit(p) ==
    \/ committed'[p] = committed[p]
    \/ committed'[p] > committed[p] /\ Delivered(p)'

Begin(p) ==
    \/ resets'[p] = resets[p]
    \/ committed[p] = NoOffset /\ resets[p] \subseteq resets'[p]

Advance == Store /\ \A p \in Partitions : Commit(p) /\ Begin(p)

DeliverySpec == DeliveryInit /\ [][Advance]_dvars
=============================================================================
