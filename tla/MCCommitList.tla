---------------------------- MODULE MCCommitList ----------------------------
(* Values of the constants for the model checking run of CommitList.       *)
EXTENDS CommitList

CONSTANTS p, q, a

\* The kind of a record plays no part in the list.
AnyLog == [x \in Partitions |->
              [o \in Offsets |-> [kind |-> "data", stream |-> a, size |-> 1]]]
=============================================================================
