------------------------------- MODULE MCSink -------------------------------
(* Values of the constants for the model checking runs of Sink.            *)
EXTENDS SinkProperties, TLC

CONSTANTS p, q, a, b

Data(s)  == [kind |-> "data", stream |-> s, size |-> 1]
Empty(s) == [kind |-> "empty", stream |-> s, size |-> 0]
Poison   == [kind |-> "poison", stream |-> a, size |-> 0]
Gap      == [kind |-> "gap", stream |-> a, size |-> 0]

\* Offset 0 is element 1 of the tuple.
FromTuple(t) == [o \in Offsets |-> t[o + 1]]

\* One partition whose records alternate between two streams: uploads of the
\* two complete in either order.
InterleavedLog == (p :> FromTuple(<<Data(a), Data(b), Data(a), Data(b)>>))
\* The same with a gap before the last record.
GapLog == (p :> FromTuple(<<Data(a), Data(b), Gap, Data(a)>>))
\* Two partitions that share stream a, one with a hole in its log.
OneStreamLog == (p :> FromTuple(<<Data(a), Data(a)>>))
             @@ (q :> FromTuple(<<Data(a), Gap>>))

\* A gap left by the broker, a tombstone, and a record no process can decode.
MixedLog == (p :> FromTuple(<<Data(a), Gap, Data(b), Empty(a), Poison>>))
TombstoneLog == (p :> FromTuple(<<Empty(a), Data(b)>>))

AllOf(n) == [x \in Partitions |-> n]
FullLog  == AllOf(LogSize)
EmptyLog == AllOf(0)
=============================================================================
