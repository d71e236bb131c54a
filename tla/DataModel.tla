------------------------------ MODULE DataModel ------------------------------
(***************************************************************************)
(* The data every other module speaks about: the topic partitions the sink *)
(* consumes, the records in their logs, and the contiguous-offset scan     *)
(* that decides what may be committed.                                     *)
(*                                                                         *)
(* A record is identified by <<partition, offset>>.  Of its payload only   *)
(* what the sink's behaviour depends on is kept: the stream the router     *)
(* sends it to, the size of its JSON line, and its kind:                   *)
(*   "data"    the serializer returns a payload                            *)
(*   "empty"   no payload (a tombstone): serializer returns Ok(None)       *)
(*   "poison"  routing or decoding fails: the handler answers Fatal        *)
(*   "gap"     the offset holds no record (transaction marker, compacted)  *)
(***************************************************************************)
EXTENDS Integers, FiniteSets

CONSTANTS
    Partitions,     \* the topic partitions (TopicId) of the subscribed topics
    Streams,        \* the streams (StreamId) the router distinguishes
    LogSize,        \* number of offsets in each partition's log (a bound)
    Log             \* Log[p][o]: the record at offset o of partition p

Offsets == 0 .. LogSize - 1
Kinds   == {"data", "empty", "poison", "gap"}
Record  == [kind : Kinds, stream : Streams, size : Nat]

ASSUME LogAssumption ==
    /\ IsFiniteSet(Partitions)
    /\ IsFiniteSet(Streams)
    /\ LogSize \in Nat
    /\ Log \in [Partitions -> [Offsets -> Record]]

RecordIds == Partitions \X Offsets

\* The absent value of a HashMap<TopicId, i64>, of a consumer position and of
\* a group's committed offset.
NoOffset == -1
MaybeOffset == Nat \cup {NoOffset}

IsData(r)   == Log[r[1]][r[2]].kind = "data"
DataOf(ids) == {r \in ids : IsData(r)}

\* Mutant of ContiguousEnd: commits past the highest uploaded offset, whatever
\* is missing below it.
HighestEnd(offsets, watermark) ==
    CHOOSE n \in {watermark} \cup {o + 1 : o \in offsets} :
        /\ watermark <= n
        /\ \A o \in offsets : o < n

\* The number of the first offset at or above watermark that is missing from
\* the set `offsets`: what the loop over offsets.range(watermark..) computes.
ContiguousEnd(offsets, watermark) ==
    CHOOSE n \in {watermark} \cup {o + 1 : o \in offsets} :
        /\ watermark <= n
        /\ watermark .. n - 1 \subseteq offsets
        /\ n \notin offsets
=============================================================================
