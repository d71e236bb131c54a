----------------------------- MODULE ObjectKeys -----------------------------
(***************************************************************************)
(* The key of an object in S3 (key_generator.rs): the segments of the      *)
(* stream's identifier as directories, then the day, and a file name with  *)
(* the second the stream was sealed in and eight digits of a UUID.  A key  *)
(* is the sequence of its parts, the texts between slashes: a slash inside *)
(* a header value makes two parts of one segment.                          *)
(***************************************************************************)
EXTENDS RecordPath

CONSTANTS
    Slashed,    \* function: the segments with a slash, each with its parts
    Instants,   \* points in time, to the second: [day, time]
    Uuids       \* first eight digits of a UUID

ASSUME ObjectKeysAssumption ==
    /\ \A s \in DOMAIN Slashed : Slashed[s] \in Seq(STRING) /\ Len(Slashed[s]) > 1
    /\ Instants \subseteq [day : STRING, time : STRING]
    /\ Uuids \subseteq STRING

Parts(segment) == IF segment \in DOMAIN Slashed THEN Slashed[segment] ELSE <<segment>>

Ingest(now) == "ingest_year_month_day=" \o now.day
FileName(now, uuid) == now.time \o "-" \o uuid \o ".jsonl.zst"

\* Day and name tell seconds and UUIDs apart: a second is written with a fixed
\* width, and eight digits are taken of every UUID.
ASSUME NamesAssumption ==
    \A now, then \in Instants, u, v \in Uuids :
        Ingest(now) = Ingest(then) /\ FileName(now, u) = FileName(then, v)
            => now = then /\ u = v

\* Mutant of key_inner: the suffix takes the place of the last part.
key_inner_replaced(id, now, uuid) ==
    FlattenSeq([i \in 1 .. Len(id) - 1 |-> Parts(id[i])])
        \o <<Ingest(now), FileName(now, uuid)>>

key_inner(id, now, uuid) ==
    FlattenSeq([i \in DOMAIN id |-> Parts(id[i])])
        \o <<Ingest(now), FileName(now, uuid)>>

-----------------------------------------------------------------------------
\* No part of the identifier is made by a slash, and none reads like a day.
Regular(id) ==
    \A i \in DOMAIN id :
        id[i] \notin DOMAIN Slashed \cup {Ingest(now) : now \in Instants}

\* The directory of a stream and day holds the objects of that stream alone,
\* at any depth, and no object replaces another one: whatever was routed, from
\* whichever topics, and however streams share their leading segments.
\* Identifiers that are not Regular are excepted (S3Partitioner::key_inner,
\* called by close_and_upload with an identifier write_id made).
KeysTellStreams ==
    LET Objects == {t.stream_id : t \in {u \in taken : Regular(u.stream_id)}}
                       \X Instants \X Uuids
        KeyOf == [o \in Objects |-> key_inner(o[1], o[2], o[3])]
    IN  \A o, p \in Objects :
            /\ IsPrefix(Front(KeyOf[o]), KeyOf[p]) => o[1] = p[1]
            /\ KeyOf[o] = KeyOf[p] => o = p
=============================================================================
