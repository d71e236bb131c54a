----------------------------- MODULE StateMachine -----------------------------
(***************************************************************************)
(* The sink's state machine (src/src/state_machine.rs) with the file       *)
(* registry it owns.  Each handler is an operator that fixes the primed    *)
(* value of every variable below.  The responses a handler returns are     *)
(* operators of the state it starts in (Seals, ToUpload, DeletedPaths,     *)
(* TopicPartitionList, ...): the event loop applies them in the same step. *)
(***************************************************************************)
EXTENDS DataModel

CONSTANTS
    TargetFileSize,         \* config.target_file_size_b
    ActiveFileTimeout,      \* config.max_active_file_timeout_ms, in time units
    MaxConcurrentUploads,   \* config.max_concurrent_uploads
    MaxUploadsRetry         \* config.max_uploads_retry

ASSUME StateMachineAssumption ==
    /\ TargetFileSize \in Nat
    /\ ActiveFileTimeout \in Nat
    /\ MaxConcurrentUploads \in Nat
    /\ MaxUploadsRetry \in Nat

VARIABLES
    streams,            \* streams[s]: StreamState of s, NoStream when absent
    files,              \* files[s]: the registry's ActiveFile of s, or NoFile
    offsets_uploaded,   \* offsets_uploaded[p]: {} when the key is absent
    offsets_watermark,  \* offsets_watermark[p]: NoOffset when absent
    in_flight_uploads

smvars == <<streams, files, offsets_uploaded, offsets_watermark,
            in_flight_uploads>>

NoPath   == -1
NoStream == [offsets |-> {}, bytes |-> 0, age |-> 0]
NoFile   == [path |-> NoPath, data |-> {}]

\* Byte counts and ages matter only up to the threshold they are compared with.
StreamState == [offsets : SUBSET RecordIds, bytes : 0 .. TargetFileSize,
                age : 0 .. ActiveFileTimeout]
ActiveFile  == [path : Nat, data : SUBSET RecordIds]
Upload      == [path : Nat, data : SUBSET RecordIds, offsets : SUBSET RecordIds,
                retries : 0 .. MaxUploadsRetry, stored : BOOLEAN]

StateMachineTypeOK ==
    /\ streams \in [Streams -> StreamState]
    /\ files \in [Streams -> ActiveFile \cup {NoFile}]
    /\ offsets_uploaded \in [Partitions -> SUBSET Offsets]
    /\ offsets_watermark \in [Partitions -> MaybeOffset]
    /\ in_flight_uploads \in Int

StateMachineInit ==
    /\ streams = [s \in Streams |-> NoStream]
    /\ files = [s \in Streams |-> NoFile]
    /\ offsets_uploaded = [p \in Partitions |-> {}]
    /\ offsets_watermark = [p \in Partitions |-> NoOffset]
    /\ in_flight_uploads = 0

\* The memory of a process that has exited: what the next one starts with.
StateMachineForgotten ==
    /\ streams' = [s \in Streams |-> NoStream]
    /\ files' = [s \in Streams |-> NoFile]
    /\ offsets_uploaded' = [p \in Partitions |-> {}]
    /\ offsets_watermark' = [p \in Partitions |-> NoOffset]
    /\ in_flight_uploads' = 0

OpenStreams == {s \in Streams : streams[s].offsets # {}}

-----------------------------------------------------------------------------
(* close_and_upload: a stream leaves the maps and becomes an upload.  The   *)
(* registry has no file for a stream that never had a payload written; the  *)
(* handler then answers Fatal instead.                                      *)

ToUpload(stream, file) ==
    [path |-> file.path, data |-> file.data, offsets |-> stream.offsets,
     retries |-> MaxUploadsRetry, stored |-> FALSE]

UploadsOf(S) == {ToUpload(streams[s], files[s]) : s \in S}

CloseFails(S) == \E s \in S : files[s] = NoFile

close_and_upload(S) ==
    /\ streams' = [s \in Streams |-> IF s \in S THEN NoStream ELSE streams[s]]
    /\ files' = [s \in Streams |-> IF s \in S THEN NoFile ELSE files[s]]
    /\ in_flight_uploads' = in_flight_uploads + Cardinality(S)
    /\ UNCHANGED <<offsets_uploaded, offsets_watermark>>

-----------------------------------------------------------------------------
(* handle_process_record, for the record at offset o of partition p.  A     *)
(* payload is appended to the stream's file, created at `path` if need be.  *)

StreamOf(p, o) == Log[p][o].stream

Saturated(n, limit) == IF n > limit THEN limit ELSE n

StreamAfter(p, o) ==
    LET old == streams[StreamOf(p, o)]
        payload == IF IsData(<<p, o>>) THEN Log[p][o].size ELSE 0
    IN  [offsets |-> old.offsets \cup {<<p, o>>},
         bytes   |-> Saturated(old.bytes + payload, TargetFileSize),
         age     |-> old.age]

FileAfter(p, o, path) ==
    LET old == files[StreamOf(p, o)]
    IN  IF IsData(<<p, o>>)
        THEN [path |-> IF old = NoFile THEN path ELSE old.path,
              data |-> old.data \cup {<<p, o>>}]
        ELSE old

\* Mutant of Seals: seals at the target size even when the pool is full.
SealsWhenFull(p, o) ==
    /\ IsData(<<p, o>>)
    /\ StreamAfter(p, o).bytes >= TargetFileSize

Seals(p, o) ==
    /\ IsData(<<p, o>>)
    /\ StreamAfter(p, o).bytes >= TargetFileSize
    /\ in_flight_uploads < MaxConcurrentUploads

\* Mutant of handle_process_record: insert, not or_insert, of the watermark.
process_record_moves_watermark(p, o, path) ==
    /\ streams' = [streams EXCEPT ![StreamOf(p, o)] =
                      IF Seals(p, o) THEN NoStream ELSE StreamAfter(p, o)]
    /\ files' = [files EXCEPT ![StreamOf(p, o)] =
                      IF Seals(p, o) THEN NoFile ELSE FileAfter(p, o, path)]
    /\ offsets_watermark' = [offsets_watermark EXCEPT ![p] = o]
    /\ in_flight_uploads' = in_flight_uploads + (IF Seals(p, o) THEN 1 ELSE 0)
    /\ UNCHANGED offsets_uploaded

handle_process_record(p, o, path) ==
    /\ streams' = [streams EXCEPT ![StreamOf(p, o)] =
                      IF Seals(p, o) THEN NoStream ELSE StreamAfter(p, o)]
    /\ files' = [files EXCEPT ![StreamOf(p, o)] =
                      IF Seals(p, o) THEN NoFile ELSE FileAfter(p, o, path)]
    /\ offsets_watermark' = [offsets_watermark EXCEPT ![p] =
                      IF @ = NoOffset THEN o ELSE @]
    /\ in_flight_uploads' = in_flight_uploads + (IF Seals(p, o) THEN 1 ELSE 0)
    /\ UNCHANGED offsets_uploaded

-----------------------------------------------------------------------------
(* handle_upload_tick: seal dormant streams, as many as the pool has room   *)
(* for; which ones depends on the hash map's iteration order.               *)

Dormant == {s \in OpenStreams : streams[s].age >= ActiveFileTimeout}

UploadsCapacity ==
    IF in_flight_uploads < MaxConcurrentUploads
    THEN MaxConcurrentUploads - in_flight_uploads ELSE 0

UploadBatches ==
    {S \in SUBSET Dormant :
        Cardinality(S) = Saturated(Cardinality(Dormant), UploadsCapacity)}

handle_upload_tick(S) == close_and_upload(S)

-----------------------------------------------------------------------------
(* handle_upload_completion, by the result of the upload.                   *)

UploadedOffsets(u, p) == {o \in Offsets : <<p, o>> \in u.offsets}

\* Mutant of upload_success: the pool's slot is not given back.
upload_success_keeps_slot(u) ==
    /\ offsets_uploaded' = [p \in Partitions |->
                               offsets_uploaded[p] \cup UploadedOffsets(u, p)]
    /\ UNCHANGED <<streams, files, offsets_watermark, in_flight_uploads>>

upload_success(u) ==
    /\ offsets_uploaded' = [p \in Partitions |->
                               offsets_uploaded[p] \cup UploadedOffsets(u, p)]
    /\ in_flight_uploads' = in_flight_uploads - 1
    /\ UNCHANGED <<streams, files, offsets_watermark>>

decrement(u) == [u EXCEPT !.retries = @ - 1, !.stored = FALSE]

-----------------------------------------------------------------------------
(* make_topic_partition_list, for the current assignment A: the offsets to  *)
(* commit, the advanced watermarks and the trimmed sets of offsets.         *)

\* Mutant of TopicPartitionList: a partition without a watermark starts from
\* its lowest uploaded offset, stale or not.
ListWithoutWatermark(A) ==
    [p \in Partitions |->
        LET lowest == CHOOSE o \in offsets_uploaded[p] :
                          \A x \in offsets_uploaded[p] : o <= x
            watermark == IF offsets_watermark[p] # NoOffset
                         THEN offsets_watermark[p] ELSE lowest
        IN  IF p \in A /\ offsets_uploaded[p] # {}
               /\ ContiguousEnd(offsets_uploaded[p], watermark) > watermark
            THEN ContiguousEnd(offsets_uploaded[p], watermark) ELSE NoOffset]

TopicPartitionList(A) ==
    [p \in Partitions |->
        LET watermark == offsets_watermark[p]
            end == ContiguousEnd(offsets_uploaded[p], watermark)
        IN  IF p \in A /\ watermark # NoOffset /\ end > watermark
            THEN end ELSE NoOffset]

IsEmptyList(tpl) == \A p \in Partitions : tpl[p] = NoOffset

\* A set whose partition has no watermark yet is kept whole (NoOffset < 0).
make_topic_partition_list(A) ==
    LET tpl == TopicPartitionList(A)
        advanced(p) == IF tpl[p] = NoOffset THEN offsets_watermark[p] ELSE tpl[p]
    IN  /\ offsets_watermark' = [p \in Partitions |-> advanced(p)]
        /\ offsets_uploaded' = [p \in Partitions |->
               {o \in offsets_uploaded[p] : p \in A /\ o >= advanced(p)}]
        /\ UNCHANGED <<streams, files, in_flight_uploads>>

-----------------------------------------------------------------------------
(* handle_revoke_partitions: streams fed only by revoked partitions go, with *)
(* their files; a stream shared with a kept partition stays.                 *)

PartitionsOf(s) == {r[1] : r \in streams[s].offsets}

\* Mutant of RevokedStreams: any revoked partition is enough (any for all).
StreamsTouching(R) == {s \in OpenStreams : PartitionsOf(s) \cap R # {}}

RevokedStreams(R) == {s \in OpenStreams : PartitionsOf(s) \subseteq R}

DeletedPaths(R) == {files[s].path : s \in RevokedStreams(R)}

\* Mutants of handle_revoke_partitions: the watermark of a revoked partition
\* outlives it; the stream outlives its file.
revoke_keeps_watermark(R) ==
    /\ streams' = [s \in Streams |->
                      IF s \in RevokedStreams(R) THEN NoStream ELSE streams[s]]
    /\ files' = [s \in Streams |->
                      IF s \in RevokedStreams(R) THEN NoFile ELSE files[s]]
    /\ UNCHANGED offsets_watermark
    /\ offsets_uploaded' = [p \in Partitions |->
                      IF p \in R THEN {} ELSE offsets_uploaded[p]]
    /\ UNCHANGED in_flight_uploads

revoke_keeps_stream(R) ==
    /\ files' = [s \in Streams |->
                      IF s \in RevokedStreams(R) THEN NoFile ELSE files[s]]
    /\ offsets_watermark' = [p \in Partitions |->
                      IF p \in R THEN NoOffset ELSE offsets_watermark[p]]
    /\ offsets_uploaded' = [p \in Partitions |->
                      IF p \in R THEN {} ELSE offsets_uploaded[p]]
    /\ UNCHANGED <<streams, in_flight_uploads>>

handle_revoke_partitions(R) ==
    /\ streams' = [s \in Streams |->
                      IF s \in RevokedStreams(R) THEN NoStream ELSE streams[s]]
    /\ files' = [s \in Streams |->
                      IF s \in RevokedStreams(R) THEN NoFile ELSE files[s]]
    /\ offsets_watermark' = [p \in Partitions |->
                      IF p \in R THEN NoOffset ELSE offsets_watermark[p]]
    /\ offsets_uploaded' = [p \in Partitions |->
                      IF p \in R THEN {} ELSE offsets_uploaded[p]]
    /\ UNCHANGED in_flight_uploads

-----------------------------------------------------------------------------
\* Mutant of handle_shutdown_signal: seals only what the pool has room for.
shutdown_seals_capacity ==
    \E S \in SUBSET OpenStreams :
        /\ Cardinality(S) = Saturated(Cardinality(OpenStreams), UploadsCapacity)
        /\ close_and_upload(S)

\* handle_shutdown_signal: every stream is sealed, however full the pool is.
handle_shutdown_signal == close_and_upload(OpenStreams)

\* Time goes by for every open stream (Instant::now - created_at).
StreamsAge ==
    /\ streams' = [s \in Streams |->
                      IF s \in OpenStreams
                      THEN [streams[s] EXCEPT
                               !.age = Saturated(@ + 1, ActiveFileTimeout)]
                      ELSE streams[s]]
    /\ UNCHANGED <<files, offsets_uploaded, offsets_watermark, in_flight_uploads>>
=============================================================================
