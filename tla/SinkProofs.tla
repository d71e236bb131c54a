----------------------------- MODULE SinkProofs -----------------------------
(***************************************************************************)
(* Type correctness of the sink, and the upload pool, its counter and the  *)
(* scratch files, for all values of the constants: the counter is the size *)
(* of the pool, which stays within its limit while the event loop runs,    *)
(* and the files on disk are those of open streams and uploads, each used  *)
(* once.                                                                   *)
(*                                                                         *)
(* The counter changes when the pool does only because two uploads never   *)
(* have a path in common: the pool, as a set, would lose one.  So PoolInv  *)
(* relates the counter, the paths and the disk, and all three at once are  *)
(* inductive together with TypeOK.                                         *)
(*                                                                         *)
(* Where nothing fails, nothing ends the process (NeverFatal): a stream    *)
(* that is sealed has a file, because each of its records had a payload.   *)
(***************************************************************************)
EXTENDS SinkProperties, FiniteSetTheorems, SequenceTheorems, DataModelProofs

LEMMA ConstantTypes ==
    /\ LogSize \in Nat
    /\ TargetFileSize \in Nat
    /\ ActiveFileTimeout \in Nat
    /\ MaxConcurrentUploads \in Nat
    /\ MaxUploadsRetry \in Nat
    /\ InitialEnd \in [Partitions -> 0 .. LogSize]
    /\ IsFiniteSet(Streams)
    /\ \A p \in Partitions, o \in Offsets :
          /\ Log[p][o].stream \in Streams
          /\ Log[p][o].size \in Nat
BY LogAssumption, StateMachineAssumption, SinkAssumption DEF Record

\* A natural number cut off at a limit lies between 0 and the limit.
LEMMA SaturatedType ==
    ASSUME NEW n \in Nat, NEW limit \in Nat
    PROVE  Saturated(n, limit) \in 0 .. limit
BY DEF Saturated

\* A finite disk has room for a file of a new name.
LEMMA FreshPathType ==
    ASSUME disk \in SUBSET Nat, IsFiniteSet(disk)
    PROVE  FreshPath \in Nat /\ FreshPath \notin disk
<1> DEFINE names == 0 .. Cardinality(disk)
<1>1. Cardinality(disk) \in Nat
  BY FS_CardinalityType
<1>2. IsFiniteSet(names) /\ Cardinality(names) = Cardinality(disk) + 1
  BY <1>1, FS_Interval
<1>3. ~ (names \subseteq disk)
  <2> SUFFICES ASSUME names \subseteq disk PROVE FALSE
    OBVIOUS
  <2>1. Cardinality(names) <= Cardinality(disk)
    BY FS_Subset
  <2> QED
    BY <1>1, <1>2, <2>1
<1>4. \E n \in names : n \notin disk
  BY <1>3
<1>5. FreshPath \in names /\ FreshPath \notin disk
  BY <1>4 DEF FreshPath
<1> QED
  BY <1>1, <1>5

\* A new process starts with well-typed, empty maps.
LEMMA ForgottenType == StateMachineForgotten => StateMachineTypeOK'
<1>1. NoStream \in StreamState
  BY ConstantTypes DEF NoStream, StreamState, RecordIds
<1> QED
  BY <1>1 DEF StateMachineForgotten, StateMachineTypeOK, MaybeOffset

LEMMA TypeInit == Init => TypeOK
<1>1. NoStream \in StreamState
  BY ConstantTypes DEF NoStream, StreamState, RecordIds
<1>2. Init => StateMachineTypeOK
  BY <1>1 DEF Init, StateMachineInit, StateMachineTypeOK, MaybeOffset
<1>3. IsFiniteSet({})
  BY FS_EmptySet
<1>4. [p \in Partitions |-> NoOffset] \in CommitList
  BY DEF CommitList, MaybeOffset
<1>5. << >> \in Seq(CommitList) /\ << >> \in Seq(SUBSET Partitions)
  BY EmptySeq
<1> QED
  BY <1>2, <1>3, <1>4, <1>5, ConstantTypes DEF Init, TypeOK, Statuses

-----------------------------------------------------------------------------
(* The handlers of the state machine.                                       *)

\* An upload made of a stream and a file is well-typed.
LEMMA ToUploadType ==
    ASSUME NEW stream \in StreamState, NEW file \in ActiveFile
    PROVE  ToUpload(stream, file) \in Upload
BY ConstantTypes DEF ToUpload, StreamState, ActiveFile, Upload

\* Sealing streams keeps the maps well-typed and makes well-typed uploads.
LEMMA CloseType ==
    ASSUME StateMachineTypeOK, NEW S \in SUBSET Streams,
           ~ CloseFails(S), close_and_upload(S)
    PROVE  /\ StateMachineTypeOK'
           /\ UploadsOf(S) \subseteq Upload
           /\ IsFiniteSet(UploadsOf(S))
<1>1. NoStream \in StreamState
  BY ConstantTypes DEF NoStream, StreamState, RecordIds
<1>2. IsFiniteSet(S) /\ Cardinality(S) \in Nat
  BY ConstantTypes, FS_Subset, FS_CardinalityType
<1>3. StateMachineTypeOK'
  BY <1>1, <1>2 DEF StateMachineTypeOK, close_and_upload
<1>4. ASSUME NEW s \in S PROVE ToUpload(streams[s], files[s]) \in Upload
  BY ToUploadType DEF StateMachineTypeOK, CloseFails
<1>5. IsFiniteSet(UploadsOf(S))
  <2> DEFINE upload == [s \in S |-> ToUpload(streams[s], files[s])]
  <2>1. upload \in Surjection(S, UploadsOf(S))
    BY DEF UploadsOf, Surjection
  <2> HIDE DEF upload
  <2> QED
    BY <1>2, <2>1, FS_Surjection
<1> QED
  BY <1>3, <1>4, <1>5 DEF UploadsOf

\* What a record does to its stream and file keeps them well-typed.
LEMMA RecordType ==
    ASSUME StateMachineTypeOK, NEW p \in Partitions, NEW o \in Offsets,
           NEW path \in Nat
    PROVE  /\ StreamOf(p, o) \in Streams
           /\ StreamAfter(p, o) \in StreamState
           /\ FileAfter(p, o, path) \in ActiveFile \cup {NoFile}
           /\ IsData(<<p, o>>) => FileAfter(p, o, path) \in ActiveFile
<1>1. StreamOf(p, o) \in Streams /\ <<p, o>> \in RecordIds
  BY ConstantTypes DEF StreamOf, RecordIds
<1>2. streams[StreamOf(p, o)] \in StreamState
      /\ files[StreamOf(p, o)] \in ActiveFile \cup {NoFile}
  BY <1>1 DEF StateMachineTypeOK
<1>3. StreamAfter(p, o) \in StreamState
  <2> DEFINE payload == IF IsData(<<p, o>>) THEN Log[p][o].size ELSE 0
             bytes   == streams[StreamOf(p, o)].bytes + payload
  <2>1. bytes \in Nat
    BY <1>2, ConstantTypes DEF StreamState
  <2>2. Saturated(bytes, TargetFileSize) \in 0 .. TargetFileSize
    BY <2>1, ConstantTypes, SaturatedType
  <2> QED
    BY <1>1, <1>2, <2>2 DEF StreamAfter, StreamState
<1>4. IsData(<<p, o>>) => FileAfter(p, o, path) \in ActiveFile
  BY <1>1, <1>2 DEF FileAfter, ActiveFile, NoFile
<1>5. ~ IsData(<<p, o>>) => FileAfter(p, o, path) \in ActiveFile \cup {NoFile}
  BY <1>2 DEF FileAfter
<1> QED
  BY <1>1, <1>3, <1>4, <1>5

LEMMA ProcessRecordType ==
    ASSUME StateMachineTypeOK, NEW p \in Partitions, NEW o \in Offsets,
           NEW path \in Nat, handle_process_record(p, o, path)
    PROVE  StateMachineTypeOK'
<1>1. NoStream \in StreamState
  BY ConstantTypes DEF NoStream, StreamState, RecordIds
<1>2. o \in Nat
  BY DEF Offsets
<1>3. in_flight_uploads' \in Int
  BY DEF handle_process_record, StateMachineTypeOK
<1>4. offsets_watermark' \in [Partitions -> MaybeOffset]
  BY <1>2 DEF handle_process_record, StateMachineTypeOK, MaybeOffset
<1>5. /\ streams' \in [Streams -> StreamState]
      /\ files' \in [Streams -> ActiveFile \cup {NoFile}]
  BY <1>1, RecordType DEF handle_process_record, StateMachineTypeOK
<1> QED
  BY <1>3, <1>4, <1>5 DEF handle_process_record, StateMachineTypeOK

LEMMA UploadSuccessType ==
    ASSUME StateMachineTypeOK, NEW u \in Upload, upload_success(u)
    PROVE  StateMachineTypeOK'
BY DEF upload_success, StateMachineTypeOK, UploadedOffsets

LEMMA RevokeType ==
    ASSUME StateMachineTypeOK, NEW R, handle_revoke_partitions(R)
    PROVE  StateMachineTypeOK'
<1>1. NoStream \in StreamState
  BY ConstantTypes DEF NoStream, StreamState, RecordIds
<1> QED
  BY <1>1 DEF handle_revoke_partitions, StateMachineTypeOK, MaybeOffset

\* An offset to commit is a number, and the list has an entry per partition.
LEMMA ListType ==
    ASSUME StateMachineTypeOK, NEW A
    PROVE  TopicPartitionList(A) \in CommitList
<1>1. ASSUME NEW p \in Partitions, offsets_watermark[p] # NoOffset
      PROVE  ContiguousEnd(offsets_uploaded[p], offsets_watermark[p]) \in Nat
  <2>1. offsets_uploaded[p] \in SUBSET Offsets /\ offsets_watermark[p] \in Nat
    BY <1>1 DEF StateMachineTypeOK, MaybeOffset
  <2> QED
    BY <2>1, ContiguousEndCorrect
<1> QED
  BY <1>1 DEF TopicPartitionList, CommitList, MaybeOffset

LEMMA MakeListType ==
    ASSUME StateMachineTypeOK, NEW A, make_topic_partition_list(A)
    PROVE  StateMachineTypeOK'
<1>1. TopicPartitionList(A) \in [Partitions -> MaybeOffset]
  BY ListType DEF CommitList
<1> QED
  BY <1>1 DEF make_topic_partition_list, StateMachineTypeOK

LEMMA AgeType ==
    ASSUME StateMachineTypeOK, StreamsAge
    PROVE  StateMachineTypeOK'
<1>1. ASSUME NEW s \in Streams
      PROVE  [streams[s] EXCEPT !.age = Saturated(@ + 1, ActiveFileTimeout)]
                \in StreamState
  <2>1. streams[s] \in StreamState
    BY DEF StateMachineTypeOK
  <2>2. streams[s].age + 1 \in Nat
    BY <2>1, ConstantTypes DEF StreamState
  <2>3. Saturated(streams[s].age + 1, ActiveFileTimeout) \in 0 .. ActiveFileTimeout
    BY <2>2, ConstantTypes, SaturatedType
  <2> QED
    BY <2>1, <2>3 DEF StreamState
<1> QED
  BY <1>1 DEF StreamsAge, StateMachineTypeOK
-----------------------------------------------------------------------------
(* The actions of the sink and of the world around it.                      *)

\* Where a member begins to read is a number.
LEMMA StartType ==
    ASSUME TypeOK, NEW p \in Partitions
    PROVE  ResetPosition(p) \in Nat /\ StartPosition(p) \in Nat
<1>1. logEnd[p] \in Nat
  BY ConstantTypes DEF TypeOK
<1>2. committed[p] \in MaybeOffset
  BY DEF TypeOK, CommitList
<1> QED
  BY <1>1, <1>2 DEF ResetPosition, StartPosition, MaybeOffset

LEMMA ResetsType ==
    ASSUME TypeOK, NEW P
    PROVE  Resets(P) \in [Partitions -> SUBSET Nat]
BY StartType DEF TypeOK, Resets

\* What an exiting process leaves is well-typed.
LEMMA EndsType ==
    ASSUME TypeOK, NEW how \in Statuses, ProcessEnds(how)
    PROVE  /\ StateMachineTypeOK'
           /\ status' \in Statuses
           /\ pool' \subseteq Upload /\ IsFiniteSet(pool')
           /\ disk' \subseteq Nat /\ IsFiniteSet(disk')
           /\ rebalance' \in Seq(SUBSET Partitions)
           /\ assignment' \subseteq Partitions
           /\ position' \in CommitList
           /\ \A p \in assignment' : position'[p] # NoOffset
           /\ evicted' \in BOOLEAN
<1>1. StateMachineTypeOK'
  BY ForgottenType DEF ProcessEnds
<1>2. IsFiniteSet({}) /\ << >> \in Seq(SUBSET Partitions)
  BY FS_EmptySet, EmptySeq
<1>3. position' \in CommitList
  BY DEF ProcessEnds, CommitList, MaybeOffset
<1> QED
  BY <1>1, <1>2, <1>3 DEF ProcessEnds

LEMMA FatalType == TypeOK /\ Fatal => TypeOK'
<1> SUFFICES ASSUME TypeOK, Fatal PROVE TypeOK'
  OBVIOUS
<1>1. "failed" \in Statuses
  BY DEF Statuses
<1> QED
  BY <1>1, EndsType DEF Fatal, TypeOK, worldvars

LEMMA WorldType == TypeOK /\ World => TypeOK'
<1> SUFFICES ASSUME TypeOK, World PROVE TypeOK'
  OBVIOUS
<1> USE DEF vars, smvars, procvars, groupvars, worldvars
<1>0. StateMachineTypeOK
  BY DEF TypeOK
<1>1. ASSUME NEW p \in Partitions, Produce(p) PROVE TypeOK'
  <2>1. logEnd[p] + 1 \in 0 .. LogSize
    BY <1>1, ConstantTypes DEF Produce, TypeOK
  <2> QED
    BY <1>1, <2>1 DEF Produce, TypeOK, StateMachineTypeOK
<1>2. CASE TimePasses
  <2>1. StateMachineTypeOK'
    BY <1>0, <1>2, AgeType DEF TimePasses
  <2> QED
    BY <1>2, <2>1 DEF TimePasses, TypeOK
<1>3. ASSUME NEW A \in SUBSET Partitions, Assign(A) PROVE TypeOK'
  <2>1. position' \in CommitList
    BY <1>3, StartType DEF Assign, TypeOK, CommitList, MaybeOffset
  <2>2. \A p \in assignment' : position'[p] # NoOffset
    BY <1>3, StartType DEF Assign, TypeOK, NoOffset
  <2>3. << >> \in Seq(CommitList) /\ resets' \in [Partitions -> SUBSET Nat]
    BY <1>3, EmptySeq, ResetsType DEF Assign
  <2> QED
    BY <1>3, <2>1, <2>2, <2>3 DEF Assign, TypeOK, StateMachineTypeOK
<1>4. ASSUME NEW R \in SUBSET Partitions, Revoke(R) PROVE TypeOK'
  <2>1. position' \in CommitList
    BY <1>4 DEF Revoke, TypeOK, CommitList, MaybeOffset
  <2>2. \A p \in assignment' : position'[p] # NoOffset
    BY <1>4 DEF Revoke, TypeOK
  <2>3. rebalance' \in Seq(SUBSET Partitions)
    BY <1>4 DEF Revoke, TypeOK
  <2> QED
    BY <1>4, <2>1, <2>2, <2>3 DEF Revoke, TypeOK, StateMachineTypeOK
<1>5. CASE Evict
  <2>1. << >> \in Seq(CommitList)
    BY EmptySeq
  <2> QED
    BY <1>5, <2>1 DEF Evict, TypeOK, StateMachineTypeOK
<1>6. ASSUME NEW p \in Partitions, NEW n \in 1 .. LogSize, PeerProgress(p, n)
      PROVE  TypeOK'
  <2>1. << >> \in Seq(CommitList) /\ resets' \in [Partitions -> SUBSET Nat]
    BY <1>6, EmptySeq, ResetsType DEF PeerProgress
  <2>2. StartPosition(p) .. n - 1 \subseteq Offsets
    BY <1>6, ConstantTypes, StartType DEF Offsets
  <2>3. durable' \subseteq RecordIds
    BY <1>6, <2>2 DEF PeerProgress, TypeOK, DataOf, RecordIds
  <2>4. committed' \in CommitList
    BY <1>6, ConstantTypes DEF PeerProgress, TypeOK, CommitList, MaybeOffset
  <2> QED
    BY <1>6, <2>1, <2>3, <2>4 DEF PeerProgress, TypeOK, StateMachineTypeOK
<1>7. CASE BrokerAppliesCommit
  <2>1. Head(commits) \in CommitList /\ Tail(commits) \in Seq(CommitList)
    BY <1>7, HeadTailProperties DEF BrokerAppliesCommit, TypeOK
  <2>2. committed' \in CommitList
    BY <1>7, <2>1 DEF BrokerAppliesCommit, TypeOK, CommitList
  <2> QED
    BY <1>7, <2>1, <2>2 DEF BrokerAppliesCommit, TypeOK, StateMachineTypeOK
<1>8. CASE CommitLost
  <2>1. Tail(commits) \in Seq(CommitList)
    BY <1>8, HeadTailProperties DEF CommitLost, TypeOK
  <2> QED
    BY <1>8, <2>1 DEF CommitLost, TypeOK, StateMachineTypeOK
<1>9. ASSUME NEW u \in pool, StoreObject(u) PROVE TypeOK'
  <2>1. u \in Upload
    BY DEF TypeOK
  <2>2. [u EXCEPT !.stored = TRUE] \in Upload /\ u.data \subseteq RecordIds
    BY <2>1 DEF Upload
  <2>3. IsFiniteSet(pool')
    BY <1>9, FS_RemoveElement, FS_AddElement DEF StoreObject, TypeOK
  <2> QED
    BY <1>9, <2>2, <2>3 DEF StoreObject, TypeOK, StateMachineTypeOK
<1>10. CASE Crash
  BY <1>10, FatalType DEF Crash
<1>11. CASE Restart
  BY <1>11 DEF Restart, TypeOK, StateMachineTypeOK, Statuses
<1> QED
  BY <1>1, <1>2, <1>3, <1>4, <1>5, <1>6, <1>7, <1>8, <1>9, <1>10, <1>11 DEF World

\* A record that can be read lies in the log.
LEMMA ReadType ==
    ASSUME TypeOK, NEW p \in Partitions, CanRead(p)
    PROVE  /\ position[p] \in Nat
           /\ position[p] \in Offsets
<1>1. position[p] \in MaybeOffset /\ position[p] # NoOffset
  BY DEF TypeOK, CanRead, CommitList
<1>2. logEnd[p] \in 0 .. LogSize /\ position[p] < logEnd[p]
  BY DEF TypeOK, CanRead
<1> QED
  BY <1>1, <1>2, ConstantTypes DEF MaybeOffset, Offsets

LEMMA ReadPastType ==
    ASSUME TypeOK, NEW p \in Partitions, CanRead(p), ReadPast(p)
    PROVE  /\ position' \in CommitList
           /\ \A q \in assignment : position'[q] # NoOffset
<1>1. position[p] + 1 \in Nat
  BY ReadType
<1> QED
  BY <1>1 DEF TypeOK, CommitList, MaybeOffset, NoOffset, ReadPast

LEMMA EventLoopType == TypeOK /\ EventLoop => TypeOK'
<1> SUFFICES ASSUME TypeOK, EventLoop PROVE TypeOK'
  OBVIOUS
<1> USE DEF smvars, procvars, groupvars, worldvars
<1>0. StateMachineTypeOK
  BY DEF TypeOK
<1>1. CASE DrainRevocation
  <2>1. Tail(rebalance) \in Seq(SUBSET Partitions)
    BY <1>1, HeadTailProperties DEF DrainRevocation, TypeOK
  <2>2. StateMachineTypeOK'
    BY <1>0, <1>1, RevokeType DEF DrainRevocation
  <2>3. disk' \subseteq Nat /\ IsFiniteSet(disk')
    BY <1>1, FS_Subset DEF DrainRevocation, TypeOK
  <2> QED
    BY <1>1, <2>1, <2>2, <2>3 DEF DrainRevocation, TypeOK
<1>2. ASSUME NEW p \in Partitions, ProcessRecord(p) PROVE TypeOK'
  <2> DEFINE o == position[p]
  <2>1. o \in Offsets
    BY <1>2, ReadType DEF ProcessRecord
  <2>2. FreshPath \in Nat
    BY FreshPathType DEF TypeOK
  <2>3. StateMachineTypeOK'
    BY <1>0, <1>2, <2>1, <2>2, ProcessRecordType DEF ProcessRecord
  <2>4. position' \in CommitList /\ \A q \in assignment : position'[q] # NoOffset
    BY <1>2, ReadPastType DEF ProcessRecord
  <2>5. disk' \subseteq Nat /\ IsFiniteSet(disk')
    BY <1>2, <2>2, FS_AddElement DEF ProcessRecord, TypeOK
  <2>6. pool' \subseteq Upload /\ IsFiniteSet(pool')
    <3>1. CASE Seals(p, o)
      <4>1. ToUpload(StreamAfter(p, o), FileAfter(p, o, FreshPath)) \in Upload
        BY <1>0, <2>1, <2>2, <3>1, RecordType, ToUploadType DEF Seals
      <4> QED
        BY <1>2, <3>1, <4>1, FS_AddElement DEF ProcessRecord, TypeOK
    <3>2. CASE ~ Seals(p, o)
      BY <1>2, <3>2 DEF ProcessRecord, TypeOK
    <3> QED
      BY <3>1, <3>2
  <2> QED
    BY <1>2, <2>3, <2>4, <2>5, <2>6 DEF ProcessRecord, TypeOK
<1>3. ASSUME NEW p \in Partitions, ProcessRecordFails(p) PROVE TypeOK'
  BY <1>3, FatalType DEF ProcessRecordFails
<1>4. ASSUME NEW p \in Partitions, SkipGap(p) PROVE TypeOK'
  <2>1. position' \in CommitList /\ \A q \in assignment : position'[q] # NoOffset
    BY <1>4, ReadPastType DEF SkipGap
  <2> QED
    BY <1>4, <2>1 DEF SkipGap, TypeOK, StateMachineTypeOK
<1>5. CASE UploadTick
  <2>1. PICK S \in UploadBatches :
          IF CloseFails(S)
          THEN Fatal
          ELSE /\ handle_upload_tick(S)
               /\ pool' = pool \cup UploadsOf(S)
               /\ UNCHANGED <<status, disk, rebalance, groupvars, worldvars>>
    BY <1>5 DEF UploadTick
  <2>2. CASE CloseFails(S)
    BY <2>1, <2>2, FatalType
  <2>3. CASE ~ CloseFails(S)
    <3>1. S \in SUBSET Streams
      BY DEF UploadBatches, Dormant, OpenStreams
    <3>2. /\ StateMachineTypeOK'
          /\ UploadsOf(S) \subseteq Upload /\ IsFiniteSet(UploadsOf(S))
      BY <1>0, <2>1, <2>3, <3>1, CloseType DEF handle_upload_tick
    <3>3. IsFiniteSet(pool')
      BY <2>1, <2>3, <3>2, FS_Union DEF TypeOK
    <3> QED
      BY <2>1, <2>3, <3>2, <3>3 DEF TypeOK
  <2> QED
    BY <2>2, <2>3
<1>6. CASE CommitTick
  <2>1. StateMachineTypeOK'
    BY <1>0, <1>6, MakeListType DEF CommitTick
  <2>2. TopicPartitionList(assignment) \in CommitList
    BY <1>0, ListType
  <2>3. commits' \in Seq(CommitList)
    <3>1. commits \in Seq(CommitList)
      BY DEF TypeOK
    <3>2. Append(commits, TopicPartitionList(assignment)) \in Seq(CommitList)
      BY <2>2, <3>1
    <3>3. \/ commits' = commits
          \/ commits' = Append(commits, TopicPartitionList(assignment))
      BY <1>6 DEF CommitTick
    <3> QED
      BY <3>1, <3>2, <3>3
  <2> QED
    BY <1>6, <2>1, <2>3 DEF CommitTick, TypeOK
<1>7. ASSUME NEW u \in pool, UploadSucceeds(u) PROVE TypeOK'
  <2>1. u \in Upload
    BY DEF TypeOK
  <2>2. StateMachineTypeOK'
    BY <1>0, <1>7, <2>1, UploadSuccessType DEF UploadSucceeds
  <2>3. IsFiniteSet(pool') /\ IsFiniteSet(disk')
    BY <1>7, FS_Subset DEF UploadSucceeds, TypeOK
  <2> QED
    BY <1>7, <2>2, <2>3 DEF UploadSucceeds, TypeOK
<1>8. ASSUME NEW u \in pool, UploadFails(u) PROVE TypeOK'
  <2>1. u \in Upload
    BY DEF TypeOK
  <2>2. CASE u.retries > 0
    <3>1. decrement(u) \in Upload
      <4>1. u.retries - 1 \in 0 .. MaxUploadsRetry
        BY <2>1, <2>2, ConstantTypes DEF Upload
      <4>2. decrement(u) = [u EXCEPT !.retries = u.retries - 1, !.stored = FALSE]
        BY DEF decrement
      <4> QED
        BY <2>1, <4>1, <4>2, Zenon DEF Upload
    <3>2. IsFiniteSet(pool')
      <4>1. pool' = (pool \ {u}) \cup {decrement(u)}
        BY <1>8, <2>2 DEF UploadFails
      <4>2. IsFiniteSet(pool \ {u})
        BY FS_Subset DEF TypeOK
      <4> QED
        BY <4>1, <4>2, FS_AddElement
    <3> QED
      BY <1>8, <2>2, <3>1, <3>2 DEF UploadFails, TypeOK, StateMachineTypeOK
  <2>3. CASE ~ (u.retries > 0)
    BY <1>8, <2>3, FatalType DEF UploadFails
  <2> QED
    BY <2>2, <2>3
<1>9. CASE ShutdownSignal
  <2>1. CASE CloseFails(OpenStreams)
    BY <1>9, <2>1, FatalType DEF ShutdownSignal
  <2>2. CASE ~ CloseFails(OpenStreams)
    <3>1. OpenStreams \in SUBSET Streams
      BY DEF OpenStreams
    <3>2. /\ StateMachineTypeOK'
          /\ UploadsOf(OpenStreams) \subseteq Upload
          /\ IsFiniteSet(UploadsOf(OpenStreams))
      BY <1>0, <1>9, <2>2, <3>1, CloseType DEF ShutdownSignal, handle_shutdown_signal
    <3>3. IsFiniteSet(pool')
      BY <1>9, <2>2, <3>2, FS_Union DEF ShutdownSignal, TypeOK
    <3> QED
      BY <1>9, <2>2, <3>2, <3>3 DEF ShutdownSignal, TypeOK, Statuses
  <2> QED
    BY <2>1, <2>2
<1>10. CASE SealFails
  BY <1>10, FatalType DEF SealFails
<1> QED
  BY <1>1, <1>2, <1>3, <1>4, <1>5, <1>6, <1>7, <1>8, <1>9, <1>10 DEF EventLoop

LEMMA DrainType == TypeOK /\ Drain => TypeOK'
<1> SUFFICES ASSUME TypeOK, Drain PROVE TypeOK'
  OBVIOUS
<1> USE DEF smvars, procvars, groupvars, worldvars
<1>0. StateMachineTypeOK
  BY DEF TypeOK
<1>1. ASSUME NEW u \in pool, DrainUploadSucceeds(u) PROVE TypeOK'
  <2>1. u \in Upload
    BY DEF TypeOK
  <2>2. StateMachineTypeOK'
    BY <1>0, <1>1, <2>1, UploadSuccessType DEF DrainUploadSucceeds
  <2>3. IsFiniteSet(pool')
    BY <1>1, FS_Subset DEF DrainUploadSucceeds, TypeOK
  <2> QED
    BY <1>1, <2>2, <2>3 DEF DrainUploadSucceeds, TypeOK
<1>2. ASSUME NEW u \in pool, DrainUploadFails(u) PROVE TypeOK'
  <2>1. CASE u.retries > 0
    <3>1. IsFiniteSet(pool')
      BY <1>2, <2>1, FS_Subset DEF DrainUploadFails, TypeOK
    <3> QED
      BY <1>2, <2>1, <3>1 DEF DrainUploadFails, TypeOK, StateMachineTypeOK
  <2>2. CASE ~ (u.retries > 0)
    BY <1>2, <2>2, FatalType DEF DrainUploadFails
  <2> QED
    BY <2>1, <2>2
<1>3. CASE FinalCommit
  <2>1. CASE Fatal
    BY <2>1, FatalType
  <2>2. CASE ProcessEnds("stopped")
    <3>1. TopicPartitionList(assignment) \in CommitList
      BY <1>0, ListType
    <3>2. committed' \in CommitList \/ Fatal
      BY <1>3, <3>1 DEF FinalCommit, TypeOK, CommitList
    <3>3. "stopped" \in Statuses
      BY DEF Statuses
    <3>4. Fatal \/ UNCHANGED <<commits, resets, worldvars>>
      BY <1>3 DEF FinalCommit
    <3> QED
      BY <2>2, <3>2, <3>3, <3>4, EndsType, FatalType DEF TypeOK
  <2> QED
    BY <1>3, <2>1, <2>2 DEF FinalCommit
<1> QED
  BY <1>1, <1>2, <1>3 DEF Drain

LEMMA TypeNext == TypeOK /\ [Next]_vars => TypeOK'
<1>1. TypeOK /\ UNCHANGED vars => TypeOK'
  BY DEF vars, smvars, procvars, groupvars, worldvars, TypeOK, StateMachineTypeOK
<1> QED
  BY <1>1, WorldType, EventLoopType, DrainType DEF Next

\* Every variable of the sink keeps its type through every turn of the event
\* loop, rebalance, fault and restart: no counter of an upload goes below zero,
\* no file name is invalid, an assigned partition always has a position.
THEOREM TypeCorrect == Spec => []TypeOK
<1> QED
  BY TypeInit, TypeNext, PTL DEF Spec

-----------------------------------------------------------------------------
(* The pool.                                                                *)

PInv == TypeOK /\ PoolInv

PathsOf(S) == {files[s].path : s \in S}
PoolPaths  == {u.path : u \in pool}

\* What an exiting process leaves: nothing.
LEMMA EndsPool ==
    ASSUME NEW how \in {"stopped", "failed"}, ProcessEnds(how)
    PROVE  PoolInv'
BY DEF ProcessEnds, StateMachineForgotten, PoolInv, Running, NothingLeft, OpenFiles

LEMMA FatalPool == Fatal => PoolInv'
BY EndsPool DEF Fatal

\* A step that leaves files, offsets of streams, pool and counter alone.
LEMMA FramePool ==
    ASSUME PInv, UNCHANGED <<status, files, pool, disk, in_flight_uploads>>,
           \A s \in Streams : streams'[s].offsets = streams[s].offsets
    PROVE  PoolInv'
BY DEF PInv, PoolInv, Running, PoolAccount, NothingLeft, PathsDistinct, PathsOnDisk,
       FilesHaveStreams, SlotsCounted, OpenFiles, OpenStreams

\* An upload takes the place of another one with its path.
LEMMA ReplacePool ==
    ASSUME PInv, NEW u \in pool, NEW v, v.path = u.path,
           pool' = (pool \ {u}) \cup {v},
           UNCHANGED <<status, streams, files, disk, in_flight_uploads>>
    PROVE  PoolInv'
<1>1. CASE Running
  <2>1. PoolAccount
    BY <1>1 DEF PInv, PoolInv
  <2>2. v \notin pool \ {u}
    BY <2>1 DEF PoolAccount, PathsDistinct
  <2>3. Cardinality(pool') = Cardinality(pool)
    <3>1. IsFiniteSet(pool) /\ Cardinality(pool) \in Nat
      BY FS_CardinalityType DEF PInv, TypeOK
    <3>2. /\ IsFiniteSet(pool \ {u})
          /\ Cardinality(pool \ {u}) = Cardinality(pool) - 1
      BY <3>1, FS_RemoveElement
    <3>3. Cardinality((pool \ {u}) \cup {v}) = Cardinality(pool \ {u}) + 1
      BY <2>2, <3>2, FS_AddElement
    <3> QED
      BY <3>1, <3>2, <3>3
  <2>4. {w.path : w \in pool'} = PoolPaths
    BY DEF PoolPaths
  <2>5. PathsDistinct'
    BY <2>1 DEF PoolAccount, PathsDistinct, OpenFiles
  <2>6. PathsOnDisk'
    BY <2>1, <2>4 DEF PoolAccount, PathsOnDisk, PoolPaths, OpenFiles
  <2>7. FilesHaveStreams'
    BY <2>1 DEF PoolAccount, FilesHaveStreams, OpenFiles, OpenStreams
  <2>8. SlotsCounted'
    BY <2>1, <2>3 DEF PoolAccount, SlotsCounted
  <2> QED
    BY <1>1, <2>5, <2>6, <2>7, <2>8 DEF PoolInv, PoolAccount, Running
<1>2. CASE ~Running
  BY <1>2 DEF PInv, PoolInv, NothingLeft, Running
<1> QED
  BY <1>1, <1>2

-----------------------------------------------------------------------------
LEMMA WorldPool ==
    ASSUME PInv, World
    PROVE  PoolInv'
<1> USE DEF smvars, procvars, groupvars, worldvars
<1>1. ASSUME NEW p \in Partitions, Produce(p) PROVE PoolInv'
  BY <1>1, FramePool DEF Produce
<1>2. CASE TimePasses
  <2>1. ASSUME NEW s \in Streams PROVE streams'[s].offsets = streams[s].offsets
    BY <1>2 DEF TimePasses, StreamsAge, PInv, TypeOK, StateMachineTypeOK, StreamState
  <2> QED
    BY <1>2, <2>1, FramePool DEF TimePasses, StreamsAge
<1>3. ASSUME NEW A \in SUBSET Partitions, Assign(A) PROVE PoolInv'
  BY <1>3, FramePool DEF Assign
<1>4. ASSUME NEW R \in SUBSET Partitions, Revoke(R) PROVE PoolInv'
  BY <1>4, FramePool DEF Revoke
<1>5. CASE Evict
  BY <1>5, FramePool DEF Evict
<1>6. ASSUME NEW p \in Partitions, NEW n \in 1 .. LogSize, PeerProgress(p, n)
      PROVE  PoolInv'
  BY <1>6, FramePool DEF PeerProgress
<1>7. CASE BrokerAppliesCommit
  BY <1>7, FramePool DEF BrokerAppliesCommit
<1>8. CASE CommitLost
  BY <1>8, FramePool DEF CommitLost
<1>9. ASSUME NEW u \in pool, StoreObject(u) PROVE PoolInv'
  <2>1. [u EXCEPT !.stored = TRUE].path = u.path
    BY DEF PInv, TypeOK, Upload
  <2> QED
    BY <1>9, <2>1, ReplacePool DEF StoreObject
<1>10. CASE Crash
  BY <1>10, FatalPool DEF Crash
<1>11. CASE Restart
  <2>1. NothingLeft
    BY <1>11 DEF Restart, PInv, PoolInv
  <2>2. Cardinality({}) = 0
    BY FS_EmptySet
  <2> QED
    BY <1>11, <2>1, <2>2, ConstantTypes
       DEF Restart, PoolInv, Running, NothingLeft, PoolAccount, PathsDistinct, PathsOnDisk,
           FilesHaveStreams, SlotsCounted, OpenFiles, OpenStreams
<1> QED
  BY <1>1, <1>2, <1>3, <1>4, <1>5, <1>6, <1>7, <1>8, <1>9, <1>10, <1>11 DEF World

-----------------------------------------------------------------------------
(* The event loop.                                                          *)

\* A revocation closes streams with their files and removes these files.
LEMMA RevocationPool ==
    ASSUME PInv, DrainRevocation
    PROVE  PoolInv'
<1> DEFINE R == Head(rebalance)
           Gone == RevokedStreams(R)
<1>1. PoolAccount /\ Running'
  BY DEF DrainRevocation, PInv, PoolInv, Running
<1>2. /\ Gone \subseteq OpenStreams
      /\ streams' = [s \in Streams |-> IF s \in Gone THEN NoStream ELSE streams[s]]
      /\ files' = [s \in Streams |-> IF s \in Gone THEN NoFile ELSE files[s]]
      /\ in_flight_uploads' = in_flight_uploads /\ pool' = pool
      /\ disk' = disk \ {files[s].path : s \in Gone}
  BY DEF DrainRevocation, handle_revoke_partitions, RevokedStreams, DeletedPaths
<1> HIDE DEF Gone
<1>3. OpenFiles' = OpenFiles \ Gone /\ \A s \in OpenFiles' : files'[s] = files[s]
  BY <1>2 DEF OpenFiles
<1>4. PathsDistinct'
  BY <1>1, <1>2, <1>3 DEF PoolAccount, PathsDistinct
<1>5. FilesHaveStreams'
  <2>1. ASSUME NEW s \in OpenFiles' PROVE s \in Streams /\ streams'[s] = streams[s]
    BY <1>2, <1>3 DEF OpenFiles
  <2> QED
    BY <1>1, <1>3, <2>1 DEF PoolAccount, FilesHaveStreams, OpenStreams
<1>6. PathsOnDisk'
  <2>1. ASSUME NEW s \in Gone, s \notin OpenFiles PROVE files[s].path \notin disk
    <3>1. files[s] = NoFile
      BY <1>2, <2>1 DEF OpenFiles, OpenStreams
    <3> QED
      BY <3>1 DEF NoFile, NoPath, PInv, TypeOK
  <2>2. ASSUME NEW s \in Gone, NEW t \in OpenFiles' PROVE files[s].path # files'[t].path
    <3>1. t \in OpenFiles /\ t # s /\ files'[t] = files[t]
      BY <1>3
    <3>2. CASE s \in OpenFiles
      BY <1>1, <3>1, <3>2 DEF PoolAccount, PathsDistinct
    <3>3. CASE s \notin OpenFiles
      <4>1. files[t].path \in disk
        BY <1>1, <3>1 DEF PoolAccount, PathsOnDisk
      <4> QED
        BY <2>1, <3>1, <3>3, <4>1
    <3> QED
      BY <3>2, <3>3
  <2>3. ASSUME NEW s \in Gone, NEW u \in pool PROVE files[s].path # u.path
    <3>1. u.path \in disk
      BY <1>1 DEF PoolAccount, PathsOnDisk
    <3> QED
      BY <1>1, <2>1, <3>1 DEF PoolAccount, PathsDistinct
  <2>4. ASSUME NEW n PROVE n \in disk' <=> \/ \E t \in OpenFiles' : n = files'[t].path
                                         \/ \E u \in pool' : n = u.path
    <3>1. n \in disk <=> \/ \E t \in OpenFiles : n = files[t].path
                         \/ \E u \in pool : n = u.path
      BY <1>1 DEF PoolAccount, PathsOnDisk
    <3>2. n \in disk' <=> n \in disk /\ \A s \in Gone : n # files[s].path
      BY <1>2
    <3> QED
      BY <1>2, <1>3, <2>2, <2>3, <3>1, <3>2
  <2>5. \A n : n \in disk' <=>
             n \in {files'[t].path : t \in OpenFiles'} \cup {u.path : u \in pool'}
    BY <2>4
  <2> QED
    BY <2>5 DEF PathsOnDisk
<1>7. SlotsCounted'
  BY <1>1, <1>2 DEF PoolAccount, SlotsCounted
<1> QED
  BY <1>1, <1>4, <1>5, <1>6, <1>7 DEF PoolInv, PoolAccount, Running

\* Sealed streams become as many uploads, with the paths of their files.
LEMMA SealedCount ==
    ASSUME PInv, PoolAccount, NEW S \in SUBSET Streams, ~CloseFails(S)
    PROVE  /\ IsFiniteSet(S) /\ Cardinality(S) \in Nat
           /\ S \subseteq OpenFiles
           /\ IsFiniteSet(UploadsOf(S)) /\ IsFiniteSet(pool \cup UploadsOf(S))
           /\ Cardinality(pool \cup UploadsOf(S)) = in_flight_uploads + Cardinality(S)
<1>1. IsFiniteSet(S) /\ Cardinality(S) \in Nat
  BY ConstantTypes, FS_Subset, FS_CardinalityType
<1>2. S \subseteq OpenFiles
  BY DEF CloseFails, OpenFiles
<1> DEFINE upload == [s \in S |-> ToUpload(streams[s], files[s])]
<1>3. upload \in Surjection(S, UploadsOf(S))
  BY DEF UploadsOf, Surjection
<1>4. upload \in Injection(S, UploadsOf(S))
  <2>1. \A s \in S : upload[s].path = files[s].path
    BY DEF ToUpload
  <2>2. \A s, t \in S : upload[s] = upload[t] => s = t
    BY <1>2, <2>1 DEF PoolAccount, PathsDistinct
  <2> QED
    BY <1>3, <2>2 DEF Injection, IsInjective, Surjection
<1> HIDE DEF upload
<1>5. IsFiniteSet(UploadsOf(S)) /\ Cardinality(UploadsOf(S)) = Cardinality(S)
  BY <1>1, <1>3, <1>4, FS_Surjection
<1>6. pool \cap UploadsOf(S) = {}
  <2>1. ASSUME NEW s \in S PROVE ToUpload(streams[s], files[s]) \notin pool
    <3>1. ToUpload(streams[s], files[s]).path = files[s].path
      BY DEF ToUpload
    <3> QED
      BY <1>2, <3>1 DEF PoolAccount, PathsDistinct
  <2> QED
    BY <2>1 DEF UploadsOf
<1>7. IsFiniteSet(pool) /\ Cardinality(pool) \in Nat /\ Cardinality(pool) = in_flight_uploads
  BY FS_CardinalityType DEF PInv, TypeOK, PoolAccount, SlotsCounted
<1>8. /\ IsFiniteSet(pool \cup UploadsOf(S))
      /\ Cardinality(pool \cup UploadsOf(S)) =
            Cardinality(pool) + Cardinality(UploadsOf(S)) - Cardinality(pool \cap UploadsOf(S))
  BY <1>5, <1>7, FS_Union
<1>9. Cardinality(pool \cap UploadsOf(S)) = 0
  BY <1>6, FS_EmptySet
<1> QED
  BY <1>1, <1>2, <1>5, <1>7, <1>8, <1>9

LEMMA ClosePool ==
    ASSUME PInv, Running, NEW S \in SUBSET Streams, ~CloseFails(S),
           in_flight_uploads + Cardinality(S) <= MaxConcurrentUploads,
           close_and_upload(S), pool' = pool \cup UploadsOf(S), UNCHANGED <<status, disk>>
    PROVE  PoolInv'
<1>1. PoolAccount
  BY DEF PInv, PoolInv
<1>2. /\ S \subseteq OpenFiles
      /\ Cardinality(pool') = in_flight_uploads + Cardinality(S)
  BY <1>1, SealedCount
<1>3. SlotsCounted'
  BY <1>2 DEF SlotsCounted, close_and_upload
<1>4. OpenFiles' = OpenFiles \ S /\ \A s \in OpenFiles' : files'[s] = files[s]
  BY DEF close_and_upload, OpenFiles
<1>5. \A u \in pool' : u \in pool \/ \E s \in S : u = ToUpload(streams[s], files[s])
                                                  /\ u.path = files[s].path
  BY DEF UploadsOf, ToUpload
<1>6. PathsDistinct'
  <2>1. \A s, t \in OpenFiles' : files'[s].path = files'[t].path => s = t
    BY <1>1, <1>4 DEF PoolAccount, PathsDistinct
  <2>2. \A u, v \in pool' : u.path = v.path => u = v
    BY <1>1, <1>2, <1>5 DEF PoolAccount, PathsDistinct
  <2>3. \A s \in OpenFiles', u \in pool' : files'[s].path # u.path
    BY <1>1, <1>2, <1>4, <1>5 DEF PoolAccount, PathsDistinct
  <2> QED
    BY <2>1, <2>2, <2>3 DEF PathsDistinct
<1>7. PathsOnDisk'
  <2>1. PathsOf(OpenFiles) = {files'[s].path : s \in OpenFiles'} \cup PathsOf(S)
    BY <1>2, <1>4 DEF PathsOf
  <2>2. {u.path : u \in pool'} = PoolPaths \cup PathsOf(S)
    <3>1. {u.path : u \in UploadsOf(S)} = PathsOf(S)
      <4>1. \A u \in UploadsOf(S) : \E s \in S : u.path = files[s].path
        BY DEF UploadsOf, ToUpload
      <4>2. ASSUME NEW s \in S PROVE \E u \in UploadsOf(S) : u.path = files[s].path
        <5>1. ToUpload(streams[s], files[s]) \in UploadsOf(S)
          BY DEF UploadsOf
        <5>2. ToUpload(streams[s], files[s]).path = files[s].path
          BY DEF ToUpload
        <5> QED
          BY <5>1, <5>2
      <4> QED
        BY <4>1, <4>2 DEF PathsOf
    <3> QED
      BY <3>1 DEF PoolPaths
  <2> QED
    BY <1>1, <2>1, <2>2 DEF PoolAccount, PathsOnDisk, PathsOf, PoolPaths
<1>8. FilesHaveStreams'
  <2>1. ASSUME NEW s \in OpenFiles' PROVE s \in Streams /\ streams'[s] = streams[s]
    BY <1>4 DEF OpenFiles, close_and_upload
  <2> QED
    BY <1>1, <1>4, <2>1 DEF PoolAccount, FilesHaveStreams, OpenStreams
<1> QED
  BY <1>3, <1>6, <1>7, <1>8 DEF PoolInv, PoolAccount, Running

\* A record that is not sealed goes to the open file of its stream, or to a
\* new one with a path of its own; one that is sealed takes the file along.
LEMMA ProcessRecordPool ==
    ASSUME PInv, NEW p \in Partitions, ProcessRecord(p)
    PROVE  PoolInv'
<1> DEFINE o == position[p]
           s == StreamOf(p, o)
           stream == StreamAfter(p, o)
           file == FileAfter(p, o, FreshPath)
           seals == Seals(p, o)
<1>0. PoolAccount /\ Running /\ Running' /\ StateMachineTypeOK
  BY DEF ProcessRecord, CanRead, Turn, PInv, PoolInv, Running, TypeOK
<1>1. /\ o \in Offsets /\ s \in Streams
      /\ FreshPath \in Nat /\ FreshPath \notin disk
      /\ file \in ActiveFile \cup {NoFile}
      /\ IsData(<<p, o>>) => file \in ActiveFile
  BY <1>0, ReadType, FreshPathType, RecordType DEF ProcessRecord, PInv, TypeOK
<1>2. /\ streams' = [streams EXCEPT ![s] = IF seals THEN NoStream ELSE stream]
      /\ files' = [files EXCEPT ![s] = IF seals THEN NoFile ELSE file]
      /\ in_flight_uploads' = in_flight_uploads + (IF seals THEN 1 ELSE 0)
      /\ disk' = IF IsData(<<p, o>>) /\ files[s] = NoFile THEN disk \cup {FreshPath} ELSE disk
      /\ pool' = IF seals THEN pool \cup {ToUpload(stream, file)} ELSE pool
  BY DEF ProcessRecord, handle_process_record
<1>3. /\ seals => IsData(<<p, o>>) /\ in_flight_uploads < MaxConcurrentUploads
      /\ stream.offsets # {}
      /\ IsData(<<p, o>>) => file.path = IF files[s] = NoFile THEN FreshPath ELSE files[s].path
      /\ ~IsData(<<p, o>>) => file = files[s]
      /\ ToUpload(stream, file).path = file.path
  BY DEF Seals, StreamAfter, FileAfter, ToUpload
<1>4. NoFile \notin ActiveFile
  BY DEF NoFile, NoPath, ActiveFile
<1> HIDE DEF o, s, stream, file, seals
<1>5. /\ \A t \in OpenFiles : files[t].path \in disk
      /\ \A u \in pool : u.path \in disk
  BY <1>0 DEF PoolAccount, PathsOnDisk
\* The path of the record's file is nobody else's.
<1>6. ASSUME IsData(<<p, o>>)
      PROVE  /\ \A t \in OpenFiles : t # s => files[t].path # file.path
             /\ \A u \in pool : u.path # file.path
  <2>1. CASE files[s] = NoFile
    BY <1>1, <1>3, <1>5, <1>6, <2>1
  <2>2. CASE files[s] # NoFile
    <3>1. s \in OpenFiles
      BY <1>1, <2>2 DEF OpenFiles
    <3> QED
      BY <1>0, <1>3, <1>6, <2>2, <3>1 DEF PoolAccount, PathsDistinct
  <2> QED
    BY <2>1, <2>2
<1>7. \A t \in Streams : t # s => files'[t] = files[t] /\ streams'[t] = streams[t]
  BY <1>0, <1>2 DEF StateMachineTypeOK
<1>8. files'[s] = (IF seals THEN NoFile ELSE file) /\ streams'[s] = (IF seals THEN NoStream ELSE stream)
  BY <1>0, <1>1, <1>2 DEF StateMachineTypeOK
<1>9. FilesHaveStreams'
  <2> SUFFICES ASSUME NEW t \in OpenFiles' PROVE t \in OpenStreams'
    BY DEF FilesHaveStreams
  <2>1. CASE t = s
    BY <1>1, <1>3, <1>8, <2>1 DEF OpenFiles, OpenStreams
  <2>2. CASE t # s
    BY <1>0, <1>7, <2>2 DEF OpenFiles, OpenStreams, PoolAccount, FilesHaveStreams
  <2> QED
    BY <2>1, <2>2
<1>10. SlotsCounted'
  <2>1. CASE seals
    <3>1. ToUpload(stream, file) \notin pool
      BY <1>3, <1>6, <2>1
    <3>2. IsFiniteSet(pool) /\ Cardinality(pool) \in Nat
      BY FS_CardinalityType DEF PInv, TypeOK
    <3>3. Cardinality(pool') = Cardinality(pool) + 1
      BY <1>2, <2>1, <3>1, <3>2, FS_AddElement
    <3> QED
      BY <1>0, <1>2, <1>3, <2>1, <3>2, <3>3, ConstantTypes DEF PoolAccount, SlotsCounted
  <2>2. CASE ~seals
    <3>1. in_flight_uploads \in Int
      BY <1>0 DEF StateMachineTypeOK
    <3> QED
      BY <1>0, <1>2, <2>2, <3>1 DEF PoolAccount, SlotsCounted
  <2> QED
    BY <2>1, <2>2
<1>11. CASE ~IsData(<<p, o>>)
  <2>1. UNCHANGED <<pool, disk>> /\ \A t \in Streams : files'[t] = files[t]
    BY <1>2, <1>3, <1>7, <1>8, <1>11
  <2>2. OpenFiles' = OpenFiles
    BY <2>1 DEF OpenFiles
  <2>3. PathsDistinct' /\ PathsOnDisk'
    BY <1>0, <2>1, <2>2 DEF PoolAccount, PathsDistinct, PathsOnDisk, OpenFiles
  <2> QED
    BY <1>0, <1>9, <1>10, <2>3 DEF PoolInv, PoolAccount, Running
<1>12. CASE IsData(<<p, o>>)
  <2>1. disk' = disk \cup {file.path}
    <3>1. CASE files[s] = NoFile
      BY <1>2, <1>3, <1>12, <3>1
    <3>2. CASE files[s] # NoFile
      <4>1. files[s].path \in disk
        BY <1>1, <1>5, <3>2 DEF OpenFiles
      <4> QED
        BY <1>2, <1>3, <1>12, <3>2, <4>1
    <3> QED
      BY <3>1, <3>2
  <2>2. files[s] = NoFile \/ files[s].path = file.path
    BY <1>3, <1>12
  <2>3. CASE seals
    <3>1. /\ OpenFiles' = OpenFiles \ {s}
          /\ \A t \in OpenFiles' : t # s /\ t \in OpenFiles /\ files'[t] = files[t]
      BY <1>7, <1>8, <2>3 DEF OpenFiles
    <3>2. pool' = pool \cup {ToUpload(stream, file)} /\ ToUpload(stream, file).path = file.path
      BY <1>2, <1>3, <2>3
    <3>3. PathsDistinct'
      BY <1>0, <1>6, <1>12, <3>1, <3>2 DEF PoolAccount, PathsDistinct
    <3>4. \A n : n \in disk' <=> \/ \E t \in OpenFiles' : n = files'[t].path
                                \/ \E u \in pool' : n = u.path
      <4>1. \A n : n \in disk <=> \/ \E t \in OpenFiles : n = files[t].path
                                  \/ \E u \in pool : n = u.path
        BY <1>0 DEF PoolAccount, PathsOnDisk
      <4>2. \A t \in OpenFiles : t \in OpenFiles' \/ files[t].path = file.path
        BY <2>2, <3>1 DEF OpenFiles
      <4> QED
        BY <2>1, <3>1, <3>2, <4>1, <4>2
    <3>5. PathsOnDisk'
      BY <3>4 DEF PathsOnDisk
    <3> QED
      BY <1>0, <1>9, <1>10, <3>3, <3>5 DEF PoolInv, PoolAccount, Running
  <2>4. CASE ~seals
    <3>1. /\ OpenFiles' = OpenFiles \cup {s}
          /\ files'[s] = file
          /\ \A t \in OpenFiles' : t # s => t \in OpenFiles /\ files'[t] = files[t]
      BY <1>1, <1>4, <1>7, <1>8, <1>12, <2>4 DEF OpenFiles
    <3>2. pool' = pool
      BY <1>2, <2>4
    <3>3. PathsDistinct'
      BY <1>0, <1>6, <1>12, <3>1, <3>2 DEF PoolAccount, PathsDistinct
    <3>4. \A n : n \in disk' <=> \/ \E t \in OpenFiles' : n = files'[t].path
                                \/ \E u \in pool' : n = u.path
      <4>1. \A n : n \in disk <=> \/ \E t \in OpenFiles : n = files[t].path
                                  \/ \E u \in pool : n = u.path
        BY <1>0 DEF PoolAccount, PathsOnDisk
      <4>2. \A t \in OpenFiles : files'[t].path = files[t].path
        BY <2>2, <3>1 DEF OpenFiles
      <4> QED
        BY <2>1, <3>1, <3>2, <4>1, <4>2
    <3>5. PathsOnDisk'
      BY <3>4 DEF PathsOnDisk
    <3> QED
      BY <1>0, <1>9, <1>10, <3>3, <3>5 DEF PoolInv, PoolAccount, Running
  <2> QED
    BY <2>3, <2>4
<1> QED
  BY <1>11, <1>12

\* A completed upload gives back its slot and its file.
LEMMA SuccessPool ==
    ASSUME PInv, NEW u \in pool, UploadSucceeds(u)
    PROVE  PoolInv'
<1>1. PoolAccount /\ Running'
  BY DEF UploadSucceeds, Turn, PInv, PoolInv, Running
<1>2. /\ UNCHANGED <<streams, files>>
      /\ pool' = pool \ {u} /\ disk' = disk \ {u.path}
      /\ in_flight_uploads' = in_flight_uploads - 1
  BY DEF UploadSucceeds, upload_success
<1>3. OpenFiles' = OpenFiles
  BY <1>2 DEF OpenFiles
<1>4. PathsDistinct' /\ FilesHaveStreams'
  BY <1>1, <1>2, <1>3 DEF PoolAccount, PathsDistinct, FilesHaveStreams, OpenStreams
<1>5. PathsOnDisk'
  <2>1. \A n : n \in disk <=> \/ \E t \in OpenFiles : n = files[t].path
                              \/ \E v \in pool : n = v.path
    BY <1>1 DEF PoolAccount, PathsOnDisk
  <2>2. \A v \in pool : v.path = u.path => v = u
    BY <1>1 DEF PoolAccount, PathsDistinct
  <2>3. \A t \in OpenFiles : files[t].path # u.path
    BY <1>1 DEF PoolAccount, PathsDistinct
  <2>4. \A n : n \in disk' <=> \/ \E t \in OpenFiles' : n = files'[t].path
                               \/ \E v \in pool' : n = v.path
    BY <1>2, <1>3, <2>1, <2>2, <2>3
  <2> QED
    BY <2>4 DEF PathsOnDisk
<1>6. SlotsCounted'
  <2>1. IsFiniteSet(pool) /\ Cardinality(pool) \in Nat
    BY FS_CardinalityType DEF PInv, TypeOK
  <2>2. Cardinality(pool') = Cardinality(pool) - 1
    BY <1>2, <2>1, FS_RemoveElement
  <2> QED
    BY <1>1, <1>2, <2>1, <2>2, ConstantTypes DEF PoolAccount, SlotsCounted
<1> QED
  BY <1>1, <1>4, <1>5, <1>6 DEF PoolInv, PoolAccount, Running

\* A tick takes no more dormant streams than the pool has room for.
LEMMA BatchFits ==
    ASSUME PInv, Running, NEW S \in UploadBatches
    PROVE  in_flight_uploads + Cardinality(S) <= MaxConcurrentUploads
<1>1. in_flight_uploads \in Nat /\ in_flight_uploads <= MaxConcurrentUploads
  BY FS_CardinalityType DEF PInv, TypeOK, PoolInv, PoolAccount, SlotsCounted
<1>2. Cardinality(Dormant) \in Nat
  BY ConstantTypes, FS_Subset, FS_CardinalityType DEF Dormant, OpenStreams
<1>3. Cardinality(S) = Saturated(Cardinality(Dormant), UploadsCapacity)
  BY DEF UploadBatches
<1>4. UploadsCapacity = MaxConcurrentUploads - in_flight_uploads
  BY <1>1, ConstantTypes DEF UploadsCapacity
<1>5. Cardinality(S) <= UploadsCapacity
  BY <1>1, <1>2, <1>3, <1>4, ConstantTypes DEF Saturated
<1>6. Cardinality(S) \in Nat
  BY <1>1, <1>2, <1>3, <1>4, ConstantTypes DEF Saturated
<1> QED
  BY <1>1, <1>4, <1>5, <1>6, ConstantTypes

LEMMA EventLoopPool ==
    ASSUME PInv, EventLoop
    PROVE  PoolInv'
<1> USE DEF smvars, procvars, groupvars, worldvars
<1>1. CASE DrainRevocation
  BY <1>1, RevocationPool
<1>2. ASSUME NEW p \in Partitions, ProcessRecord(p) PROVE PoolInv'
  BY <1>2, ProcessRecordPool
<1>3. ASSUME NEW p \in Partitions, ProcessRecordFails(p) PROVE PoolInv'
  BY <1>3, FatalPool DEF ProcessRecordFails
<1>4. ASSUME NEW p \in Partitions, SkipGap(p) PROVE PoolInv'
  BY <1>4, FramePool DEF SkipGap
<1>5. CASE UploadTick
  <2>1. PICK S \in UploadBatches :
           IF CloseFails(S) THEN Fatal
           ELSE /\ handle_upload_tick(S)
                /\ pool' = pool \cup UploadsOf(S)
                /\ UNCHANGED <<status, disk, rebalance, groupvars, worldvars>>
    BY <1>5 DEF UploadTick
  <2>2. S \in SUBSET Streams
    BY DEF UploadBatches, Dormant, OpenStreams
  <2>3. Running
    BY <1>5 DEF UploadTick, Turn, Running
  <2>4. CASE ~CloseFails(S)
    BY <2>1, <2>2, <2>3, <2>4, BatchFits, ClosePool DEF handle_upload_tick
  <2> QED
    BY <2>1, <2>4, FatalPool
<1>6. CASE CommitTick
  BY <1>6, FramePool DEF CommitTick, make_topic_partition_list
<1>7. ASSUME NEW u \in pool, UploadSucceeds(u) PROVE PoolInv'
  BY <1>7, SuccessPool
<1>8. ASSUME NEW u \in pool, UploadFails(u) PROVE PoolInv'
  <2>1. decrement(u).path = u.path
    BY DEF decrement, PInv, TypeOK, Upload
  <2> QED
    BY <1>8, <2>1, ReplacePool, FatalPool DEF UploadFails
<1>9. CASE ShutdownSignal
  BY <1>9, FatalPool DEF ShutdownSignal, PoolInv, Running
<1>10. CASE SealFails
  BY <1>10, FatalPool DEF SealFails
<1> QED
  BY <1>1, <1>2, <1>3, <1>4, <1>5, <1>6, <1>7, <1>8, <1>9, <1>10 DEF EventLoop

LEMMA DrainPool ==
    ASSUME PInv, Drain
    PROVE  PoolInv'
<1>1. status' = "draining" \/ Fatal \/ ProcessEnds("stopped")
  BY DEF Drain, DrainUploadSucceeds, DrainUploadFails, FinalCommit
<1>2. status' = "draining" => PoolInv'
  BY DEF PoolInv, Running
<1> QED
  BY <1>1, <1>2, FatalPool, EndsPool

-----------------------------------------------------------------------------
LEMMA PoolInit == Init => PoolInv
<1>1. Cardinality({}) = 0
  BY FS_EmptySet
<1> QED
  BY <1>1, ConstantTypes
     DEF Init, StateMachineInit, PoolInv, Running, PoolAccount, PathsDistinct, PathsOnDisk,
         FilesHaveStreams, SlotsCounted, OpenFiles, OpenStreams

LEMMA PoolInductive == Spec => []PInv
<1>1. Init => PInv
  BY TypeInit, PoolInit DEF PInv
<1>2. PInv /\ [Next]_vars => PInv'
  <2>1. PInv /\ UNCHANGED vars => PoolInv'
    BY FramePool DEF vars, smvars, procvars
  <2>2. PInv /\ [Next]_vars => PoolInv'
    BY <2>1, WorldPool, EventLoopPool, DrainPool DEF Next
  <2> QED
    BY <2>2, TypeNext DEF PInv
<1> QED
  BY <1>1, <1>2, PTL DEF Spec

\* The counter of uploads in flight is the number of uploads in the pool, in
\* every turn of the event loop and whatever completes, fails, is retried,
\* revoked or sealed before: no u64 wraps and no capacity is lost.
THEOREM InFlightAccurateHolds == Spec => []InFlightAccurate
<1>1. PInv => InFlightAccurate
  BY DEF PInv, PoolInv, PoolAccount, SlotsCounted, InFlightAccurate
<1> QED
  BY <1>1, PoolInductive, PTL

\* Until the shutdown signal the pool never holds more uploads than configured.
THEOREM ConcurrencyHolds == Spec => []ConcurrencyBoundedWhileRunning
<1>1. PInv => ConcurrencyBoundedWhileRunning
  BY DEF PInv, PoolInv, PoolAccount, SlotsCounted, ConcurrencyBoundedWhileRunning,
         ConcurrencyBounded
<1> QED
  BY <1>1, PoolInductive, PTL

\* The files on disk are those of open streams and of uploads, each used by one
\* of them: no upload reads a file that was deleted or is still written, and a
\* running process leaks none.
THEOREM ScratchFilesHold == Spec => []ScratchFilesAccounted
<1>1. ASSUME PInv PROVE ScratchFilesAccounted
  <2> SUFFICES ASSUME Running PROVE ScratchFilesAccounted
    BY DEF ScratchFilesAccounted
  <2>1. PoolAccount
    BY <1>1 DEF PInv, PoolInv
  <2>2. IsFiniteSet(OpenFiles) /\ Cardinality(OpenFiles) \in Nat
    BY ConstantTypes, FS_Subset, FS_CardinalityType DEF OpenFiles
  <2>3. IsFiniteSet(pool) /\ Cardinality(pool) \in Nat
    BY <1>1, FS_CardinalityType DEF PInv, TypeOK
  <2> DEFINE path == [s \in OpenFiles |-> files[s].path]
             name == [u \in pool |-> u.path]
  <2>4. path \in Surjection(OpenFiles, PathsOf(OpenFiles))
    BY DEF PathsOf, Surjection
  <2>5. path \in Injection(OpenFiles, PathsOf(OpenFiles))
    BY <2>1, <2>4 DEF PoolAccount, PathsDistinct, Injection, IsInjective, Surjection
  <2>6. name \in Surjection(pool, PoolPaths)
    BY DEF PoolPaths, Surjection
  <2>7. name \in Injection(pool, PoolPaths)
    BY <2>1, <2>6 DEF PoolAccount, PathsDistinct, Injection, IsInjective, Surjection
  <2> HIDE DEF path, name
  <2>8. IsFiniteSet(PathsOf(OpenFiles)) /\ Cardinality(PathsOf(OpenFiles)) = Cardinality(OpenFiles)
    BY <2>2, <2>4, <2>5, FS_Surjection
  <2>9. IsFiniteSet(PoolPaths) /\ Cardinality(PoolPaths) = Cardinality(pool)
    BY <2>3, <2>6, <2>7, FS_Surjection
  <2>10. PathsOf(OpenFiles) \cap PoolPaths = {}
    BY <2>1 DEF PoolAccount, PathsDistinct, PathsOf, PoolPaths
  <2>11. Cardinality(PathsOf(OpenFiles) \cap PoolPaths) = 0
    BY <2>10, FS_EmptySet
  <2>12. Cardinality(PathsOf(OpenFiles) \cup PoolPaths) = Cardinality(OpenFiles) + Cardinality(pool)
    <3>1. Cardinality(PathsOf(OpenFiles) \cup PoolPaths) =
             Cardinality(PathsOf(OpenFiles)) + Cardinality(PoolPaths)
                - Cardinality(PathsOf(OpenFiles) \cap PoolPaths)
      BY <2>8, <2>9, FS_Union
    <3> QED
      BY <2>2, <2>3, <2>8, <2>9, <2>11, <3>1
  <2> QED
    BY <2>1, <2>12 DEF PoolAccount, PathsOnDisk, ScratchFilesAccounted, PathsOf, PoolPaths
<1> QED
  BY <1>1, PoolInductive, PTL

-----------------------------------------------------------------------------
(* Where nothing fails and every record has a payload: each stream that has  *)
(* offsets has a file, so that it can be sealed, and no handler answers      *)
(* Fatal.                                                                    *)

FInv ==
    /\ TypeOK
    /\ NothingFails
    /\ ~evicted
    /\ NeverFatal
    /\ StreamsHaveFiles

\* A step that closes streams closes their files with them.
LEMMA ClosedTogether ==
    ASSUME StreamsHaveFiles, NEW S,
           streams' = [s \in Streams |-> IF s \in S THEN NoStream ELSE streams[s]],
           files' = [s \in Streams |-> IF s \in S THEN NoFile ELSE files[s]]
    PROVE  StreamsHaveFiles'
BY DEF StreamsHaveFiles, OpenStreams, OpenFiles, NoStream

\* Streams that are open can be sealed.
LEMMA NoCloseFails ==
    ASSUME StreamsHaveFiles, NEW S \in SUBSET OpenStreams
    PROVE  ~CloseFails(S)
BY DEF StreamsHaveFiles, OpenFiles, CloseFails

\* A record with a payload opens the file of its stream.
LEMMA ProcessRecordFiles ==
    ASSUME FInv, NEW p \in Partitions, ProcessRecord(p)
    PROVE  StreamsHaveFiles'
<1> DEFINE o == position[p]
           s == StreamOf(p, o)
<1>1. StateMachineTypeOK /\ o \in Offsets /\ s \in Streams /\ IsData(<<p, o>>)
  <2>1. TypeOK /\ CanRead(p) /\ Log[p][o].kind \in {"data", "empty"}
    BY DEF FInv, ProcessRecord
  <2>2. o \in Offsets
    BY <2>1, ReadType
  <2> QED
    BY <2>1, <2>2, ConstantTypes DEF TypeOK, FInv, NothingFails, IsData, StreamOf
<1>2. /\ streams' = [streams EXCEPT ![s] = IF Seals(p, o) THEN NoStream ELSE StreamAfter(p, o)]
      /\ files' = [files EXCEPT ![s] = IF Seals(p, o) THEN NoFile ELSE FileAfter(p, o, FreshPath)]
  BY DEF ProcessRecord, handle_process_record
<1>3. FileAfter(p, o, FreshPath) # NoFile
  BY <1>1 DEF FileAfter, NoFile
<1>4. NoStream.offsets = {}
  BY DEF NoStream
<1> HIDE DEF s, o
<1> SUFFICES ASSUME NEW t \in Streams, streams'[t].offsets # {} PROVE files'[t] # NoFile
  BY DEF StreamsHaveFiles, OpenStreams, OpenFiles
<1>5. CASE t = s
  BY <1>1, <1>2, <1>3, <1>4, <1>5 DEF StateMachineTypeOK
<1>6. CASE t # s
  <2>1. streams'[t] = streams[t] /\ files'[t] = files[t]
    BY <1>1, <1>2, <1>6 DEF StateMachineTypeOK
  <2> QED
    BY <2>1 DEF FInv, StreamsHaveFiles, OpenStreams, OpenFiles
<1> QED
  BY <1>5, <1>6

LEMMA WorldNotFatal ==
    ASSUME FInv, World
    PROVE  ~evicted' /\ NeverFatal' /\ StreamsHaveFiles'
<1> USE DEF FInv, NeverFatal
<1>1. Faults = {} /\ TypeOK /\ StateMachineTypeOK
  BY DEF NothingFails, TypeOK
<1>2. CASE TimePasses
  <2>1. \A s \in Streams : streams'[s].offsets = streams[s].offsets
    BY <1>1, <1>2 DEF TimePasses, StreamsAge, StateMachineTypeOK, StreamState
  <2>2. files' = files
    BY <1>2 DEF TimePasses, StreamsAge
  <2>3. StreamsHaveFiles'
    BY <2>1, <2>2 DEF StreamsHaveFiles, OpenStreams, OpenFiles
  <2> QED
    BY <1>2, <2>3 DEF TimePasses, procvars, groupvars
<1>3. CASE Restart
  BY <1>3 DEF Restart, smvars, groupvars, StreamsHaveFiles, OpenStreams, OpenFiles
<1>4. ~Evict /\ ~CommitLost /\ ~Crash
  BY <1>1 DEF Evict, CommitLost, Crash
<1>5. ASSUME UNCHANGED <<status, streams, files>>, ~evicted'
      PROVE  ~evicted' /\ NeverFatal' /\ StreamsHaveFiles'
  BY <1>5 DEF StreamsHaveFiles, OpenStreams, OpenFiles
<1> USE DEF smvars, procvars, groupvars, worldvars
<1>6. ASSUME NEW p \in Partitions,
             Produce(p) \/ \E n \in 1 .. LogSize : PeerProgress(p, n)
      PROVE  UNCHANGED <<status, streams, files>> /\ ~evicted'
  BY <1>6 DEF Produce, PeerProgress
<1>7. ASSUME NEW P \in SUBSET Partitions, Assign(P) \/ Revoke(P)
      PROVE  UNCHANGED <<status, streams, files>> /\ ~evicted'
  BY <1>7 DEF Assign, Revoke
<1>8. CASE BrokerAppliesCommit \/ \E u \in pool : StoreObject(u)
  BY <1>5, <1>8 DEF BrokerAppliesCommit, StoreObject
<1> QED
  BY <1>2, <1>3, <1>4, <1>5, <1>6, <1>7, <1>8 DEF World

LEMMA EventLoopNotFatal ==
    ASSUME FInv, EventLoop
    PROVE  ~evicted' /\ NeverFatal' /\ StreamsHaveFiles'
<1> USE DEF FInv, NeverFatal, smvars, procvars, groupvars, worldvars
<1> DEFINE Goal == ~evicted' /\ NeverFatal' /\ StreamsHaveFiles'
<1>1. CASE DrainRevocation
  <2>1. StreamsHaveFiles'
    BY <1>1, ClosedTogether DEF DrainRevocation, handle_revoke_partitions
  <2> QED
    BY <1>1, <2>1 DEF DrainRevocation
<1>2. ASSUME NEW p \in Partitions, ProcessRecord(p) PROVE Goal
  BY <1>2, ProcessRecordFiles DEF ProcessRecord
<1>3. ASSUME NEW p \in Partitions, ProcessRecordFails(p) PROVE FALSE
  <2>1. position[p] \in Offsets
    BY <1>3, ReadType DEF ProcessRecordFails
  <2> QED
    BY <1>3, <2>1 DEF ProcessRecordFails, NothingFails
<1>4. ASSUME NEW p \in Partitions, SkipGap(p) PROVE Goal
  BY <1>4 DEF SkipGap, StreamsHaveFiles, OpenStreams, OpenFiles
<1>5. CASE UploadTick
  <2>1. PICK S \in UploadBatches :
           IF CloseFails(S) THEN Fatal
           ELSE /\ handle_upload_tick(S)
                /\ UNCHANGED <<status, groupvars>>
    BY <1>5 DEF UploadTick
  <2>2. ~CloseFails(S)
    BY NoCloseFails DEF UploadBatches, Dormant
  <2>3. close_and_upload(S) /\ UNCHANGED <<status, evicted>>
    BY <2>1, <2>2 DEF handle_upload_tick
  <2>4. StreamsHaveFiles'
    BY <2>3, ClosedTogether DEF close_and_upload
  <2> QED
    BY <2>3, <2>4
<1>6. ~SealFails
  BY DEF SealFails, NothingFails
<1>7. CASE CommitTick
  BY <1>7 DEF CommitTick, make_topic_partition_list, StreamsHaveFiles, OpenStreams, OpenFiles
<1>8. ASSUME NEW u \in pool, UploadSucceeds(u) PROVE Goal
  BY <1>8 DEF UploadSucceeds, upload_success, StreamsHaveFiles, OpenStreams, OpenFiles
<1>9. ASSUME NEW u \in pool, UploadFails(u) PROVE FALSE
  BY <1>9 DEF UploadFails, NothingFails
<1>10. CASE ShutdownSignal
  <2>1. close_and_upload(OpenStreams) /\ status' = "draining" /\ evicted' = evicted
    BY <1>10, NoCloseFails DEF ShutdownSignal, handle_shutdown_signal
  <2>2. StreamsHaveFiles'
    BY <2>1, ClosedTogether DEF close_and_upload
  <2> QED
    BY <2>1, <2>2
<1> QED
  BY <1>1, <1>2, <1>3, <1>4, <1>5, <1>6, <1>7, <1>8, <1>9, <1>10 DEF EventLoop

LEMMA DrainNotFatal ==
    ASSUME FInv, Drain
    PROVE  ~evicted' /\ NeverFatal' /\ StreamsHaveFiles'
<1> USE DEF FInv, NeverFatal, smvars, groupvars
<1>1. ASSUME NEW u \in pool, DrainUploadSucceeds(u)
      PROVE  ~evicted' /\ NeverFatal' /\ StreamsHaveFiles'
  BY <1>1 DEF DrainUploadSucceeds, upload_success, StreamsHaveFiles, OpenStreams, OpenFiles
<1>2. ASSUME NEW u \in pool, DrainUploadFails(u) PROVE FALSE
  BY <1>2 DEF DrainUploadFails, NothingFails
<1>3. CASE FinalCommit
  <2>1. ProcessEnds("stopped")
    BY <1>3 DEF FinalCommit, NothingFails
  <2> QED
    BY <2>1 DEF ProcessEnds, StateMachineForgotten, StreamsHaveFiles, OpenStreams, NoStream
<1> QED
  BY <1>1, <1>2, <1>3 DEF Drain

\* Only something that fails ends the process: an upload, the disk, a commit, a
\* record that cannot be decoded, a stream of tombstones alone.  Without these
\* no sequence of records, ticks, revocations and signals makes a handler
\* answer Fatal.
THEOREM NeverFatalHolds == NothingFails /\ Spec => []NeverFatal
<1>1. NothingFails /\ Init => FInv
  BY TypeInit DEF FInv, NeverFatal, Init, StateMachineInit, StreamsHaveFiles, OpenStreams,
                  NoStream
<1>2. FInv /\ [Next]_vars => FInv'
  <2> SUFFICES ASSUME FInv, [Next]_vars PROVE FInv'
    OBVIOUS
  <2>1. TypeOK' /\ NothingFails'
    BY TypeNext DEF FInv, NothingFails
  <2>2. CASE UNCHANGED vars
    BY <2>1, <2>2 DEF FInv, NeverFatal, StreamsHaveFiles, OpenStreams, OpenFiles,
                      vars, smvars, procvars, groupvars
  <2> QED
    BY <2>1, <2>2, WorldNotFatal, EventLoopNotFatal, DrainNotFatal DEF Next, FInv
<1>3. FInv => NeverFatal
  BY DEF FInv
<1> QED
  BY <1>1, <1>2, <1>3, PTL DEF Spec

-----------------------------------------------------------------------------
(* The pool after the shutdown signal, which seals every stream whatever the *)
(* limit is: one upload per stream above it, and never more.                 *)

\* However the process is shut down, the pool holds no more uploads than the
\* limit and one per stream (handle_shutdown_signal).
PoolWithinStreams == Cardinality(pool) <= MaxConcurrentUploads + Cardinality(Streams)
BInv == status = "draining" => PoolWithinStreams

\* The drain adds no upload; one that is stored takes its own place.
LEMMA FewerUploads ==
    ASSUME BInv, TypeOK, status = "draining",
           NEW u \in pool, pool' = pool \ {u} \/ \E v : pool' = (pool \ {u}) \cup {v}
    PROVE  BInv'
<1>1. /\ IsFiniteSet(pool) /\ Cardinality(pool) \in Nat
      /\ IsFiniteSet(pool \ {u}) /\ Cardinality(pool \ {u}) = Cardinality(pool) - 1
      /\ Cardinality(Streams) \in Nat /\ MaxConcurrentUploads \in Nat
  BY ConstantTypes, FS_CardinalityType, FS_RemoveElement DEF TypeOK
<1>2. CASE pool' = pool \ {u}
  BY <1>1, <1>2 DEF BInv, PoolWithinStreams
<1>3. ASSUME NEW v, pool' = (pool \ {u}) \cup {v} PROVE BInv'
  <2> DEFINE rest == pool \ {u}
  <2>1. \/ Cardinality(rest \cup {v}) = Cardinality(rest)
        \/ Cardinality(rest \cup {v}) = Cardinality(rest) + 1
    <3> HIDE DEF rest
    <3> QED
      BY <1>1, FS_AddElement DEF rest
  <2> QED
    BY <1>1, <1>3, <2>1 DEF BInv, PoolWithinStreams
<1> QED
  BY <1>2, <1>3

\* The signal seals as many streams as are open, from a pool within its limit.
LEMMA SignalSeals ==
    ASSUME PInv, ShutdownSignal
    PROVE  BInv'
<1>1. CASE Fatal
  BY <1>1 DEF Fatal, ProcessEnds, BInv
<1>2. CASE ~Fatal
  <2>1. /\ Running /\ ~CloseFails(OpenStreams) /\ pool' = pool \cup UploadsOf(OpenStreams)
    BY <1>2 DEF ShutdownSignal, Turn, Running
  <2>2. Cardinality(pool') = in_flight_uploads + Cardinality(OpenStreams)
    BY <2>1, SealedCount DEF PInv, PoolInv, OpenStreams
  <2>3. /\ Cardinality(OpenStreams) \in Nat /\ Cardinality(Streams) \in Nat
        /\ Cardinality(OpenStreams) <= Cardinality(Streams)
    BY ConstantTypes, FS_Subset, FS_CardinalityType DEF OpenStreams
  <2>4. in_flight_uploads \in Int /\ in_flight_uploads <= MaxConcurrentUploads
    BY <2>1 DEF PInv, TypeOK, StateMachineTypeOK, PoolInv, PoolAccount, SlotsCounted
  <2> QED
    BY <2>2, <2>3, <2>4, ConstantTypes DEF BInv, PoolWithinStreams
<1> QED
  BY <1>1, <1>2

\* Whatever the drain finds open, the pool holds at most one upload for each
\* stream above the limit that holds until then: as far as the finding of
\* ShutdownOverCapacity goes.
THEOREM PoolWithinStreamsHolds == Spec => []PoolWithinStreams
<1>1. Init => BInv
  BY DEF Init, BInv
<1>2. PInv /\ BInv /\ [Next]_vars => BInv'
  <2> SUFFICES ASSUME PInv, BInv, [Next]_vars PROVE BInv'
    OBVIOUS
  <2> USE DEF smvars, procvars, groupvars, worldvars
  <2>0. TypeOK
    BY DEF PInv
  <2>1. ASSUME UNCHANGED <<status, pool>> PROVE BInv'
    BY <2>1 DEF BInv, PoolWithinStreams
  <2>2. ASSUME status' # "draining" PROVE BInv'
    BY <2>2 DEF BInv
  <2>3. CASE UNCHANGED vars
    BY <2>1, <2>3 DEF vars
  <2>4. CASE World
    <3>1. ASSUME NEW u \in pool, StoreObject(u) PROVE BInv'
      <4>1. status' = status /\ \E v : pool' = (pool \ {u}) \cup {v}
        BY <3>1 DEF StoreObject
      <4>2. CASE status = "draining"
        BY <2>0, <4>1, <4>2, FewerUploads
      <4> QED
        BY <2>2, <4>1, <4>2
    <3>2. CASE Crash
      BY <2>2, <3>2 DEF Crash, Fatal, ProcessEnds
    <3>3. CASE Restart
      BY <2>2, <3>3 DEF Restart
    <3>4. CASE ~Crash /\ ~Restart /\ ~ \E u \in pool : StoreObject(u)
      BY <2>1, <2>4, <3>4 DEF World, Produce, TimePasses, Assign, Revoke, Evict, PeerProgress,
         BrokerAppliesCommit, CommitLost
    <3> QED
      BY <3>1, <3>2, <3>3, <3>4
  <2>5. CASE EventLoop
    <3>1. CASE ShutdownSignal
      BY <3>1, SignalSeals
    <3>2. CASE ~ShutdownSignal
      BY <2>2, <2>5, <3>2 DEF EventLoop, DrainRevocation, ProcessRecord, ProcessRecordFails,
         SkipGap, UploadTick, SealFails, CommitTick, UploadSucceeds, UploadFails, CanRead, Turn,
         Fatal, ProcessEnds
    <3> QED
      BY <3>1, <3>2
  <2>6. CASE Drain
    <3>1. \/ status' # "draining"
          \/ status = "draining" /\ \E u \in pool : pool' = pool \ {u}
      BY <2>6 DEF Drain, DrainUploadSucceeds, DrainUploadFails, FinalCommit, Fatal, ProcessEnds
    <3> QED
      BY <2>0, <2>2, <3>1, FewerUploads
  <2> QED
    BY <2>3, <2>4, <2>5, <2>6 DEF Next
<1>3. PInv /\ BInv => PoolWithinStreams
  <2> SUFFICES ASSUME PInv, BInv PROVE PoolWithinStreams
    OBVIOUS
  <2>1. Cardinality(Streams) \in Nat /\ MaxConcurrentUploads \in Nat
    BY ConstantTypes, FS_CardinalityType
  <2>2. CASE status = "running"
    <3>1. in_flight_uploads = Cardinality(pool) /\ in_flight_uploads <= MaxConcurrentUploads
      BY <2>2 DEF PInv, PoolInv, Running, PoolAccount, SlotsCounted
    <3>2. Cardinality(pool) \in Nat
      BY FS_CardinalityType DEF PInv, TypeOK
    <3> QED
      BY <2>1, <3>1, <3>2 DEF PoolWithinStreams
  <2>3. CASE status \in {"stopped", "failed"}
    <3>1. pool = {}
      BY <2>3 DEF PInv, PoolInv, NothingLeft
    <3>2. Cardinality(pool) = 0
      BY <3>1, FS_EmptySet
    <3> QED
      BY <2>1, <3>2 DEF PoolWithinStreams
  <2> QED
    BY <2>2, <2>3 DEF PInv, TypeOK, Statuses, BInv
<1> QED
  BY <1>1, <1>2, <1>3, PoolInductive, PTL DEF Spec
=============================================================================
