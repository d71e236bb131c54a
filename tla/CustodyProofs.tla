---------------------------- MODULE CustodyProofs ----------------------------
(***************************************************************************)
(* What becomes of the records the event loop reads, for all values of the *)
(* constants: it holds them until they are in S3 (InCustody), no upload is *)
(* given up (NoUploadAbandonedWhileRunning), and a record that cannot be   *)
(* decoded is not passed (PoisonNotPassed).                                *)
(*                                                                         *)
(* InCustody is not inductive: a revocation deletes files.  Those records  *)
(* are of revoked partitions only (FilesOfOffsets), and a partition that   *)
(* came back before the revocation was handled is read again from an       *)
(* offset below which all is stored (PositionSafe, of Custody).            *)
(***************************************************************************)
EXTENDS DeliveryProofs

(* The inductive invariant of custody: records read are held by a stream, an
   upload, or S3; what a stream has offsets of is in its file; a process that
   has ended owns nothing.                                                   *)
HInv == IInv /\ ReadHeld /\ FilesOfOffsets /\ EndedOwnsNothing

\* A record that stays owed was owed before.
LEMMA OwedBefore ==
    ASSUME HistoryGrows, NEW p \in Partitions, NEW o, Owed(p, o)'
    PROVE  Owed(p, o)
BY DEF HistoryGrows, Owed, IsData

\* Below a safe offset all that is owed is held, in S3.
LEMMA SafeHeld ==
    ASSUME NEW p \in Partitions, NEW o \in Offsets, NEW n,
           SafeIn(durable', resets'[p], p, n), Owed(p, o)', o < n
    PROVE  Held(<<p, o>>)'
BY DEF SafeIn, Owed, IsData, Held

\* A step that lets go of no record and reads none.
LEMMA ReadKept ==
    ASSUME HInv, HistoryGrows,
           \A r \in RecordIds : Held(r) => Held(r)',
           \A p \in assignment' :
              /\ p \in assignment
              /\ position'[p] = position[p]
              /\ BeingRevoked(p) => BeingRevoked(p)',
           Running' => Running
    PROVE  ReadHeld'
<1> SUFFICES ASSUME Running', NEW p \in assignment', NEW o \in Offsets,
                    ~BeingRevoked(p)', Owed(p, o)', o < position'[p]
             PROVE  Held(<<p, o>>)'
  BY DEF ReadHeld
<1>1. p \in Partitions /\ <<p, o>> \in RecordIds
  BY DEF HInv, IInv, TypeOK, RecordIds
<1>2. Owed(p, o)
  BY <1>1, OwedBefore
<1> QED
  BY <1>1, <1>2 DEF HInv, ReadHeld

\* A process that ends, or drains, answers for nothing any more.
LEMMA NotRunningHeld == ~Running' => ReadHeld'
BY DEF ReadHeld

LEMMA EndsHeld ==
    ASSUME NEW how \in {"stopped", "failed"}, ProcessEnds(how)
    PROVE  ReadHeld' /\ FilesOfOffsets' /\ EndedOwnsNothing'
BY DEF ProcessEnds, StateMachineForgotten, ReadHeld, Running, FilesOfOffsets,
       NoFile, EndedOwnsNothing

LEMMA FatalHeld == Fatal => ReadHeld' /\ FilesOfOffsets' /\ EndedOwnsNothing'
BY EndsHeld DEF Fatal

-----------------------------------------------------------------------------
(* The files: their records are of their stream's offsets.                  *)

LEMMA FilesOfOffsetsKept ==
    ASSUME HInv, files' = files,
           \A s \in Streams : streams[s].offsets \subseteq streams'[s].offsets
    PROVE  FilesOfOffsets'
BY DEF HInv, FilesOfOffsets

LEMMA FilesOfOffsetsRemoved ==
    ASSUME HInv, NEW S,
           streams' = [s \in Streams |-> IF s \in S THEN NoStream ELSE streams[s]],
           files' = [s \in Streams |-> IF s \in S THEN NoFile ELSE files[s]]
    PROVE  FilesOfOffsets'
BY DEF HInv, FilesOfOffsets, NoFile

-----------------------------------------------------------------------------
LEMMA WorldHeld ==
    ASSUME HInv, HistoryGrows, World
    PROVE  ReadHeld' /\ FilesOfOffsets' /\ EndedOwnsNothing'
<1> USE DEF smvars, procvars, groupvars, worldvars
<1>1. ASSUME UNCHANGED <<streams, files, status, assignment, position, rebalance>>,
             \A r \in RecordIds : Held(r) => Held(r)'
      PROVE  ReadHeld' /\ FilesOfOffsets' /\ EndedOwnsNothing'
  <2>1. ReadHeld'
    BY <1>1, ReadKept DEF Running, BeingRevoked
  <2> QED
    BY <1>1, <2>1, FilesOfOffsetsKept DEF HInv, EndedOwnsNothing
<1>2. ASSUME UNCHANGED <<streams, files, pool, status, assignment, position, rebalance>>
      PROVE  ReadHeld' /\ FilesOfOffsets' /\ EndedOwnsNothing'
  <2>1. \A r \in RecordIds : Held(r) => Held(r)'
    BY <1>2 DEF Held, HistoryGrows
  <2> QED
    BY <1>1, <1>2, <2>1
<1>3. ASSUME NEW p \in Partitions, Produce(p)
      PROVE  ReadHeld' /\ FilesOfOffsets' /\ EndedOwnsNothing'
  BY <1>2, <1>3 DEF Produce
<1>4. CASE TimePasses
  <2>1. \A s \in Streams : streams'[s].offsets = streams[s].offsets
    BY <1>4 DEF TimePasses, StreamsAge, HInv, IInv, TypeOK, StateMachineTypeOK, StreamState
  <2>2. UNCHANGED <<files, pool, durable, status, assignment, position, rebalance>>
    BY <1>4 DEF TimePasses, StreamsAge
  <2>3. ReadHeld'
    BY <2>2, ReadKept DEF Running, BeingRevoked, Held
  <2> QED
    BY <2>1, <2>2, <2>3, FilesOfOffsetsKept DEF HInv, EndedOwnsNothing
<1>5. ASSUME NEW A \in SUBSET Partitions, Assign(A)
      PROVE  ReadHeld' /\ FilesOfOffsets' /\ EndedOwnsNothing'
  <2>1. ASSUME NEW p \in assignment', NEW o \in Offsets,
               ~BeingRevoked(p)', Owed(p, o)', o < position'[p]
        PROVE  Held(<<p, o>>)'
    <3>1. p \in Partitions
      BY <1>5 DEF Assign, HInv, IInv, TypeOK
    <3>2. CASE p \in A
      <4>1. position'[p] = StartPosition(p) /\ resets'[p] = Resets({p})[p]
        BY <1>5, <3>1, <3>2 DEF Assign, Resets
      <4>2. SafeIn(durable', resets'[p], p, StartPosition(p))
        BY <3>1, <4>1, StartSafe DEF HistoryGrows, HInv
      <4> QED
        BY <2>1, <3>1, <4>1, <4>2, SafeHeld
    <3>3. CASE p \notin A
      <4>1. p \in assignment /\ position'[p] = position[p] /\ ~BeingRevoked(p) /\ Running
        BY <1>5, <2>1, <3>1, <3>3 DEF Assign, BeingRevoked, Running
      <4>2. Owed(p, o)
        BY <2>1, <3>1, OwedBefore
      <4>3. Held(<<p, o>>)
        BY <2>1, <4>1, <4>2 DEF HInv, ReadHeld
      <4> QED
        BY <1>5, <4>3 DEF Assign, Held
    <3> QED
      BY <3>2, <3>3
  <2>2. ReadHeld'
    BY <2>1 DEF ReadHeld
  <2> QED
    BY <1>5, <2>2, FilesOfOffsetsKept DEF Assign, EndedOwnsNothing
<1>6. ASSUME NEW R \in SUBSET Partitions, Revoke(R)
      PROVE  ReadHeld' /\ FilesOfOffsets' /\ EndedOwnsNothing'
  <2>1. rebalance \in Seq(SUBSET Partitions)
    BY DEF HInv, IInv, TypeOK
  <2>2. ASSUME NEW p, BeingRevoked(p) PROVE BeingRevoked(p)'
    <3>1. PICK i \in 1 .. Len(rebalance) : p \in rebalance[i]
      BY <2>2 DEF BeingRevoked
    <3>2. /\ rebalance'[i] = rebalance[i]
          /\ Len(rebalance') = Len(rebalance) + 1 /\ Len(rebalance) \in Nat
      BY <1>6, <2>1, AppendProperties, LenProperties DEF Revoke
    <3>3. i \in 1 .. Len(rebalance')
      BY <3>2
    <3> QED
      BY <3>1, <3>2, <3>3 DEF BeingRevoked
  <2>3. ReadHeld'
    <3>1. \A p \in assignment' : p \in assignment /\ position'[p] = position[p]
      BY <1>6 DEF Revoke, HInv, IInv, TypeOK
    <3>2. \A r \in RecordIds : Held(r) => Held(r)'
      BY <1>6 DEF Revoke, Held
    <3> QED
      BY <1>6, <2>2, <3>1, <3>2, ReadKept DEF Revoke, Running
  <2> QED
    BY <1>6, <2>3, FilesOfOffsetsKept DEF Revoke, EndedOwnsNothing
<1>7. CASE Evict
  BY <1>2, <1>7 DEF Evict
<1>8. ASSUME NEW p \in Partitions, NEW n \in 1 .. LogSize, PeerProgress(p, n)
      PROVE  ReadHeld' /\ FilesOfOffsets' /\ EndedOwnsNothing'
  BY <1>2, <1>8 DEF PeerProgress
<1>9. CASE BrokerAppliesCommit
  BY <1>2, <1>9 DEF BrokerAppliesCommit
<1>10. CASE CommitLost
  BY <1>2, <1>10 DEF CommitLost
<1>11. ASSUME NEW u \in pool, StoreObject(u)
       PROVE  ReadHeld' /\ FilesOfOffsets' /\ EndedOwnsNothing'
  <2>1. [u EXCEPT !.stored = TRUE].data = u.data
    BY DEF HInv, IInv, TypeOK, Upload
  <2>2. ASSUME NEW r \in RecordIds, Held(r) PROVE Held(r)'
    BY <1>11, <2>1, <2>2 DEF StoreObject, Held
  <2> QED
    BY <1>1, <1>11, <2>2 DEF StoreObject
<1>12. CASE Crash
  BY <1>12, FatalHeld DEF Crash
<1>13. CASE Restart
  <2>1. assignment' = {}
    BY <1>13 DEF Restart, HInv, EndedOwnsNothing
  <2>2. ReadHeld' /\ EndedOwnsNothing'
    BY <2>1 DEF ReadHeld, EndedOwnsNothing
  <2> QED
    BY <1>13, <2>2, FilesOfOffsetsKept DEF Restart
<1> QED
  BY <1>3, <1>4, <1>5, <1>6, <1>7, <1>8, <1>9, <1>10, <1>11, <1>12, <1>13 DEF World

-----------------------------------------------------------------------------
(* The event loop.                                                          *)

\* A revocation: a record of a partition that stays assigned is not in a file
\* that goes.
LEMMA RevocationHeld ==
    ASSUME HInv, HistoryGrows, DrainRevocation
    PROVE  ReadHeld' /\ FilesOfOffsets' /\ EndedOwnsNothing'
<1> DEFINE R == Head(rebalance)
<1> USE DEF groupvars, worldvars
<1>1. ASSUME NEW p \in R PROVE BeingRevoked(p)
  <2>1. rebalance \in Seq(SUBSET Partitions) /\ rebalance # << >>
    BY DEF DrainRevocation, HInv, IInv, TypeOK
  <2>2. Len(rebalance) \in Nat /\ Len(rebalance) # 0 /\ R = rebalance[1]
    BY <2>1, EmptySeq, LenProperties, HeadTailProperties
  <2>3. 1 \in 1 .. Len(rebalance)
    BY <2>2
  <2> QED
    BY <1>1, <2>2, <2>3 DEF BeingRevoked
<1>2. ASSUME NEW p \in assignment', NEW o \in Offsets,
             ~BeingRevoked(p)', Owed(p, o)', o < position'[p]
      PROVE  Held(<<p, o>>)'
  <2>1. p \in Partitions /\ p \in assignment /\ position'[p] = position[p]
    BY DEF DrainRevocation, HInv, IInv, TypeOK
  <2>2. CASE BeingRevoked(p)
    <3>1. Safe(p, position[p])
      BY <2>1, <2>2 DEF HInv, IInv, Custody, PositionSafe
    <3> QED
      BY <1>2, <2>1, <3>1, SafeKept, SafeHeld
  <2>3. CASE ~BeingRevoked(p)
    <3>1. Owed(p, o)
      BY <1>2, <2>1, OwedBefore
    <3>2. Held(<<p, o>>)
      BY <1>2, <2>1, <2>3, <3>1 DEF HInv, ReadHeld, DrainRevocation, Running
    <3>3. ASSUME NEW s \in Streams, <<p, o>> \in files[s].data
          PROVE  files'[s] = files[s]
      <4>1. <<p, o>> \in streams[s].offsets
        BY <3>3 DEF HInv, FilesOfOffsets
      <4>2. p \in PartitionsOf(s)
        BY <4>1 DEF PartitionsOf
      <4>3. s \notin RevokedStreams(R)
        BY <1>1, <2>3, <4>2 DEF RevokedStreams
      <4> QED
        BY <4>3 DEF DrainRevocation, handle_revoke_partitions
    <3>4. pool' = pool /\ durable' = durable
      BY DEF DrainRevocation
    <3> QED
      BY <3>2, <3>3, <3>4 DEF Held
  <2> QED
    BY <2>2, <2>3
<1>3. ReadHeld'
  BY <1>2 DEF ReadHeld
<1>4. FilesOfOffsets'
  BY FilesOfOffsetsRemoved DEF DrainRevocation, handle_revoke_partitions
<1> QED
  BY <1>3, <1>4 DEF DrainRevocation, EndedOwnsNothing

\* Sealing: an upload takes over the records of its file.
LEMMA SealedHeld ==
    ASSUME NEW S \in SUBSET Streams, close_and_upload(S),
           pool' = pool \cup UploadsOf(S), durable' = durable, NEW r, Held(r)
    PROVE  Held(r)'
<1>1. ASSUME NEW s \in S, r \in files[s].data PROVE Held(r)'
  <2>1. /\ ToUpload(streams[s], files[s]) \in pool'
        /\ ToUpload(streams[s], files[s]).data = files[s].data
    BY DEF UploadsOf, ToUpload
  <2> QED
    BY <1>1, <2>1 DEF Held
<1>2. ASSUME NEW s \in Streams \ S PROVE files'[s] = files[s]
  BY DEF close_and_upload
<1> QED
  BY <1>1, <1>2 DEF Held

\* So sealing lets go of nothing.
LEMMA CloseHeld ==
    ASSUME HInv, HistoryGrows, NEW S \in SUBSET Streams, close_and_upload(S),
           pool' = pool \cup UploadsOf(S), Running,
           UNCHANGED <<rebalance, groupvars, worldvars>>
    PROVE  /\ ReadHeld' /\ FilesOfOffsets'
           /\ status' \in {"running", "draining"} => EndedOwnsNothing'
<1> USE DEF groupvars, worldvars
<1>1. \A r \in RecordIds : Held(r) => Held(r)'
  BY SealedHeld
<1>2. ReadHeld'
  BY <1>1, ReadKept DEF BeingRevoked
<1>3. FilesOfOffsets'
  BY FilesOfOffsetsRemoved DEF close_and_upload
<1> QED
  BY <1>2, <1>3 DEF EndedOwnsNothing

\* A record that is read is held: in its stream's file, or in the upload the
\* file goes to.
LEMMA ProcessRecordHeld ==
    ASSUME HInv, HistoryGrows, NEW p \in Partitions, ProcessRecord(p)
    PROVE  ReadHeld' /\ FilesOfOffsets' /\ EndedOwnsNothing'
<1> DEFINE n == position[p]
           s == StreamOf(p, n)
           stream == StreamAfter(p, n)
           file == FileAfter(p, n, FreshPath)
<1> USE DEF worldvars
<1>1. n \in Offsets /\ n \in Nat /\ s \in Streams /\ Running /\ rebalance = << >>
  <2>1. CanRead(p)
    BY DEF ProcessRecord
  <2>2. n \in Offsets /\ n \in Nat
    BY <2>1, ReadType DEF HInv, IInv
  <2> QED
    BY <2>1, <2>2, ConstantTypes DEF CanRead, Turn, StreamOf, Running
<1>2. /\ files' = [files EXCEPT ![s] = IF Seals(p, n) THEN NoFile ELSE file]
      /\ streams' = [streams EXCEPT ![s] = IF Seals(p, n) THEN NoStream ELSE stream]
      /\ pool' = IF Seals(p, n) THEN pool \cup {ToUpload(stream, file)} ELSE pool
      /\ files \in [Streams -> ActiveFile \cup {NoFile}]
      /\ streams \in [Streams -> StreamState]
  BY DEF ProcessRecord, handle_process_record, HInv, IInv, TypeOK, StateMachineTypeOK
<1>3. /\ files[s].data \subseteq file.data
      /\ IsData(<<p, n>>) => <<p, n>> \in file.data
      /\ file.data \subseteq files[s].data \cup {<<p, n>>}
      /\ stream.offsets = streams[s].offsets \cup {<<p, n>>}
      /\ ToUpload(stream, file).data = file.data
  BY DEF FileAfter, StreamAfter, ToUpload
<1> HIDE DEF n, s, stream, file
<1>4. ASSUME NEW r, r \in file.data PROVE Held(r)'
  <2>1. CASE Seals(p, n)
    BY <1>2, <1>3, <1>4, <2>1 DEF Held
  <2>2. CASE ~Seals(p, n)
    <3>1. files'[s] = file
      BY <1>1, <1>2, <2>2
    <3> QED
      BY <1>1, <1>4, <3>1 DEF Held
  <2> QED
    BY <2>1, <2>2
<1>5. ASSUME NEW r, Held(r) PROVE Held(r)'
  <2>1. CASE r \in durable
    BY <2>1 DEF Held, HistoryGrows
  <2>2. ASSUME NEW t \in Streams, r \in files[t].data PROVE Held(r)'
    <3>1. CASE t = s
      BY <1>3, <1>4, <2>2, <3>1
    <3>2. CASE t # s
      <4>1. files'[t] = files[t]
        BY <1>2, <3>2
      <4> QED
        BY <2>2, <4>1 DEF Held
    <3> QED
      BY <3>1, <3>2
  <2>3. CASE \E u \in pool : r \in u.data
    BY <1>2, <2>3 DEF Held
  <2> QED
    BY <1>5, <2>1, <2>2, <2>3 DEF Held
<1>6. ASSUME NEW q \in assignment', NEW o \in Offsets, Owed(q, o)', o < position'[q]
      PROVE  Held(<<q, o>>)'
  <2>1. q \in Partitions /\ q \in assignment /\ ~BeingRevoked(q)
    BY <1>1, EmptySeq DEF ProcessRecord, HInv, IInv, TypeOK, BeingRevoked
  <2>2. Owed(q, o)
    BY <1>6, <2>1, OwedBefore
  <2>3. o < position[q] => Held(<<q, o>>)
    BY <1>1, <2>1, <2>2 DEF HInv, ReadHeld
  <2>4. CASE q # p
    <3>1. position'[q] = position[q]
      BY <2>1, <2>4 DEF ProcessRecord, ReadPast, HInv, IInv, TypeOK, CommitList
    <3> QED
      BY <1>5, <1>6, <2>3, <3>1
  <2>5. CASE q = p
    <3>1. position'[p] = n + 1
      BY DEF n, ProcessRecord, ReadPast, HInv, IInv, TypeOK, CommitList
    <3>2. o < n \/ o = n
      BY <1>1, <1>6, <2>5, <3>1 DEF Offsets
    <3>3. CASE o = n
      <4>1. IsData(<<p, n>>)
        BY <2>2, <2>5, <3>3 DEF Owed
      <4> QED
        BY <1>3, <1>4, <2>5, <3>3, <4>1
    <3>4. CASE o < n
      BY <1>5, <2>3, <2>5, <3>4 DEF n
    <3> QED
      BY <3>2, <3>3, <3>4
  <2> QED
    BY <2>4, <2>5
<1>7. ReadHeld'
  BY <1>6 DEF ReadHeld
<1>8. FilesOfOffsets'
  <2>1. ASSUME NEW t \in Streams PROVE files'[t].data \subseteq streams'[t].offsets
    <3>1. files[t].data \subseteq streams[t].offsets
      BY DEF HInv, FilesOfOffsets
    <3>2. CASE t # s
      BY <1>2, <3>1, <3>2
    <3>3. CASE t = s
      BY <1>1, <1>2, <1>3, <3>1, <3>3 DEF NoFile
    <3> QED
      BY <3>2, <3>3
  <2> QED
    BY <2>1 DEF FilesOfOffsets
<1> QED
  BY <1>7, <1>8 DEF ProcessRecord, EndedOwnsNothing, CanRead, Turn

\* The consumer steps over an offset without a record: nothing is owed there.
LEMMA SkipGapHeld ==
    ASSUME HInv, HistoryGrows, NEW p \in Partitions, SkipGap(p)
    PROVE  ReadHeld' /\ FilesOfOffsets' /\ EndedOwnsNothing'
<1> USE DEF smvars, procvars, worldvars
<1>1. ASSUME NEW q \in assignment', NEW o \in Offsets, ~BeingRevoked(q)',
             Owed(q, o)', o < position'[q]
      PROVE  Held(<<q, o>>)'
  <2>1. q \in Partitions /\ q \in assignment /\ ~BeingRevoked(q) /\ Running
    BY <1>1 DEF SkipGap, CanRead, Turn, HInv, IInv, TypeOK, BeingRevoked, Running
  <2>2. Owed(q, o)
    BY <1>1, <2>1, OwedBefore
  <2>3. o < position[q]
    <3>1. position[p] \in Nat /\ ~IsData(<<p, position[p]>>)
      BY ReadType DEF SkipGap, HInv, IInv, IsData
    <3>2. CASE q # p
      BY <1>1, <2>1, <3>2 DEF SkipGap, ReadPast, HInv, IInv, TypeOK, CommitList
    <3>3. CASE q = p
      <4>1. position'[p] = position[p] + 1
        BY DEF SkipGap, ReadPast, HInv, IInv, TypeOK, CommitList
      <4>2. o # position[p]
        BY <2>2, <3>1, <3>3 DEF Owed
      <4> QED
        BY <1>1, <3>1, <3>3, <4>1, <4>2 DEF Offsets
    <3> QED
      BY <3>2, <3>3
  <2>4. Held(<<q, o>>)
    BY <2>1, <2>2, <2>3 DEF HInv, ReadHeld
  <2> QED
    BY <2>4 DEF SkipGap, Held
<1>2. ReadHeld'
  BY <1>1 DEF ReadHeld
<1> QED
  BY <1>2, FilesOfOffsetsKept DEF SkipGap, CanRead, Turn, EndedOwnsNothing

LEMMA EventLoopHeld ==
    ASSUME HInv, HistoryGrows, EventLoop
    PROVE  ReadHeld' /\ FilesOfOffsets' /\ EndedOwnsNothing'
<1> DEFINE Goal == ReadHeld' /\ FilesOfOffsets' /\ EndedOwnsNothing'
<1> USE DEF smvars, procvars, groupvars, worldvars
<1>1. CASE DrainRevocation
  BY <1>1, RevocationHeld
<1>2. ASSUME NEW p \in Partitions, ProcessRecord(p) PROVE Goal
  BY <1>2, ProcessRecordHeld
<1>3. ASSUME NEW p \in Partitions, ProcessRecordFails(p) PROVE Goal
  BY <1>3, FatalHeld DEF ProcessRecordFails
<1>4. ASSUME NEW p \in Partitions, SkipGap(p) PROVE Goal
  BY <1>4, SkipGapHeld
<1>5. CASE UploadTick
  <2>1. PICK S \in UploadBatches :
           IF CloseFails(S) THEN Fatal
           ELSE /\ handle_upload_tick(S)
                /\ pool' = pool \cup UploadsOf(S)
                /\ UNCHANGED <<status, disk, rebalance, groupvars, worldvars>>
    BY <1>5 DEF UploadTick
  <2>2. S \in SUBSET Streams
    BY DEF UploadBatches, Dormant, OpenStreams
  <2>3. CASE ~CloseFails(S)
    BY <1>5, <2>1, <2>2, <2>3, CloseHeld DEF handle_upload_tick, UploadTick, Turn, Running
  <2> QED
    BY <2>1, <2>3, FatalHeld
<1>6. CASE SealFails
  BY <1>6, FatalHeld DEF SealFails
<1>7. CASE CommitTick
  <2>1. ReadHeld'
    BY <1>7, ReadKept DEF CommitTick, make_topic_partition_list, Running, BeingRevoked, Held
  <2>2. FilesOfOffsets'
    BY <1>7, FilesOfOffsetsKept DEF CommitTick, make_topic_partition_list
  <2> QED
    BY <1>7, <2>1, <2>2 DEF CommitTick, HInv, EndedOwnsNothing
<1>8. ASSUME NEW u \in pool, UploadSucceeds(u) PROVE Goal
  <2>1. u.data \subseteq durable'
    BY <1>8 DEF UploadSucceeds, HInv, IInv, Custody, PoolSound, HistoryGrows
  <2>2. ASSUME NEW r \in RecordIds, Held(r) PROVE Held(r)'
    BY <1>8, <2>1, <2>2 DEF UploadSucceeds, upload_success, Held
  <2>3. ReadHeld'
    BY <1>8, <2>2, ReadKept DEF UploadSucceeds, Running, BeingRevoked
  <2> QED
    BY <1>8, <2>3, FilesOfOffsetsKept
       DEF UploadSucceeds, upload_success, HInv, EndedOwnsNothing
<1>9. ASSUME NEW u \in pool, UploadFails(u) PROVE Goal
  <2>1. CASE ~Fatal
    <3>1. /\ pool' = (pool \ {u}) \cup {decrement(u)}
          /\ UNCHANGED <<smvars, status, disk, rebalance, groupvars, worldvars>>
      BY <1>9, <2>1 DEF UploadFails
    <3>2. decrement(u).data = u.data
      BY DEF decrement, HInv, IInv, TypeOK, Upload
    <3>3. ASSUME NEW r \in RecordIds, Held(r) PROVE Held(r)'
      BY <3>1, <3>2, <3>3 DEF Held
    <3>4. ReadHeld'
      BY <3>1, <3>3, ReadKept DEF Running, BeingRevoked
    <3> QED
      BY <3>1, <3>4, FilesOfOffsetsKept DEF HInv, EndedOwnsNothing
  <2> QED
    BY <2>1, FatalHeld
<1>10. CASE ShutdownSignal
  <2>1. OpenStreams \in SUBSET Streams
    BY DEF OpenStreams
  <2>2. CASE ~CloseFails(OpenStreams)
    BY <1>10, <2>1, <2>2, CloseHeld
       DEF ShutdownSignal, handle_shutdown_signal, Turn, Running
  <2> QED
    BY <1>10, <2>2, FatalHeld DEF ShutdownSignal
<1> QED
  BY <1>1, <1>2, <1>3, <1>4, <1>5, <1>6, <1>7, <1>8, <1>9, <1>10 DEF EventLoop

LEMMA DrainHeld ==
    ASSUME HInv, HistoryGrows, Drain
    PROVE  ReadHeld' /\ FilesOfOffsets' /\ EndedOwnsNothing'
<1> USE DEF smvars, groupvars
<1>1. ASSUME status' = "draining", streams' = streams, files' = files
      PROVE  ReadHeld' /\ FilesOfOffsets' /\ EndedOwnsNothing'
  BY <1>1, NotRunningHeld, FilesOfOffsetsKept DEF Running, EndedOwnsNothing
<1>2. \/ Fatal
      \/ ProcessEnds("stopped")
      \/ status' = "draining" /\ streams' = streams /\ files' = files
  BY DEF Drain, DrainUploadSucceeds, DrainUploadFails, FinalCommit, upload_success
<1> QED
  BY <1>1, <1>2, EndsHeld, FatalHeld

-----------------------------------------------------------------------------
LEMMA HeldInductive == Spec => []HInv
<1>1. Init => HInv
  <2>1. Init => ReadHeld /\ FilesOfOffsets /\ EndedOwnsNothing
    BY DEF Init, StateMachineInit, ReadHeld, FilesOfOffsets, NoFile, EndedOwnsNothing
  <2> QED
    BY <2>1, TypeInit, CustodyInit DEF HInv, IInv
<1>2. HInv /\ [Next]_vars => HInv'
  <2> SUFFICES ASSUME HInv, [Next]_vars PROVE HInv'
    OBVIOUS
  <2>1. HistoryGrows
    BY HistoryOnlyGrows DEF HInv, IInv
  <2>2. IInv'
    BY TypeNext, CustodyNext DEF HInv, IInv
  <2>3. CASE UNCHANGED vars
    <3>1. UNCHANGED <<streams, files, pool, durable, status, assignment, position, rebalance>>
      BY <2>3 DEF vars, smvars, procvars, groupvars, worldvars
    <3>2. ReadHeld'
      BY <2>1, <3>1, ReadKept DEF Running, BeingRevoked, Held
    <3>3. FilesOfOffsets' /\ EndedOwnsNothing'
      BY <3>1, FilesOfOffsetsKept DEF HInv, EndedOwnsNothing
    <3> QED
      BY <2>2, <3>2, <3>3 DEF HInv
  <2> QED
    BY <2>1, <2>2, <2>3, WorldHeld, EventLoopHeld, DrainHeld
       DEF Next, HInv
<1> QED
  BY <1>1, <1>2, PTL DEF Spec

\* While the event loop runs, a record below the position of a partition it
\* owns is in S3, in an open file or in an upload: no revocation, retry or tick
\* loses one (the handlers of state_machine.rs and the event loop of sink.rs).
THEOREM InCustodyHolds == Spec => []InCustody
<1>1. ASSUME HInv PROVE InCustody
  <2> SUFFICES ASSUME Running, NEW p \in assignment, NEW o \in Offsets,
                      Owed(p, o), o < position[p]
               PROVE  Held(<<p, o>>)
    BY DEF InCustody
  <2>1. CASE BeingRevoked(p)
    <3>1. Safe(p, position[p])
      BY <1>1, <2>1 DEF HInv, IInv, Custody, PositionSafe
    <3> QED
      BY <3>1 DEF Safe, SafeIn, Owed, Held
  <2>2. CASE ~BeingRevoked(p)
    BY <1>1, <2>2 DEF HInv, ReadHeld
  <2> QED
    BY <2>1, <2>2
<1> QED
  BY <1>1, HeldInductive, PTL

-----------------------------------------------------------------------------
(* Uploads.                                                                 *)

\* Only a completion takes an upload out of the pool of a running process.
LEMMA PoolSteps ==
    ASSUME TypeOK, [Next]_vars, Running'
    PROVE  \/ \A u \in pool : \E v \in pool' : v.path = u.path
           \/ \E u \in pool : u.stored /\ pool' = pool \ {u}
<1> DEFINE Goal == \/ \A u \in pool : \E v \in pool' : v.path = u.path
                   \/ \E u \in pool : u.stored /\ pool' = pool \ {u}
<1> USE DEF procvars, Running
<1>1. ASSUME pool \subseteq pool' PROVE Goal
  BY <1>1
<1>2. ASSUME NEW u \in pool, NEW v, v.path = u.path, pool' = (pool \ {u}) \cup {v}
      PROVE  Goal
  BY <1>2
<1>3. ~Fatal /\ ~ProcessEnds("stopped")
  BY DEF Fatal, ProcessEnds
<1>4. CASE World
  <2>1. ASSUME NEW u \in pool, StoreObject(u) PROVE Goal
    <3>1. [u EXCEPT !.stored = TRUE].path = u.path
      BY DEF TypeOK, Upload
    <3> QED
      BY <1>2, <2>1, <3>1 DEF StoreObject
  <2>2. CASE ~ \E u \in pool : StoreObject(u)
    <3>1. pool' = pool
      BY <1>3, <1>4, <2>2 DEF World, Produce, TimePasses, Assign, Revoke, Evict, PeerProgress,
         BrokerAppliesCommit, CommitLost, Crash, Restart
    <3> QED
      BY <1>1, <3>1
  <2> QED
    BY <2>1, <2>2
<1>5. CASE EventLoop
  <2>1. ASSUME NEW u \in pool, UploadSucceeds(u) PROVE Goal
    BY <2>1 DEF UploadSucceeds
  <2>2. ASSUME NEW u \in pool, UploadFails(u) PROVE Goal
    <3>1. decrement(u).path = u.path
      BY DEF decrement, TypeOK, Upload
    <3> QED
      BY <1>2, <1>3, <2>2, <3>1 DEF UploadFails
  <2>3. CASE ~ \E u \in pool : UploadSucceeds(u) \/ UploadFails(u)
    <3>1. pool \subseteq pool'
      BY <1>3, <1>5, <2>3 DEF EventLoop, DrainRevocation, ProcessRecord, ProcessRecordFails,
         SkipGap, UploadTick, SealFails, CommitTick, ShutdownSignal
    <3> QED
      BY <1>1, <3>1
  <2> QED
    BY <2>1, <2>2, <2>3
<1>6. CASE Drain
  BY <1>3, <1>6 DEF Drain, DrainUploadSucceeds, DrainUploadFails, FinalCommit
<1>7. CASE UNCHANGED vars
  BY <1>1, <1>7 DEF vars
<1> QED
  BY <1>4, <1>5, <1>6, <1>7 DEF Next

\* While the event loop runs, an upload leaves the pool only with its records in
\* S3, however often it is retried (handle_upload_completion).
THEOREM NoUploadAbandonedHolds == Spec => NoUploadAbandonedWhileRunning
<1>1. Init => IInv
  BY TypeInit, CustodyInit DEF IInv
<1>2. IInv /\ [Next]_vars => IInv'
  BY TypeNext, CustodyNext DEF IInv
<1> DEFINE Leaves == \A u \in pool :
                        Running' /\ u.path \notin {v.path : v \in pool'}
                        => u.data \subseteq durable'
<1>3. IInv /\ [Next]_vars => Leaves
  <2> SUFFICES ASSUME IInv, [Next]_vars, Running',
                      NEW u \in pool, u.path \notin {v.path : v \in pool'}
               PROVE  u.data \subseteq durable'
    OBVIOUS
  <2>1. u \notin pool' /\ ~ \E v \in pool' : v.path = u.path
    OBVIOUS
  <2>2. u.stored
    BY <2>1, PoolSteps DEF IInv
  <2> QED
    BY <2>2, HistoryOnlyGrows DEF IInv, Custody, PoolSound, HistoryGrows
<1>4. IInv /\ [Next]_vars => [Leaves]_vars
  BY <1>3
<1> QED
  BY <1>1, <1>2, <1>4, PTL DEF Spec, NoUploadAbandonedWhileRunning

-----------------------------------------------------------------------------
(* Records that cannot be decoded.                                          *)

(* The inductive invariant about undecodable records: none is below a committed
   offset, nothing that leads to a commit passes one, no stream keeps one.   *)
NInv == TypeOK /\ PoisonNotPassed /\ PassesNoPoison /\ NoPoisonKept

\* The part of it that a step has to keep, beside the types.
StillNotPassed == PoisonNotPassed' /\ PassesNoPoison' /\ NoPoisonKept'

LEMMA ClearKept ==
    ASSUME HistoryGrows, NEW p \in Partitions, NEW n, Clear(p, n)
    PROVE  ClearIn(resets'[p], p, n)
BY DEF HistoryGrows, Clear, ClearIn

LEMMA NothingPassed ==
    ASSUME NEW p, NEW n \in {NoOffset, 0}, NEW starts
    PROVE  ClearIn(starts, p, n)
BY DEF ClearIn, Offsets, NoOffset

\* Where a member begins to read nothing is passed.
LEMMA StartClear ==
    ASSUME NInv, NEW p \in Partitions, resets'[p] = Resets({p})[p]
    PROVE  ClearIn(resets'[p], p, StartPosition(p))
<1>1. CASE committed[p] # NoOffset
  BY <1>1 DEF StartPosition, Resets, NInv, PoisonNotPassed, Clear
<1>2. CASE committed[p] = NoOffset
  <2>1. StartPosition(p) = ResetPosition(p) /\ ResetPosition(p) \in resets'[p]
    BY <1>2 DEF StartPosition, Resets
  <2> QED
    BY <2>1 DEF ClearIn
<1> QED
  BY <1>1, <1>2

\* What keeps each part when a step adds nothing to it.
LEMMA CommittedClearKept ==
    ASSUME NInv, HistoryGrows, committed' = committed
    PROVE  PoisonNotPassed'
BY ClearKept DEF NInv, PoisonNotPassed, Clear

LEMMA PassesKept ==
    ASSUME NInv, HistoryGrows,
           \A p \in Partitions : offsets_watermark'[p] \in {offsets_watermark[p], NoOffset},
           \/ commits' = commits
           \/ commits' = << >>
           \/ commits # << >> /\ commits' = Tail(commits),
           \A p \in assignment' : p \in assignment /\ position'[p] = position[p]
    PROVE  PassesNoPoison'
<1>1. ASSUME NEW p \in Partitions PROVE ClearIn(resets'[p], p, offsets_watermark'[p])
  <2>1. CASE offsets_watermark'[p] = offsets_watermark[p]
    BY <2>1, ClearKept DEF NInv, PassesNoPoison
  <2>2. CASE offsets_watermark'[p] = NoOffset
    BY <2>2, NothingPassed
  <2> QED
    BY <2>1, <2>2
<1>2. ASSUME NEW i \in 1 .. Len(commits'), NEW p \in Partitions
      PROVE  ClearIn(resets'[p], p, commits'[i][p])
  <2>1. PICK j \in 1 .. Len(commits) : commits'[i] = commits[j]
    <3>1. CASE commits' = commits
      BY <3>1
    <3>2. CASE commits' = << >>
      BY <3>2, EmptySeq
    <3>3. CASE commits # << >> /\ commits' = Tail(commits)
      <4>1. commits \in Seq(CommitList)
        BY DEF NInv, TypeOK
      <4>2. /\ Len(commits) \in Nat
            /\ Len(Tail(commits)) = Len(commits) - 1
            /\ \A k \in 1 .. Len(Tail(commits)) : Tail(commits)[k] = commits[k + 1]
        BY <3>3, <4>1, HeadTailProperties, LenProperties
      <4>3. i \in 1 .. Len(Tail(commits)) /\ commits'[i] = Tail(commits)[i]
        BY <3>3
      <4>4. i \in 1 .. Len(commits) - 1
        BY <4>2, <4>3
      <4>5. i + 1 \in 1 .. Len(commits)
        BY <4>2, <4>4
      <4> QED
        BY <4>2, <4>3, <4>5
    <3> QED
      BY <3>1, <3>2, <3>3
  <2> QED
    BY <2>1, ClearKept DEF NInv, PassesNoPoison
<1>3. ASSUME NEW p \in assignment' PROVE ClearIn(resets'[p], p, position'[p])
  BY ClearKept DEF NInv, PassesNoPoison, TypeOK
<1> QED
  BY <1>1, <1>2, <1>3 DEF PassesNoPoison, Clear

LEMMA NoPoisonStays ==
    ASSUME NInv,
           \A p \in Partitions : offsets_uploaded'[p] \subseteq offsets_uploaded[p],
           \A u \in pool' : \/ \E v \in pool : u.offsets = v.offsets
                            \/ \E s \in Streams : u.offsets = streams[s].offsets,
           \A s \in Streams : streams'[s].offsets \subseteq streams[s].offsets
    PROVE  NoPoisonKept'
<1> USE DEF NInv, NoPoisonKept, IsPoison
<1>1. \A p \in Partitions : \A o \in offsets_uploaded'[p] : ~IsPoison(p, o)
  OBVIOUS
<1>2. \A u \in pool' : \A r \in u.offsets : ~IsPoison(r[1], r[2])
  OBVIOUS
<1>3. \A s \in Streams : \A r \in streams'[s].offsets : ~IsPoison(r[1], r[2])
  OBVIOUS
<1> QED
  BY <1>1, <1>2, <1>3

LEMMA EndsClear ==
    ASSUME NInv, HistoryGrows, NEW how, ProcessEnds(how), commits' = commits
    PROVE  PassesNoPoison' /\ NoPoisonKept'
<1>1. PassesNoPoison'
  BY PassesKept DEF ProcessEnds, StateMachineForgotten
<1>2. NoPoisonKept'
  BY DEF ProcessEnds, StateMachineForgotten, NoPoisonKept, NoStream
<1> QED
  BY <1>1, <1>2

LEMMA FatalClear == NInv /\ HistoryGrows /\ Fatal => StillNotPassed
BY EndsClear, CommittedClearKept DEF Fatal, StillNotPassed

\* A step that leaves the member's memory and the group's offsets alone.
LEMMA FrameClear ==
    ASSUME NInv, HistoryGrows, committed' = committed,
           UNCHANGED <<offsets_uploaded, offsets_watermark, pool>>,
           \A s \in Streams : streams'[s].offsets \subseteq streams[s].offsets,
           \/ commits' = commits
           \/ commits' = << >>
           \/ commits # << >> /\ commits' = Tail(commits),
           \A p \in assignment' : p \in assignment /\ position'[p] = position[p]
    PROVE  StillNotPassed
BY CommittedClearKept, PassesKept, NoPoisonStays DEF StillNotPassed

LEMMA WorldClear ==
    ASSUME NInv, HistoryGrows, World
    PROVE  StillNotPassed
<1> USE DEF smvars, procvars, groupvars, worldvars
<1>1. ASSUME NEW p \in Partitions, Produce(p) PROVE StillNotPassed
  BY <1>1, FrameClear DEF Produce
<1>2. CASE TimePasses
  <2>1. \A s \in Streams : streams'[s].offsets = streams[s].offsets
    BY <1>2 DEF TimePasses, StreamsAge, NInv, TypeOK, StateMachineTypeOK, StreamState
  <2> QED
    BY <1>2, <2>1, FrameClear DEF TimePasses, StreamsAge
<1>3. ASSUME NEW A \in SUBSET Partitions, Assign(A) PROVE StillNotPassed
  <2>1. ASSUME NEW p \in assignment' PROVE ClearIn(resets'[p], p, position'[p])
    <3>1. p \in Partitions
      BY <1>3 DEF Assign, NInv, TypeOK
    <3>2. CASE p \in A
      <4>1. position'[p] = StartPosition(p) /\ resets'[p] = Resets({p})[p]
        BY <1>3, <3>1, <3>2 DEF Assign, Resets
      <4> QED
        BY <3>1, <4>1, StartClear
    <3>3. CASE p \notin A
      <4>1. p \in assignment /\ position'[p] = position[p]
        BY <1>3, <3>1, <3>3 DEF Assign
      <4> QED
        BY <3>1, <4>1, ClearKept DEF NInv, PassesNoPoison
    <3> QED
      BY <3>2, <3>3
  <2>2. \A p \in Partitions : ClearIn(resets'[p], p, offsets_watermark'[p])
    BY <1>3, ClearKept DEF Assign, NInv, PassesNoPoison
  <2>3. PassesNoPoison'
    BY <1>3, <2>1, <2>2, EmptySeq DEF Assign, PassesNoPoison, Clear
  <2> QED
    BY <1>3, <2>3, CommittedClearKept, NoPoisonStays DEF Assign, StillNotPassed
<1>4. ASSUME NEW R \in SUBSET Partitions, Revoke(R) PROVE StillNotPassed
  <2>1. \A p \in assignment' : p \in assignment /\ position'[p] = position[p]
    BY <1>4 DEF Revoke, NInv, TypeOK
  <2> QED
    BY <1>4, <2>1, FrameClear DEF Revoke
<1>5. CASE Evict
  BY <1>5, FrameClear DEF Evict
<1>6. ASSUME NEW p \in Partitions, NEW n \in 1 .. LogSize, PeerProgress(p, n) PROVE StillNotPassed
  <2>1. ASSUME NEW q \in Partitions PROVE ClearIn(resets'[q], q, committed'[q])
    <3>1. CASE q # p
      <4>1. committed'[q] = committed[q]
        BY <1>6, <3>1 DEF PeerProgress, NInv, TypeOK, CommitList
      <4> QED
        BY <4>1, ClearKept DEF NInv, PoisonNotPassed
    <3>2. CASE q = p
      <4>1. committed'[p] = n /\ resets'[p] = Resets({p})[p]
        BY <1>6 DEF PeerProgress, NInv, TypeOK, CommitList
      <4>2. ClearIn(resets'[p], p, StartPosition(p)) /\ StartPosition(p) \in Nat
        BY <4>1, StartClear, StartType DEF NInv
      <4>3. ASSUME NEW o \in Offsets, IsPoison(p, o), StartPosition(p) <= o PROVE n <= o
        <5>1. o \in StartPosition(p) .. n - 1 => Log[p][o].kind # "poison"
          BY <1>6 DEF PeerProgress
        <5> QED
          BY <4>2, <4>3, <5>1 DEF IsPoison, Offsets
      <4> QED
        BY <3>2, <4>1, <4>2, <4>3 DEF ClearIn
    <3> QED
      BY <3>1, <3>2
  <2>2. PoisonNotPassed'
    BY <2>1 DEF PoisonNotPassed, Clear
  <2> QED
    BY <1>6, <2>2, PassesKept, NoPoisonStays DEF PeerProgress, StillNotPassed
<1>7. CASE BrokerAppliesCommit
  <2>1. 1 \in 1 .. Len(commits) /\ Head(commits) = commits[1]
    <3>1. commits \in Seq(CommitList) /\ commits # << >>
      BY <1>7 DEF BrokerAppliesCommit, NInv, TypeOK
    <3>2. Head(commits) = commits[1] /\ Len(commits) \in Nat /\ Len(commits) # 0
      BY <3>1, HeadTailProperties, EmptySeq, LenProperties
    <3> QED
      BY <3>2
  <2>2. ASSUME NEW p \in Partitions PROVE ClearIn(resets'[p], p, committed'[p])
    <3>1. committed'[p] \in {committed[p], commits[1][p]}
      BY <1>7, <2>1 DEF BrokerAppliesCommit
    <3>2. Clear(p, committed[p]) /\ Clear(p, commits[1][p])
      BY <2>1 DEF NInv, PoisonNotPassed, PassesNoPoison
    <3> QED
      BY <3>1, <3>2, ClearKept
  <2>3. PoisonNotPassed'
    BY <2>2 DEF PoisonNotPassed, Clear
  <2> QED
    BY <1>7, <2>3, PassesKept, NoPoisonStays DEF BrokerAppliesCommit, StillNotPassed
<1>8. CASE CommitLost
  BY <1>8, FrameClear DEF CommitLost
<1>9. ASSUME NEW u \in pool, StoreObject(u) PROVE StillNotPassed
  <2>1. [u EXCEPT !.stored = TRUE].offsets = u.offsets
    BY DEF NInv, TypeOK, Upload
  <2>2. NoPoisonKept'
    BY <1>9, <2>1, NoPoisonStays DEF StoreObject
  <2> QED
    BY <1>9, <2>2, CommittedClearKept, PassesKept DEF StoreObject, StillNotPassed
<1>10. CASE Crash
  BY <1>10, FatalClear DEF Crash
<1>11. CASE Restart
  BY <1>11, FrameClear DEF Restart
<1> QED
  BY <1>1, <1>2, <1>3, <1>4, <1>5, <1>6, <1>7, <1>8, <1>9, <1>10, <1>11 DEF World

\* A partition's offsets up to the end of its uploaded ones are not poison.
LEMMA ListClear ==
    ASSUME NInv, NEW A, NEW p \in Partitions
    PROVE  Clear(p, TopicPartitionList(A)[p])
<1> DEFINE w == offsets_watermark[p]
           up == offsets_uploaded[p]
           end == ContiguousEnd(up, w)
<1>1. TopicPartitionList(A)[p] = IF p \in A /\ w # NoOffset /\ end > w
                                 THEN end ELSE NoOffset
  BY DEF TopicPartitionList
<1>2. CASE w # NoOffset
  <2>1. w \in Nat /\ up \in SUBSET Offsets
    BY <1>2 DEF NInv, TypeOK, StateMachineTypeOK, MaybeOffset
  <2>2. end \in Nat /\ w .. end - 1 \subseteq up
    BY <2>1, ContiguousEndCorrect DEF IsContiguousEnd
  <2>3. Clear(p, w) /\ \A o \in up : ~IsPoison(p, o)
    BY DEF NInv, PassesNoPoison, NoPoisonKept
  <2>4. ASSUME NEW o \in Offsets, IsPoison(p, o), w <= o PROVE end <= o
    <3>1. o \in Int /\ o \notin w .. end - 1
      BY <2>2, <2>3, <2>4 DEF Offsets
    <3> QED
      BY <2>1, <2>2, <2>4, <3>1
  <2>5. Clear(p, end)
    BY <2>3, <2>4 DEF Clear, ClearIn
  <2>6. Clear(p, NoOffset)
    BY NothingPassed DEF Clear
  <2> QED
    BY <1>1, <2>5, <2>6
<1>3. CASE w = NoOffset
  BY <1>1, <1>3, NothingPassed DEF Clear
<1> QED
  BY <1>2, <1>3

LEMMA CommitTickClear ==
    ASSUME NInv, HistoryGrows, CommitTick
    PROVE  StillNotPassed
<1> DEFINE tpl == TopicPartitionList(assignment)
<1> USE DEF procvars, worldvars
<1>1. \A p \in Partitions :
         /\ offsets_watermark'[p] = IF tpl[p] = NoOffset THEN offsets_watermark[p] ELSE tpl[p]
         /\ offsets_uploaded'[p] \subseteq offsets_uploaded[p]
  BY DEF CommitTick, make_topic_partition_list
<1>2. \A p \in Partitions : Clear(p, tpl[p])
  BY ListClear
<1>3. commits' = commits \/ commits' = Append(commits, tpl)
  BY DEF CommitTick
<1>4. commits \in Seq(CommitList) /\ tpl \in CommitList
  BY ListType DEF NInv, TypeOK
<1> HIDE DEF tpl
<1>5. ASSUME NEW p \in Partitions PROVE ClearIn(resets'[p], p, offsets_watermark'[p])
  BY <1>1, <1>2, ClearKept DEF NInv, PassesNoPoison
<1>6. ASSUME NEW i \in 1 .. Len(commits'), NEW p \in Partitions
      PROVE  ClearIn(resets'[p], p, commits'[i][p])
  <2>1. commits'[i] = tpl \/ \E j \in 1 .. Len(commits) : commits'[i] = commits[j]
    <3>1. CASE commits' = commits
      BY <3>1
    <3>2. CASE commits' = Append(commits, tpl)
      <4>1. /\ Len(commits) \in Nat /\ Len(commits') = Len(commits) + 1
            /\ commits'[Len(commits) + 1] = tpl
            /\ \A j \in 1 .. Len(commits) : commits'[j] = commits[j]
        BY <1>4, <3>2, AppendProperties, LenProperties
      <4>2. i = Len(commits) + 1 \/ i \in 1 .. Len(commits)
        BY <4>1
      <4> QED
        BY <4>1, <4>2
    <3> QED
      BY <1>3, <3>1, <3>2
  <2> QED
    BY <1>2, <2>1, ClearKept DEF NInv, PassesNoPoison
<1>7. ASSUME NEW p \in assignment' PROVE ClearIn(resets'[p], p, position'[p])
  BY ClearKept DEF CommitTick, NInv, PassesNoPoison, TypeOK
<1>8. PassesNoPoison'
  BY <1>5, <1>6, <1>7 DEF PassesNoPoison, Clear
<1>9. NoPoisonKept'
  BY <1>1, NoPoisonStays DEF CommitTick, make_topic_partition_list
<1> QED
  BY <1>8, <1>9, CommittedClearKept DEF CommitTick, StillNotPassed

\* Reading past an offset that is not poison.
LEMMA ReadPastClear ==
    ASSUME NInv, HistoryGrows, NEW p \in Partitions, CanRead(p), ReadPast(p),
           ~IsPoison(p, position[p]), assignment' = assignment
    PROVE  \A q \in assignment' : ClearIn(resets'[q], q, position'[q])
<1> SUFFICES ASSUME NEW q \in assignment' PROVE ClearIn(resets'[q], q, position'[q])
  OBVIOUS
<1>1. q \in Partitions /\ ClearIn(resets'[q], q, position[q])
  BY ClearKept DEF NInv, PassesNoPoison, TypeOK
<1>2. CASE q # p
  BY <1>1, <1>2 DEF ReadPast, NInv, TypeOK, CommitList
<1>3. CASE q = p
  <2>1. position[p] \in Nat /\ position'[p] = position[p] + 1
    BY ReadType DEF ReadPast, NInv, TypeOK, CommitList
  <2>2. ASSUME NEW o \in Offsets, IsPoison(p, o), position[p] <= o PROVE position[p] + 1 <= o
    <3>1. o # position[p]
      BY <2>2
    <3> QED
      BY <2>1, <2>2, <3>1 DEF Offsets
  <2> QED
    BY <1>1, <1>3, <2>1, <2>2 DEF ClearIn
<1> QED
  BY <1>2, <1>3

LEMMA ProcessRecordClear ==
    ASSUME NInv, HistoryGrows, NEW p \in Partitions, ProcessRecord(p)
    PROVE  StillNotPassed
<1> DEFINE n == position[p]
           s == StreamOf(p, n)
           stream == StreamAfter(p, n)
           upload == ToUpload(stream, FileAfter(p, n, FreshPath))
<1> USE DEF worldvars
<1>1. /\ n \in Offsets /\ s \in Streams /\ p \in assignment /\ ~IsPoison(p, n)
      /\ CanRead(p) /\ ReadPast(p)
  <2>1. CanRead(p)
    BY DEF ProcessRecord
  <2>2. n \in Offsets
    BY <2>1, ReadType DEF NInv
  <2> QED
    BY <2>1, <2>2, ConstantTypes DEF ProcessRecord, CanRead, StreamOf, IsPoison
<1>2. \A q \in Partitions : ClearIn(resets'[q], q, offsets_watermark'[q])
  <2>1. ASSUME NEW q \in Partitions
        PROVE  \/ offsets_watermark'[q] = offsets_watermark[q]
               \/ q = p /\ offsets_watermark'[q] = position[p]
    BY DEF ProcessRecord, handle_process_record, NInv, TypeOK, StateMachineTypeOK
  <2> QED
    BY <1>1, <2>1, ClearKept DEF NInv, PassesNoPoison
<1>3. \A q \in assignment' : ClearIn(resets'[q], q, position'[q])
  BY <1>1, ReadPastClear DEF ProcessRecord
<1>4. \A i \in 1 .. Len(commits'), q \in Partitions : ClearIn(resets'[q], q, commits'[i][q])
  BY ClearKept DEF ProcessRecord, NInv, PassesNoPoison
<1>5. PassesNoPoison'
  BY <1>2, <1>3, <1>4 DEF PassesNoPoison, Clear
<1>6. /\ stream.offsets = streams[s].offsets \cup {<<p, n>>}
      /\ upload.offsets = stream.offsets
  BY DEF StreamAfter, ToUpload
<1>7. /\ streams' = [streams EXCEPT ![s] = IF Seals(p, n) THEN NoStream ELSE stream]
      /\ pool' \subseteq pool \cup {upload}
      /\ streams \in [Streams -> StreamState]
      /\ offsets_uploaded' = offsets_uploaded
  BY DEF ProcessRecord, handle_process_record, NInv, TypeOK, StateMachineTypeOK
<1> HIDE DEF s, stream, upload, n
<1>8. \A r \in stream.offsets : ~IsPoison(r[1], r[2])
  BY <1>1, <1>6 DEF NInv, NoPoisonKept, IsPoison
<1>9. \A u \in pool' : \A r \in u.offsets : ~IsPoison(r[1], r[2])
  BY <1>6, <1>7, <1>8 DEF NInv, NoPoisonKept
<1>10. ASSUME NEW t \in Streams, NEW r \in streams'[t].offsets PROVE ~IsPoison(r[1], r[2])
  <2>1. CASE t = s
    BY <1>7, <1>8, <1>10, <2>1 DEF NoStream
  <2>2. CASE t # s
    BY <1>7, <1>10, <2>2 DEF NInv, NoPoisonKept
  <2> QED
    BY <2>1, <2>2
<1>11. NoPoisonKept'
  BY <1>7, <1>9, <1>10 DEF NInv, NoPoisonKept, IsPoison
<1> QED
  BY <1>5, <1>11, CommittedClearKept DEF ProcessRecord, StillNotPassed

LEMMA CloseClear ==
    ASSUME NInv, HistoryGrows, NEW S \in SUBSET Streams, close_and_upload(S),
           pool' = pool \cup UploadsOf(S), UNCHANGED <<groupvars, worldvars>>
    PROVE  StillNotPassed
<1> USE DEF groupvars, worldvars
<1>1. ASSUME NEW u \in UploadsOf(S) PROVE \E s \in Streams : u.offsets = streams[s].offsets
  BY DEF UploadsOf, ToUpload
<1>2. \A s \in Streams : streams'[s].offsets \subseteq streams[s].offsets
  BY DEF close_and_upload, NoStream
<1>3. NoPoisonKept'
  BY <1>1, <1>2, NoPoisonStays DEF close_and_upload
<1>4. PassesNoPoison'
  BY PassesKept DEF close_and_upload
<1> QED
  BY <1>3, <1>4, CommittedClearKept DEF StillNotPassed

LEMMA SuccessClear ==
    ASSUME NInv, HistoryGrows, NEW u \in pool, upload_success(u), pool' = pool \ {u},
           UNCHANGED <<groupvars, worldvars>>
    PROVE  StillNotPassed
<1> USE DEF groupvars, worldvars
<1>1. \A p \in Partitions : \A o \in UploadedOffsets(u, p) : ~IsPoison(p, o)
  BY DEF UploadedOffsets, NInv, NoPoisonKept
<1>2. NoPoisonKept'
  BY <1>1 DEF upload_success, NInv, NoPoisonKept, IsPoison
<1>3. PassesNoPoison'
  BY PassesKept DEF upload_success
<1> QED
  BY <1>2, <1>3, CommittedClearKept DEF StillNotPassed

LEMMA EventLoopClear ==
    ASSUME NInv, HistoryGrows, EventLoop
    PROVE  StillNotPassed
<1> USE DEF smvars, procvars, groupvars, worldvars
<1>1. CASE DrainRevocation
  <2>1. NoPoisonKept'
    BY <1>1, NoPoisonStays DEF DrainRevocation, handle_revoke_partitions, NoStream
  <2>2. PassesNoPoison'
    BY <1>1, PassesKept DEF DrainRevocation, handle_revoke_partitions
  <2> QED
    BY <1>1, <2>1, <2>2, CommittedClearKept DEF DrainRevocation, StillNotPassed
<1>2. ASSUME NEW p \in Partitions, ProcessRecord(p) PROVE StillNotPassed
  BY <1>2, ProcessRecordClear
<1>3. ASSUME NEW p \in Partitions, ProcessRecordFails(p) PROVE StillNotPassed
  BY <1>3, FatalClear DEF ProcessRecordFails
<1>4. ASSUME NEW p \in Partitions, SkipGap(p) PROVE StillNotPassed
  <2>1. \A q \in assignment' : ClearIn(resets'[q], q, position'[q])
    BY <1>4, ReadPastClear DEF SkipGap, IsPoison
  <2>2. PassesNoPoison'
    BY <1>4, <2>1 DEF SkipGap, NInv, PassesNoPoison, Clear
  <2> QED
    BY <1>4, <2>2, CommittedClearKept, NoPoisonStays DEF SkipGap, StillNotPassed
<1>5. CASE UploadTick
  <2>1. PICK S \in UploadBatches :
           IF CloseFails(S) THEN Fatal
           ELSE /\ handle_upload_tick(S)
                /\ pool' = pool \cup UploadsOf(S)
                /\ UNCHANGED <<status, disk, rebalance, groupvars, worldvars>>
    BY <1>5 DEF UploadTick
  <2>2. S \in SUBSET Streams
    BY DEF UploadBatches, Dormant, OpenStreams
  <2> QED
    BY <2>1, <2>2, CloseClear, FatalClear DEF handle_upload_tick
<1>6. CASE SealFails
  BY <1>6, FatalClear DEF SealFails
<1>7. CASE CommitTick
  BY <1>7, CommitTickClear
<1>8. ASSUME NEW u \in pool, UploadSucceeds(u) PROVE StillNotPassed
  BY <1>8, SuccessClear DEF UploadSucceeds
<1>9. ASSUME NEW u \in pool, UploadFails(u) PROVE StillNotPassed
  <2>1. decrement(u).offsets = u.offsets
    BY DEF decrement, NInv, TypeOK, Upload
  <2>2. CASE ~Fatal
    <3>1. /\ pool' = (pool \ {u}) \cup {decrement(u)}
          /\ UNCHANGED <<smvars, groupvars, worldvars>>
      BY <1>9, <2>2 DEF UploadFails
    <3>2. NoPoisonKept'
      BY <2>1, <3>1, NoPoisonStays
    <3> QED
      BY <3>1, <3>2, CommittedClearKept, PassesKept DEF StillNotPassed
  <2> QED
    BY <2>2, FatalClear
<1>10. CASE ShutdownSignal
  <2>1. OpenStreams \in SUBSET Streams
    BY DEF OpenStreams
  <2> QED
    BY <1>10, <2>1, CloseClear, FatalClear DEF ShutdownSignal, handle_shutdown_signal
<1> QED
  BY <1>1, <1>2, <1>3, <1>4, <1>5, <1>6, <1>7, <1>8, <1>9, <1>10 DEF EventLoop

LEMMA DrainClear ==
    ASSUME NInv, HistoryGrows, Drain
    PROVE  StillNotPassed
<1> USE DEF smvars, groupvars, worldvars
<1>1. ASSUME NEW u \in pool, DrainUploadSucceeds(u) PROVE StillNotPassed
  BY <1>1, SuccessClear DEF DrainUploadSucceeds
<1>2. ASSUME NEW u \in pool, DrainUploadFails(u) PROVE StillNotPassed
  <2>1. CASE ~Fatal
    BY <1>2, <2>1, CommittedClearKept, PassesKept, NoPoisonStays DEF DrainUploadFails, StillNotPassed
  <2> QED
    BY <2>1, FatalClear
<1>3. CASE FinalCommit
  <2> DEFINE tpl == TopicPartitionList(assignment)
  <2>1. CASE ~Fatal
    <3>1. /\ \A p \in Partitions : committed'[p] \in {committed[p], tpl[p]}
          /\ ProcessEnds("stopped") /\ commits' = commits
      BY <1>3, <2>1 DEF FinalCommit
    <3>2. \A p \in Partitions : Clear(p, committed[p]) /\ Clear(p, tpl[p])
      BY ListClear DEF NInv, PoisonNotPassed
    <3> HIDE DEF tpl
    <3>3. PoisonNotPassed'
      BY <3>1, <3>2, ClearKept DEF PoisonNotPassed, Clear
    <3> QED
      BY <3>1, <3>3, EndsClear DEF StillNotPassed
  <2> QED
    BY <2>1, FatalClear
<1> QED
  BY <1>1, <1>2, <1>3 DEF Drain

\* A record that cannot be decoded is never counted as delivered: nobody commits
\* past it (handle_process_record answers Fatal, with its offset entered in the
\* stream already).
THEOREM PoisonNotPassedHolds == Spec => []PoisonNotPassed
<1>1. Init => NInv
  <2>1. \A p \in Partitions : Clear(p, NoOffset)
    BY NothingPassed DEF Clear
  <2>2. Init => PoisonNotPassed /\ PassesNoPoison /\ NoPoisonKept
    BY <2>1, EmptySeq DEF Init, StateMachineInit, PoisonNotPassed, PassesNoPoison,
       NoPoisonKept, NoStream
  <2> QED
    BY <2>2, TypeInit DEF NInv
<1>2. NInv /\ [Next]_vars => NInv'
  <2> SUFFICES ASSUME NInv, [Next]_vars PROVE NInv'
    OBVIOUS
  <2>1. HistoryGrows /\ TypeOK'
    BY HistoryOnlyGrows, TypeNext DEF NInv
  <2>2. UNCHANGED vars => StillNotPassed
    BY <2>1, FrameClear DEF vars, smvars, procvars, groupvars
  <2>3. StillNotPassed
    BY <2>1, <2>2, WorldClear, EventLoopClear, DrainClear DEF Next
  <2> QED
    BY <2>1, <2>3 DEF NInv, StillNotPassed
<1>3. NInv => PoisonNotPassed
  BY DEF NInv
<1> QED
  BY <1>1, <1>2, <1>3, PTL DEF Spec
=============================================================================
