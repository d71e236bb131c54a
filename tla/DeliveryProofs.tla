--------------------------- MODULE DeliveryProofs ---------------------------
(***************************************************************************)
(* At-least-once delivery, for all values of the constants: any number of  *)
(* partitions, streams, records, uploads, retries, rebalances and crashes. *)
(*                                                                         *)
(* AtLeastOnce is not inductive: a commit takes its offset from the list   *)
(* sent to the broker, the list from the watermark and the uploaded        *)
(* offsets, these from uploads, those from open files.  Custody follows    *)
(* that chain, and each action hands it on.                                *)
(***************************************************************************)
EXTENDS SinkProofs

IInv == TypeOK /\ Custody

\* What has been stored stays stored, and a reset is never forgotten.
HistoryGrows ==
    /\ durable \subseteq durable'
    /\ \A p \in Partitions : resets[p] \subseteq resets'[p]

LEMMA HistoryOnlyGrows == TypeOK /\ [Next]_vars => HistoryGrows
<1> SUFFICES ASSUME TypeOK, [Next]_vars PROVE HistoryGrows
  OBVIOUS
<1> USE DEF smvars, procvars, groupvars, worldvars
<1>1. CASE durable' = durable /\ resets' = resets
  BY <1>1 DEF HistoryGrows
<1>2. ASSUME NEW P, resets' = Resets(P), durable \subseteq durable' PROVE HistoryGrows
  BY <1>2 DEF HistoryGrows, Resets
<1>3. CASE World
  <2>1. ASSUME NEW p \in Partitions, Produce(p) PROVE HistoryGrows
    BY <1>1, <2>1 DEF Produce
  <2>2. CASE TimePasses
    BY <1>1, <2>2 DEF TimePasses
  <2>3. ASSUME NEW A \in SUBSET Partitions, Assign(A) PROVE HistoryGrows
    BY <1>2, <2>3 DEF Assign
  <2>4. ASSUME NEW R \in SUBSET Partitions, Revoke(R) PROVE HistoryGrows
    BY <1>1, <2>4 DEF Revoke
  <2>5. CASE Evict
    BY <1>1, <2>5 DEF Evict
  <2>6. ASSUME NEW p \in Partitions, NEW n \in 1 .. LogSize, PeerProgress(p, n)
        PROVE HistoryGrows
    BY <1>2, <2>6 DEF PeerProgress
  <2>7. CASE BrokerAppliesCommit
    BY <1>1, <2>7 DEF BrokerAppliesCommit
  <2>8. CASE CommitLost
    BY <1>1, <2>8 DEF CommitLost
  <2>9. ASSUME NEW u \in pool, StoreObject(u) PROVE HistoryGrows
    BY <2>9 DEF StoreObject, HistoryGrows
  <2>10. CASE Crash
    BY <1>1, <2>10 DEF Crash, Fatal
  <2>11. CASE Restart
    BY <1>1, <2>11 DEF Restart
  <2> QED
    BY <1>3, <2>1, <2>2, <2>3, <2>4, <2>5, <2>6, <2>7, <2>8, <2>9, <2>10, <2>11
       DEF World
<1>4. EventLoop => durable' = durable /\ resets' = resets
  BY DEF EventLoop, DrainRevocation, ProcessRecord, ProcessRecordFails, SkipGap,
         UploadTick, SealFails, CommitTick, UploadSucceeds, UploadFails,
         ShutdownSignal, Fatal
<1>5. Drain => durable' = durable /\ resets' = resets
  BY DEF Drain, DrainUploadSucceeds, DrainUploadFails, FinalCommit, Fatal
<1>6. CASE UNCHANGED vars
  BY <1>1, <1>6 DEF vars
<1> QED
  BY <1>1, <1>3, <1>4, <1>5, <1>6 DEF Next

-----------------------------------------------------------------------------
(* Safe offsets stay safe; an offset below all offsets is safe.              *)

LEMMA SafeKept ==
    ASSUME HistoryGrows, NEW p \in Partitions, NEW n, Safe(p, n)
    PROVE  SafeIn(durable', resets'[p], p, n)
BY DEF HistoryGrows, Safe, SafeIn

LEMMA NothingBelow ==
    ASSUME NEW p, NEW n \in {NoOffset, 0}, NEW stored, NEW starts
    PROVE  SafeIn(stored, starts, p, n)
BY DEF SafeIn, Offsets, NoOffset

\* Where a member begins to read is safe: at the committed offset, or where
\* what the group owes begins.
LEMMA StartSafe ==
    ASSUME IInv, NEW p \in Partitions, durable \subseteq durable',
           resets'[p] = Resets({p})[p]
    PROVE  SafeIn(durable', resets'[p], p, StartPosition(p))
<1>1. CASE committed[p] # NoOffset
  <2>1. StartPosition(p) = committed[p] /\ resets'[p] = resets[p]
    BY <1>1 DEF StartPosition, Resets
  <2>2. Safe(p, committed[p])
    BY DEF IInv, Custody, CommittedSafe
  <2> QED
    BY <2>1, <2>2 DEF Safe, SafeIn
<1>2. CASE committed[p] = NoOffset
  <2>1. StartPosition(p) = ResetPosition(p) /\ ResetPosition(p) \in resets'[p]
    BY <1>2 DEF StartPosition, Resets
  <2>2. ResetPosition(p) \in Nat
    BY StartType DEF IInv
  <2>3. \A o \in Offsets : ResetPosition(p) <= o => ~ (o < ResetPosition(p))
    BY <2>2 DEF Offsets
  <2> QED
    BY <2>1, <2>3 DEF SafeIn
<1> QED
  BY <1>1, <1>2

(* What keeps each part of Custody when an action does little to it.         *)

LEMMA CommittedKept ==
    ASSUME IInv, HistoryGrows, committed' = committed
    PROVE  CommittedSafe'
BY SafeKept DEF IInv, Custody, CommittedSafe, Safe

LEMMA WatermarkKept ==
    ASSUME IInv, HistoryGrows,
           \A p \in Partitions : offsets_watermark'[p] \in {offsets_watermark[p], NoOffset}
    PROVE  WatermarkSafe'
<1> SUFFICES ASSUME NEW p \in Partitions
             PROVE  SafeIn(durable', resets'[p], p, offsets_watermark'[p])
  BY DEF WatermarkSafe, Safe
<1>1. CASE offsets_watermark'[p] = offsets_watermark[p]
  BY <1>1, SafeKept DEF IInv, Custody, WatermarkSafe
<1>2. CASE offsets_watermark'[p] = NoOffset
  BY <1>2, NothingBelow
<1> QED
  BY <1>1, <1>2

LEMMA PendingKept ==
    ASSUME IInv, HistoryGrows,
           \/ commits' = commits
           \/ commits' = << >>
           \/ commits # << >> /\ commits' = Tail(commits)
    PROVE  PendingSafe'
<1> SUFFICES ASSUME NEW i \in 1 .. Len(commits'), NEW p \in Partitions
             PROVE  SafeIn(durable', resets'[p], p, commits'[i][p])
  BY DEF PendingSafe, Safe
<1>1. PICK j \in 1 .. Len(commits) : commits'[i] = commits[j]
  <2>1. commits \in Seq(CommitList)
    BY DEF IInv, TypeOK
  <2>2. CASE commits' = commits
    BY <2>2
  <2>3. CASE commits' = << >>
    BY <2>3
  <2>4. CASE commits # << >> /\ commits' = Tail(commits)
    <3>1. /\ Len(Tail(commits)) = Len(commits) - 1
          /\ \A k \in 1 .. Len(Tail(commits)) : Tail(commits)[k] = commits[k + 1]
      BY <2>1, <2>4, HeadTailProperties
    <3>2. Len(commits) \in Nat
      BY <2>1, LenProperties
    <3>3. i \in 1 .. Len(Tail(commits)) /\ commits'[i] = Tail(commits)[i]
      BY <2>4
    <3>4. i + 1 \in 1 .. Len(commits)
      <4>1. i \in 1 .. Len(commits) - 1
        BY <3>1, <3>3
      <4> QED
        BY <4>1, <3>2
    <3> QED
      BY <3>1, <3>3, <3>4
  <2> QED
    BY <2>2, <2>3, <2>4
<1>2. Safe(p, commits[j][p])
  BY DEF IInv, Custody, PendingSafe
<1> QED
  BY <1>1, <1>2, SafeKept

LEMMA PositionKept ==
    ASSUME IInv, HistoryGrows, assignment' \subseteq assignment,
           \A p \in assignment' :
              /\ position'[p] = position[p]
              /\ (offsets_watermark'[p] = NoOffset \/ BeingRevoked(p)')
                 => (offsets_watermark[p] = NoOffset \/ BeingRevoked(p))
    PROVE  PositionSafe'
<1> SUFFICES ASSUME NEW p \in assignment',
                    offsets_watermark'[p] = NoOffset \/ BeingRevoked(p)'
             PROVE  SafeIn(durable', resets'[p], p, position'[p])
  BY DEF PositionSafe, Safe
<1>1. p \in Partitions /\ Safe(p, position[p]) /\ position'[p] = position[p]
  BY DEF IInv, TypeOK, Custody, PositionSafe
<1> QED
  BY <1>1, SafeKept

LEMMA UploadedKept ==
    ASSUME IInv, HistoryGrows,
           \A p \in Partitions : offsets_uploaded'[p] \subseteq offsets_uploaded[p]
    PROVE  UploadedStored'
BY DEF IInv, Custody, UploadedStored, HistoryGrows, IsData

LEMMA PoolKept ==
    ASSUME IInv, HistoryGrows, pool' \subseteq pool
    PROVE  PoolSound'
BY DEF IInv, Custody, PoolSound, HistoryGrows, DataOf, IsData

LEMMA FilesKept ==
    ASSUME IInv,
           \A s \in Streams :
              \/ streams'[s].offsets = {}
              \/ streams'[s].offsets = streams[s].offsets /\ files'[s] = files[s]
    PROVE  OpenFilesSound'
BY DEF IInv, Custody, OpenFilesSound, DataOf, IsData

LEMMA FrameKept ==
    ASSUME IInv, HistoryGrows,
           UNCHANGED <<streams, files, offsets_uploaded, offsets_watermark, pool>>
    PROVE  WatermarkSafe' /\ UploadedStored' /\ PoolSound' /\ OpenFilesSound'
BY WatermarkKept, UploadedKept, PoolKept, FilesKept

\* A process that ends takes nothing into custody.
LEMMA EndsKept ==
    ASSUME IInv, HistoryGrows, NEW how, ProcessEnds(how)
    PROVE  /\ WatermarkSafe'
           /\ PositionSafe'
           /\ UploadedStored'
           /\ PoolSound'
           /\ OpenFilesSound'
<1> USE DEF ProcessEnds, StateMachineForgotten
<1>1. WatermarkSafe'
  BY WatermarkKept
<1>2. PositionSafe'
  BY DEF PositionSafe
<1>3. UploadedStored'
  BY DEF UploadedStored
<1>4. PoolSound'
  BY DEF PoolSound
<1>5. OpenFilesSound'
  BY FilesKept DEF NoStream
<1> QED
  BY <1>1, <1>2, <1>3, <1>4, <1>5

LEMMA FatalKept ==
    ASSUME IInv, HistoryGrows, Fatal
    PROVE  Custody'
BY EndsKept, CommittedKept, PendingKept DEF Fatal, Custody, worldvars

-----------------------------------------------------------------------------
LEMMA WorldCustody ==
    ASSUME IInv, HistoryGrows, World
    PROVE  Custody'
<1> USE DEF smvars, procvars, groupvars, worldvars
<1>1. ASSUME NEW p \in Partitions, Produce(p) PROVE Custody'
  <2>1. PositionSafe'
    BY <1>1, PositionKept DEF Produce, BeingRevoked
  <2> QED
    BY <1>1, <2>1, FrameKept, CommittedKept, PendingKept DEF Produce, Custody
<1>2. CASE TimePasses
  <2>1. PositionSafe'
    BY <1>2, PositionKept DEF TimePasses, StreamsAge, BeingRevoked
  <2>2. ASSUME NEW s \in Streams
        PROVE  streams'[s].offsets = streams[s].offsets /\ files'[s] = files[s]
    BY <1>2 DEF TimePasses, StreamsAge, IInv, TypeOK, StateMachineTypeOK, StreamState
  <2>3. OpenFilesSound'
    BY <2>2, FilesKept
  <2> QED
    BY <1>2, <2>1, <2>3, WatermarkKept, UploadedKept, PoolKept, CommittedKept, PendingKept
       DEF TimePasses, StreamsAge, Custody
<1>3. ASSUME NEW A \in SUBSET Partitions, Assign(A) PROVE Custody'
  <2>1. ASSUME NEW p \in assignment',
               offsets_watermark'[p] = NoOffset \/ BeingRevoked(p)'
        PROVE  SafeIn(durable', resets'[p], p, position'[p])
    <3>1. p \in Partitions
      BY <1>3 DEF Assign, IInv, TypeOK
    <3>2. CASE p \in A
      <4>1. position'[p] = StartPosition(p) /\ resets'[p] = Resets({p})[p]
        BY <1>3, <3>1, <3>2 DEF Assign, Resets
      <4>2. durable \subseteq durable'
        BY DEF HistoryGrows
      <4> QED
        BY <3>1, <4>1, <4>2, StartSafe
    <3>3. CASE p \notin A
      <4>1. p \in assignment /\ position'[p] = position[p]
        BY <1>3, <3>1, <3>3 DEF Assign
      <4>2. Safe(p, position[p])
        BY <1>3, <2>1, <4>1 DEF Assign, BeingRevoked, IInv, Custody, PositionSafe
      <4> QED
        BY <3>1, <4>1, <4>2, SafeKept
    <3> QED
      BY <3>2, <3>3
  <2>2. PositionSafe'
    BY <2>1 DEF PositionSafe, Safe
  <2> QED
    BY <1>3, <2>2, FrameKept, CommittedKept, PendingKept DEF Assign, Custody
<1>4. ASSUME NEW R \in SUBSET Partitions, Revoke(R) PROVE Custody'
  <2>1. ASSUME NEW p \in assignment', BeingRevoked(p)' PROVE BeingRevoked(p)
    <3>1. rebalance \in Seq(SUBSET Partitions)
      BY DEF IInv, TypeOK
    <3>2. p \notin R /\ rebalance' = Append(rebalance, R)
      BY <1>4 DEF Revoke
    <3>3. PICK i \in 1 .. Len(rebalance') : p \in rebalance'[i]
      BY <2>1 DEF BeingRevoked
    <3>4. i \in 1 .. Len(rebalance) /\ rebalance'[i] = rebalance[i]
      <4>1. Len(rebalance') = Len(rebalance) + 1 /\ Len(rebalance) \in Nat
        BY <3>1, <3>2, AppendProperties, LenProperties
      <4>2. i # Len(rebalance) + 1
        BY <3>1, <3>2, <3>3, AppendProperties
      <4>3. i \in 1 .. Len(rebalance)
        BY <4>1, <4>2
      <4> QED
        BY <3>1, <3>2, <4>3, AppendProperties
    <3> QED
      BY <3>3, <3>4 DEF BeingRevoked
  <2>2. assignment' \subseteq assignment
    BY <1>4 DEF Revoke
  <2>3. ASSUME NEW p \in assignment'
        PROVE  position'[p] = position[p] /\ offsets_watermark'[p] = offsets_watermark[p]
    BY <1>4 DEF Revoke, IInv, TypeOK
  <2>4. PositionSafe'
    BY <2>1, <2>2, <2>3, PositionKept
  <2> QED
    BY <1>4, <2>4, FrameKept, CommittedKept, PendingKept DEF Revoke, Custody
<1>5. CASE Evict
  <2>1. PositionSafe'
    BY <1>5, PositionKept DEF Evict, BeingRevoked
  <2> QED
    BY <1>5, <2>1, FrameKept, CommittedKept, PendingKept DEF Evict, Custody
<1>6. ASSUME NEW p \in Partitions, NEW n \in 1 .. LogSize, PeerProgress(p, n)
      PROVE  Custody'
  <2>1. PositionSafe'
    BY <1>6, PositionKept DEF PeerProgress, BeingRevoked
  <2>2. ASSUME NEW q \in Partitions, q # p PROVE Safe(q, committed[q])'
    <3>1. committed'[q] = committed[q]
      BY <1>6, <2>2 DEF PeerProgress, IInv, TypeOK, CommitList
    <3>2. Safe(q, committed[q])
      BY DEF IInv, Custody, CommittedSafe
    <3> QED
      BY <3>1, <3>2, SafeKept DEF Safe
  <2>3. SafeIn(durable', resets'[p], p, n)
    <3>1. durable \subseteq durable' /\ resets'[p] = Resets({p})[p]
      BY <1>6 DEF HistoryGrows, PeerProgress
    <3>2. SafeIn(durable', resets'[p], p, StartPosition(p))
      BY <3>1, StartSafe
    <3>3. StartPosition(p) \in Nat
      BY StartType DEF IInv
    <3>4. ASSUME NEW o \in Offsets, IsData(<<p, o>>), o < n, ~ (o < StartPosition(p))
          PROVE  <<p, o>> \in durable'
      <4>1. o \in StartPosition(p) .. n - 1
        BY <3>3, <3>4 DEF Offsets
      <4> QED
        BY <1>6, <3>4, <4>1 DEF PeerProgress, DataOf
    <3> QED
      BY <3>2, <3>4 DEF SafeIn
  <2>4. committed'[p] = n
    BY <1>6 DEF PeerProgress, IInv, TypeOK, CommitList
  <2>5. CommittedSafe'
    BY <2>2, <2>3, <2>4 DEF CommittedSafe, Safe
  <2> QED
    BY <1>6, <2>1, <2>5, FrameKept, PendingKept DEF PeerProgress, Custody
<1>7. CASE BrokerAppliesCommit
  <2>1. PositionSafe'
    BY <1>7, PositionKept DEF BrokerAppliesCommit, BeingRevoked
  <2>2. 1 \in 1 .. Len(commits) /\ Head(commits) = commits[1]
    <3>1. commits \in Seq(CommitList) /\ commits # << >>
      BY <1>7 DEF BrokerAppliesCommit, IInv, TypeOK
    <3>2. Head(commits) = commits[1] /\ Len(commits) \in Nat /\ Len(commits) # 0
      BY <3>1, HeadTailProperties, EmptySeq, LenProperties
    <3> QED
      BY <3>2
  <2>3. ASSUME NEW p \in Partitions PROVE SafeIn(durable', resets'[p], p, committed'[p])
    <3>1. committed'[p] \in {committed[p], commits[1][p]}
      BY <1>7, <2>2 DEF BrokerAppliesCommit
    <3>2. Safe(p, committed[p]) /\ Safe(p, commits[1][p])
      BY <2>2 DEF IInv, Custody, CommittedSafe, PendingSafe
    <3> QED
      BY <3>1, <3>2, SafeKept
  <2>4. CommittedSafe'
    BY <2>3 DEF CommittedSafe, Safe
  <2> QED
    BY <1>7, <2>1, <2>4, FrameKept, PendingKept DEF BrokerAppliesCommit, Custody
<1>8. CASE CommitLost
  <2>1. PositionSafe'
    BY <1>8, PositionKept DEF CommitLost, BeingRevoked
  <2> QED
    BY <1>8, <2>1, FrameKept, CommittedKept, PendingKept DEF CommitLost, Custody
<1>9. ASSUME NEW u \in pool, StoreObject(u) PROVE Custody'
  <2>1. PositionSafe'
    BY <1>9, PositionKept DEF StoreObject, BeingRevoked
  <2>2. ASSUME NEW v \in pool'
        PROVE  /\ DataOf(v.offsets) \subseteq v.data
               /\ v.stored => v.data \subseteq durable'
    <3>1. CASE v \in pool
      BY <3>1 DEF HistoryGrows, IInv, Custody, PoolSound, DataOf, IsData
    <3>2. CASE v = [u EXCEPT !.stored = TRUE]
      <4>1. v.data = u.data /\ v.offsets = u.offsets
        BY <3>2 DEF IInv, TypeOK, Upload
      <4>2. DataOf(u.offsets) \subseteq u.data
        BY DEF IInv, Custody, PoolSound
      <4> QED
        BY <1>9, <4>1, <4>2 DEF StoreObject
    <3> QED
      BY <1>9, <3>1, <3>2 DEF StoreObject
  <2>3. PoolSound'
    BY <2>2 DEF PoolSound, DataOf, IsData
  <2> QED
    BY <1>9, <2>1, <2>3, WatermarkKept, UploadedKept, FilesKept, CommittedKept, PendingKept
       DEF StoreObject, Custody
<1>10. CASE Crash
  BY <1>10, FatalKept DEF Crash
<1>11. CASE Restart
  <2>1. PositionSafe'
    BY <1>11, PositionKept DEF Restart, BeingRevoked
  <2> QED
    BY <1>11, <2>1, FrameKept, CommittedKept, PendingKept DEF Restart, Custody
<1> QED
  BY <1>1, <1>2, <1>3, <1>4, <1>5, <1>6, <1>7, <1>8, <1>9, <1>10, <1>11 DEF World

-----------------------------------------------------------------------------
(* The event loop.                                                           *)

\* Revocation: the stale half of the memory goes, and what a revoked partition
\* is given back will be read from a safe position.
LEMMA RevocationCustody ==
    ASSUME IInv, HistoryGrows, DrainRevocation
    PROVE  Custody'
<1> USE DEF groupvars, worldvars
<1>1. rebalance \in Seq(SUBSET Partitions) /\ rebalance # << >>
  BY DEF DrainRevocation, IInv, TypeOK
<1>2. /\ Len(rebalance) \in Nat
      /\ 1 \in 1 .. Len(rebalance)
      /\ Head(rebalance) = rebalance[1]
      /\ rebalance' = Tail(rebalance)
      /\ Len(Tail(rebalance)) = Len(rebalance) - 1
      /\ \A k \in 1 .. Len(Tail(rebalance)) : Tail(rebalance)[k] = rebalance[k + 1]
  <2>1. Len(rebalance) \in Nat /\ Len(rebalance) # 0
    BY <1>1, EmptySeq, LenProperties
  <2> QED
    BY <1>1, <2>1, HeadTailProperties DEF DrainRevocation
<1>3. ASSUME NEW p, BeingRevoked(p)' PROVE BeingRevoked(p)
  <2>1. PICK i \in 1 .. Len(Tail(rebalance)) : p \in Tail(rebalance)[i]
    BY <1>2, <1>3 DEF BeingRevoked
  <2>2. i + 1 \in 1 .. Len(rebalance)
    <3>1. i \in 1 .. Len(rebalance) - 1
      BY <1>2
    <3> QED
      BY <1>2, <3>1
  <2> QED
    BY <1>2, <2>1, <2>2 DEF BeingRevoked
<1>4. ASSUME NEW p \in Head(rebalance) PROVE BeingRevoked(p)
  BY <1>2, <1>4 DEF BeingRevoked
<1>5. ASSUME NEW p \in Partitions
      PROVE  offsets_watermark'[p] =
                IF p \in Head(rebalance) THEN NoOffset ELSE offsets_watermark[p]
  BY DEF DrainRevocation, handle_revoke_partitions
<1>6. WatermarkSafe'
  BY <1>5, WatermarkKept
<1>7. PositionSafe'
  <2>1. ASSUME NEW p \in assignment',
               offsets_watermark'[p] = NoOffset \/ BeingRevoked(p)'
        PROVE  offsets_watermark[p] = NoOffset \/ BeingRevoked(p)
    <3>1. p \in Partitions
      BY DEF DrainRevocation, IInv, TypeOK
    <3> QED
      BY <1>3, <1>4, <1>5, <2>1, <3>1
  <2> QED
    BY <2>1, PositionKept DEF DrainRevocation
<1>8. UploadedStored'
  BY UploadedKept DEF DrainRevocation, handle_revoke_partitions
<1>9. OpenFilesSound'
  BY FilesKept DEF DrainRevocation, handle_revoke_partitions, NoStream
<1> QED
  BY <1>6, <1>7, <1>8, <1>9, PoolKept, CommittedKept, PendingKept
     DEF DrainRevocation, Custody

\* Sealing: an upload holds the data of the stream's offsets, as its file did.
LEMMA SealedSound ==
    ASSUME NEW stream, NEW file, DataOf(stream.offsets) \subseteq file.data
    PROVE  LET u == ToUpload(stream, file)
           IN  DataOf(u.offsets) \subseteq u.data /\ ~ u.stored
BY DEF ToUpload, DataOf

LEMMA CloseCustody ==
    ASSUME IInv, HistoryGrows, NEW S \in SUBSET Streams,
           close_and_upload(S), pool' = pool \cup UploadsOf(S),
           UNCHANGED <<rebalance, groupvars, worldvars>>
    PROVE  Custody'
<1> USE DEF groupvars, worldvars
<1>1. PositionSafe'
  BY PositionKept DEF close_and_upload, BeingRevoked
<1>2. OpenFilesSound'
  BY FilesKept DEF close_and_upload, NoStream
<1>3. PoolSound'
  <2>1. ASSUME NEW u \in UploadsOf(S)
        PROVE  DataOf(u.offsets) \subseteq u.data /\ ~ u.stored
    <3>1. PICK s \in S : u = ToUpload(streams[s], files[s])
      BY <2>1 DEF UploadsOf
    <3>2. DataOf(streams[s].offsets) \subseteq files[s].data
      BY DEF IInv, Custody, OpenFilesSound
    <3> QED
      BY <3>1, <3>2, SealedSound
  <2>2. ASSUME NEW u \in pool
        PROVE  /\ DataOf(u.offsets) \subseteq u.data
               /\ u.stored => u.data \subseteq durable'
    BY DEF HistoryGrows, IInv, Custody, PoolSound
  <2> QED
    BY <2>1, <2>2 DEF PoolSound, DataOf, IsData
<1> QED
  BY <1>1, <1>2, <1>3, WatermarkKept, UploadedKept, CommittedKept, PendingKept
     DEF close_and_upload, Custody

\* A record that is read: its partition's first watermark is the position, and
\* the data goes to the file its offset stands for.
LEMMA ProcessRecordCustody ==
    ASSUME IInv, HistoryGrows, NEW p \in Partitions, ProcessRecord(p)
    PROVE  Custody'
<1> DEFINE o == position[p]
           s == StreamOf(p, o)
<1> USE DEF worldvars
<1>1. /\ o \in Offsets /\ o \in Nat /\ s \in Streams
      /\ p \in assignment /\ rebalance = << >>
  <2>1. CanRead(p)
    BY DEF ProcessRecord
  <2>2. position[p] \in Offsets /\ position[p] \in Nat
    BY <2>1, ReadType DEF IInv
  <2> QED
    BY <2>1, <2>2, ConstantTypes DEF CanRead, Turn, StreamOf
<1>2. ASSUME NEW q PROVE ~ BeingRevoked(q) /\ ~ BeingRevoked(q)'
  BY <1>1, EmptySeq DEF ProcessRecord, BeingRevoked
<1>3. ASSUME NEW q \in Partitions
      PROVE  offsets_watermark'[q] =
                IF q = p /\ offsets_watermark[q] = NoOffset
                THEN o ELSE offsets_watermark[q]
  BY DEF ProcessRecord, handle_process_record, IInv, TypeOK, StateMachineTypeOK
<1>4. WatermarkSafe'
  <2>1. ASSUME NEW q \in Partitions
        PROVE  SafeIn(durable', resets'[q], q, offsets_watermark'[q])
    <3>1. CASE q = p /\ offsets_watermark[q] = NoOffset
      BY <1>1, <1>3, <3>1, SafeKept DEF IInv, Custody, PositionSafe
    <3>2. CASE ~ (q = p /\ offsets_watermark[q] = NoOffset)
      BY <1>3, <3>2, SafeKept DEF IInv, Custody, WatermarkSafe
    <3> QED
      BY <3>1, <3>2
  <2> QED
    BY <2>1 DEF WatermarkSafe, Safe
<1>5. PositionSafe'
  <2>1. ASSUME NEW q \in assignment', offsets_watermark'[q] = NoOffset
        PROVE  q \in assignment /\ q \in Partitions /\ position'[q] = position[q]
               /\ offsets_watermark[q] = NoOffset
    <3>1. q \in assignment /\ q \in Partitions
      BY DEF ProcessRecord, IInv, TypeOK
    <3>2. o # NoOffset
      BY <1>1 DEF NoOffset
    <3>3. q # p /\ offsets_watermark[q] = NoOffset
      BY <1>3, <2>1, <3>1, <3>2
    <3> QED
      BY <3>1, <3>3 DEF ProcessRecord, ReadPast, IInv, TypeOK, CommitList
  <2>2. ASSUME NEW q \in assignment', offsets_watermark'[q] = NoOffset
        PROVE  SafeIn(durable', resets'[q], q, position'[q])
    BY <2>1, <2>2, SafeKept DEF IInv, Custody, PositionSafe
  <2> QED
    BY <1>2, <2>2 DEF PositionSafe, Safe
<1>6. DataOf(StreamAfter(p, o).offsets) \subseteq FileAfter(p, o, FreshPath).data
  <2>1. DataOf(streams[s].offsets) \subseteq files[s].data
    BY <1>1 DEF IInv, Custody, OpenFilesSound
  <2> QED
    BY <2>1 DEF StreamAfter, FileAfter, DataOf
<1>7. OpenFilesSound'
  <2>1. ASSUME NEW t \in Streams PROVE DataOf(streams'[t].offsets) \subseteq files'[t].data
    <3>1. CASE t # s
      BY <3>1 DEF ProcessRecord, handle_process_record, IInv, TypeOK,
                  StateMachineTypeOK, Custody, OpenFilesSound
    <3>2. CASE t = s /\ Seals(p, o)
      BY <3>2 DEF ProcessRecord, handle_process_record, IInv, TypeOK,
                  StateMachineTypeOK, NoStream, DataOf
    <3>3. CASE t = s /\ ~ Seals(p, o)
      <4>1. /\ streams'[t] = StreamAfter(p, o)
            /\ files'[t] = FileAfter(p, o, FreshPath)
        BY <3>3 DEF ProcessRecord, handle_process_record, IInv, TypeOK,
                    StateMachineTypeOK
      <4> QED
        BY <1>6, <4>1
    <3> QED
      BY <3>1, <3>2, <3>3
  <2> QED
    BY <2>1 DEF OpenFilesSound, DataOf, IsData
<1>8. PoolSound'
  <2>1. ASSUME NEW u \in pool'
        PROVE  /\ DataOf(u.offsets) \subseteq u.data
               /\ u.stored => u.data \subseteq durable'
    <3>1. CASE u \in pool
      BY <3>1 DEF HistoryGrows, IInv, Custody, PoolSound
    <3>2. CASE u = ToUpload(StreamAfter(p, o), FileAfter(p, o, FreshPath))
      BY <1>6, <3>2, SealedSound
    <3> QED
      BY <3>1, <3>2 DEF ProcessRecord
  <2> QED
    BY <2>1 DEF PoolSound, DataOf, IsData
<1> QED
  BY <1>4, <1>5, <1>7, <1>8, UploadedKept, CommittedKept, PendingKept
     DEF ProcessRecord, handle_process_record, Custody

\* The list to commit holds safe offsets: from a safe watermark up to its end
\* every offset is uploaded, and what is uploaded is stored.
LEMMA ListSafe ==
    ASSUME IInv, NEW A, NEW p \in Partitions
    PROVE  Safe(p, TopicPartitionList(A)[p])
<1> DEFINE w == offsets_watermark[p]
           up == offsets_uploaded[p]
           end == ContiguousEnd(up, w)
<1>1. TopicPartitionList(A)[p] = IF p \in A /\ w # NoOffset /\ end > w
                                 THEN end ELSE NoOffset
  BY DEF TopicPartitionList
<1>2. CASE w # NoOffset
  <2>1. w \in Nat /\ up \in SUBSET Offsets
    BY <1>2 DEF IInv, TypeOK, StateMachineTypeOK, MaybeOffset
  <2>2. end \in Nat /\ w .. end - 1 \subseteq up
    BY <2>1, ContiguousEndCorrect DEF IsContiguousEnd
  <2>3. Safe(p, w)
    BY DEF IInv, Custody, WatermarkSafe
  <2>4. ASSUME NEW x \in Offsets, IsData(<<p, x>>), x < end, ~ (x < w)
        PROVE  <<p, x>> \in durable
    <3>1. x \in w .. end - 1
      BY <2>1, <2>2, <2>4 DEF Offsets
    <3> QED
      BY <2>2, <2>4, <3>1 DEF IInv, Custody, UploadedStored
  <2>5. Safe(p, end)
    BY <2>3, <2>4 DEF Safe, SafeIn
  <2>6. Safe(p, NoOffset)
    BY NothingBelow DEF Safe
  <2> QED
    BY <1>1, <2>5, <2>6
<1>3. CASE w = NoOffset
  BY <1>1, <1>3, NothingBelow DEF Safe
<1> QED
  BY <1>2, <1>3

LEMMA CommitTickCustody ==
    ASSUME IInv, HistoryGrows, CommitTick
    PROVE  Custody'
<1> DEFINE tpl == TopicPartitionList(assignment)
<1> USE DEF procvars, worldvars
<1>1. ASSUME NEW p \in Partitions
      PROVE  /\ offsets_watermark'[p] =
                   IF tpl[p] = NoOffset THEN offsets_watermark[p] ELSE tpl[p]
             /\ offsets_uploaded'[p] \subseteq offsets_uploaded[p]
  BY DEF CommitTick, make_topic_partition_list
<1>2. WatermarkSafe'
  <2>1. ASSUME NEW p \in Partitions PROVE Safe(p, offsets_watermark'[p])
    <3>1. Safe(p, tpl[p])
      BY ListSafe
    <3>2. Safe(p, offsets_watermark[p])
      BY DEF IInv, Custody, WatermarkSafe
    <3> QED
      BY <1>1, <3>1, <3>2
  <2> QED
    BY <2>1, SafeKept DEF WatermarkSafe, Safe
<1>3. PositionSafe'
  <2>1. ASSUME NEW p \in assignment', offsets_watermark'[p] = NoOffset
        PROVE  offsets_watermark[p] = NoOffset
    <3>1. p \in Partitions
      BY DEF CommitTick, IInv, TypeOK
    <3> QED
      BY <1>1, <2>1, <3>1
  <2> QED
    BY <2>1, PositionKept DEF CommitTick, BeingRevoked
<1>4. PendingSafe'
  <2>1. CASE commits' = commits
    BY <2>1, PendingKept
  <2>2. CASE commits' = Append(commits, tpl)
    <3>1. commits \in Seq(CommitList) /\ tpl \in CommitList
      BY ListType DEF IInv, TypeOK
    <3>2. /\ Len(commits) \in Nat
          /\ Len(commits') = Len(commits) + 1
          /\ commits'[Len(commits) + 1] = tpl
          /\ \A i \in 1 .. Len(commits) : commits'[i] = commits[i]
      BY <2>2, <3>1, AppendProperties, LenProperties
    <3>3. ASSUME NEW i \in 1 .. Len(commits'), NEW p \in Partitions
          PROVE  Safe(p, commits'[i][p])
      <4>1. CASE i = Len(commits) + 1
        BY <3>2, <4>1, ListSafe
      <4>2. CASE i # Len(commits) + 1
        <5>1. i \in 1 .. Len(commits)
          BY <3>2, <4>2
        <5> QED
          BY <3>2, <5>1 DEF IInv, Custody, PendingSafe
      <4> QED
        BY <4>1, <4>2
    <3> QED
      BY <3>3, SafeKept DEF PendingSafe, Safe
  <2> QED
    BY <2>1, <2>2 DEF CommitTick
<1>5. OpenFilesSound'
  BY FilesKept DEF CommitTick, make_topic_partition_list
<1> QED
  BY <1>1, <1>2, <1>3, <1>4, <1>5, UploadedKept, PoolKept, CommittedKept
     DEF CommitTick, Custody

\* A completion counts as uploaded only what S3 has stored.
LEMMA UploadSuccessCustody ==
    ASSUME IInv, HistoryGrows, NEW u \in pool, u.stored, upload_success(u),
           pool' = pool \ {u}, UNCHANGED <<rebalance, groupvars, worldvars>>
    PROVE  Custody'
<1> USE DEF groupvars, worldvars
<1>1. PositionSafe'
  BY PositionKept DEF upload_success, BeingRevoked
<1>2. UploadedStored'
  <2>1. ASSUME NEW p \in Partitions, NEW o \in UploadedOffsets(u, p), IsData(<<p, o>>)
        PROVE  <<p, o>> \in durable'
    BY <2>1 DEF UploadedOffsets, IInv, Custody, PoolSound, DataOf
  <2> QED
    BY <2>1 DEF upload_success, IInv, Custody, UploadedStored, IsData
<1> QED
  BY <1>1, <1>2, WatermarkKept, PoolKept, FilesKept, CommittedKept, PendingKept
     DEF upload_success, Custody

LEMMA RetryCustody ==
    ASSUME IInv, HistoryGrows, NEW u \in pool,
           pool' = (pool \ {u}) \cup {decrement(u)},
           UNCHANGED <<smvars, rebalance, groupvars, worldvars>>
    PROVE  Custody'
<1> USE DEF smvars, groupvars, worldvars
<1>1. PositionSafe'
  BY PositionKept DEF BeingRevoked
<1>2. /\ decrement(u).data = u.data
      /\ decrement(u).offsets = u.offsets
      /\ decrement(u).stored = FALSE
  BY DEF decrement, IInv, TypeOK, Upload
<1>3. PoolSound'
  BY <1>2 DEF IInv, Custody, PoolSound, HistoryGrows, DataOf, IsData
<1> QED
  BY <1>1, <1>3, WatermarkKept, UploadedKept, FilesKept, CommittedKept, PendingKept
     DEF Custody

LEMMA EventLoopCustody ==
    ASSUME IInv, HistoryGrows, EventLoop
    PROVE  Custody'
<1> USE DEF smvars, procvars, groupvars, worldvars
<1>1. CASE DrainRevocation
  BY <1>1, RevocationCustody
<1>2. ASSUME NEW p \in Partitions, ProcessRecord(p) PROVE Custody'
  BY <1>2, ProcessRecordCustody
<1>3. ASSUME NEW p \in Partitions, ProcessRecordFails(p) PROVE Custody'
  BY <1>3, FatalKept DEF ProcessRecordFails
<1>4. ASSUME NEW p \in Partitions, SkipGap(p) PROVE Custody'
  <2>1. ASSUME NEW q \in assignment', offsets_watermark'[q] = NoOffset \/ BeingRevoked(q)'
        PROVE  Safe(q, position'[q])
    <3>1. q \in Partitions /\ Safe(q, position[q])
      BY <1>4, <2>1 DEF SkipGap, BeingRevoked, IInv, TypeOK, Custody, PositionSafe
    <3>2. CASE q # p
      BY <1>4, <3>1, <3>2 DEF SkipGap, ReadPast, IInv, TypeOK, CommitList
    <3>3. CASE q = p
      <4>1. position[p] \in Nat /\ ~ IsData(<<p, position[p]>>)
        BY <1>4, ReadType DEF SkipGap, IInv, IsData
      <4>2. position'[p] = position[p] + 1
        BY <1>4 DEF SkipGap, ReadPast, IInv, TypeOK, CommitList
      <4>3. ASSUME NEW o \in Offsets, o < position[p] + 1, o # position[p]
            PROVE  o < position[p]
        BY <4>1, <4>3 DEF Offsets
      <4> QED
        BY <3>1, <3>3, <4>1, <4>2, <4>3 DEF Safe, SafeIn
    <3> QED
      BY <3>2, <3>3
  <2>2. PositionSafe'
    BY <1>4, <2>1 DEF SkipGap, PositionSafe, Safe
  <2> QED
    BY <1>4, <2>2, FrameKept, CommittedKept, PendingKept DEF SkipGap, Custody
<1>5. CASE UploadTick
  <2>1. PICK S \in UploadBatches :
           IF CloseFails(S) THEN Fatal
           ELSE /\ handle_upload_tick(S)
                /\ pool' = pool \cup UploadsOf(S)
                /\ UNCHANGED <<status, disk, rebalance, groupvars, worldvars>>
    BY <1>5 DEF UploadTick
  <2>2. S \in SUBSET Streams
    BY DEF UploadBatches, Dormant, OpenStreams
  <2>3. CASE Fatal
    BY <2>3, FatalKept
  <2>4. CASE ~ CloseFails(S)
    BY <2>1, <2>2, <2>4, CloseCustody DEF handle_upload_tick
  <2> QED
    BY <2>1, <2>3, <2>4
<1>6. CASE CommitTick
  BY <1>6, CommitTickCustody
<1>7. ASSUME NEW u \in pool, UploadSucceeds(u) PROVE Custody'
  BY <1>7, UploadSuccessCustody DEF UploadSucceeds
<1>8. ASSUME NEW u \in pool, UploadFails(u) PROVE Custody'
  BY <1>8, RetryCustody, FatalKept DEF UploadFails
<1>9. CASE ShutdownSignal
  <2>1. OpenStreams \in SUBSET Streams
    BY DEF OpenStreams
  <2> QED
    BY <1>9, <2>1, FatalKept, CloseCustody DEF ShutdownSignal, handle_shutdown_signal
<1>10. CASE SealFails
  BY <1>10, FatalKept DEF SealFails
<1> QED
  BY <1>1, <1>2, <1>3, <1>4, <1>5, <1>6, <1>7, <1>8, <1>9, <1>10 DEF EventLoop

LEMMA DrainCustody ==
    ASSUME IInv, HistoryGrows, Drain
    PROVE  Custody'
<1> USE DEF smvars, procvars, groupvars, worldvars
<1>1. ASSUME NEW u \in pool, DrainUploadSucceeds(u) PROVE Custody'
  BY <1>1, UploadSuccessCustody DEF DrainUploadSucceeds
<1>2. ASSUME NEW u \in pool, DrainUploadFails(u) PROVE Custody'
  <2>1. CASE Fatal
    BY <2>1, FatalKept
  <2>2. CASE ~ Fatal
    <3>1. /\ pool' \subseteq pool
          /\ UNCHANGED <<smvars, rebalance, groupvars, worldvars>>
      BY <1>2, <2>2 DEF DrainUploadFails
    <3>2. PositionSafe'
      BY <3>1, PositionKept DEF BeingRevoked
    <3> QED
      BY <3>1, <3>2, WatermarkKept, UploadedKept, FilesKept, PoolKept,
         CommittedKept, PendingKept DEF Custody
  <2> QED
    BY <2>1, <2>2
<1>3. CASE FinalCommit
  <2> DEFINE tpl == TopicPartitionList(assignment)
  <2>1. CASE Fatal
    BY <2>1, FatalKept
  <2>2. CASE ~ Fatal
    <3>1. /\ \A p \in Partitions : committed'[p] \in {committed[p], tpl[p]}
          /\ ProcessEnds("stopped")
          /\ commits' = commits
      BY <1>3, <2>2 DEF FinalCommit
    <3>2. ASSUME NEW p \in Partitions PROVE Safe(p, committed'[p])
      <4>1. Safe(p, committed[p]) /\ Safe(p, tpl[p])
        BY ListSafe DEF IInv, Custody, CommittedSafe
      <4> QED
        BY <3>1, <4>1
    <3>3. CommittedSafe'
      BY <3>2, SafeKept DEF CommittedSafe, Safe
    <3> QED
      BY <3>1, <3>3, EndsKept, PendingKept DEF Custody
  <2> QED
    BY <2>1, <2>2
<1> QED
  BY <1>1, <1>2, <1>3 DEF Drain

-----------------------------------------------------------------------------
LEMMA CustodyInit == Init => Custody
<1> SUFFICES ASSUME Init PROVE Custody
  OBVIOUS
<1>1. \A p \in Partitions : Safe(p, NoOffset)
  BY NothingBelow DEF Safe
<1>2. CommittedSafe /\ WatermarkSafe
  BY <1>1 DEF Init, StateMachineInit, CommittedSafe, WatermarkSafe
<1>3. PendingSafe /\ PositionSafe
  BY EmptySeq DEF Init, PendingSafe, PositionSafe
<1>4. UploadedStored /\ PoolSound /\ OpenFilesSound
  BY DEF Init, StateMachineInit, UploadedStored, PoolSound, OpenFilesSound,
         NoStream, DataOf
<1> QED
  BY <1>2, <1>3, <1>4 DEF Custody

LEMMA CustodyNext == IInv /\ [Next]_vars => Custody'
<1> SUFFICES ASSUME IInv, [Next]_vars PROVE Custody'
  OBVIOUS
<1>1. HistoryGrows
  BY HistoryOnlyGrows DEF IInv
<1>2. CASE UNCHANGED vars
  <2>1. PositionSafe'
    BY <1>1, <1>2, PositionKept DEF vars, smvars, procvars, groupvars, BeingRevoked
  <2> QED
    BY <1>1, <1>2, <2>1, FrameKept, CommittedKept, PendingKept
       DEF vars, smvars, procvars, groupvars, Custody
<1> QED
  BY <1>1, <1>2, WorldCustody, EventLoopCustody, DrainCustody DEF Next

\* Custody suffices: below a safe committed offset all that is owed is stored.
LEMMA CustodyImplies == Custody => AtLeastOnce
BY DEF Custody, CommittedSafe, AtLeastOnce, Owed, Safe, SafeIn

\* What lies below the group's committed offset is in S3, whatever crashes,
\* rebalances, evictions, retries and late completions happened, for every
\* number of partitions, streams and records and every configuration of the
\* sink (the whole of the state machine and of the event loop).
THEOREM AtLeastOnceHolds == Spec => []AtLeastOnce
<1>1. Init => IInv
  BY TypeInit, CustodyInit DEF IInv
<1>2. IInv /\ [Next]_vars => IInv'
  BY TypeNext, CustodyNext DEF IInv
<1>3. IInv => AtLeastOnce
  BY CustodyImplies DEF IInv
<1> QED
  BY <1>1, <1>2, <1>3, PTL DEF Spec

\* Only a partition that is begun anew is ever reset.
LEMMA ResetsOnlyBegin ==
    ASSUME [Next]_vars
    PROVE  resets' = resets \/ \E P \in SUBSET Partitions : resets' = Resets(P)
<1> USE DEF smvars, procvars, groupvars, worldvars
<1>1. CASE World
  <2>1. \/ resets' = resets
        \/ \E A \in SUBSET Partitions : resets' = Resets(A)
        \/ \E q \in Partitions : resets' = Resets({q})
    BY <1>1 DEF World, Produce, TimePasses, Assign, Revoke, Evict, PeerProgress,
       BrokerAppliesCommit, CommitLost, StoreObject, Crash, Restart, Fatal
  <2>2. \A q \in Partitions : {q} \in SUBSET Partitions
    OBVIOUS
  <2> QED
    BY <2>1, <2>2
<1>2. CASE EventLoop
  BY <1>2 DEF EventLoop, DrainRevocation, ProcessRecord, ProcessRecordFails, SkipGap,
     UploadTick, SealFails, CommitTick, UploadSucceeds, UploadFails, ShutdownSignal, Fatal
<1>3. CASE Drain
  BY <1>3 DEF Drain, DrainUploadSucceeds, DrainUploadFails, FinalCommit, Fatal
<1>4. CASE UNCHANGED vars
  BY <1>4 DEF vars
<1> QED
  BY <1>1, <1>2, <1>3, <1>4 DEF Next

\* The promise of the README as it stands, no record written since the group
\* began is lost, holds of a group that begins at the earliest offset: there
\* the latest reset is the first one.  With the reset main.rs asks for it does
\* not hold.
THEOREM SinceFirstStartHolds ==
    OffsetReset = "earliest" /\ Spec => []AtLeastOnceSinceFirstStart
<1> DEFINE FromZero == OffsetReset = "earliest" /\ \A p \in Partitions : resets[p] \subseteq {0}
<1>1. OffsetReset = "earliest" /\ Init => FromZero
  BY DEF Init
<1>2. FromZero /\ [Next]_vars => FromZero'
  <2> SUFFICES ASSUME FromZero, [Next]_vars PROVE FromZero'
    OBVIOUS
  <2>1. ASSUME NEW P, resets' = Resets(P) PROVE FromZero'
    BY <2>1 DEF Resets, ResetPosition
  <2> QED
    BY <2>1, ResetsOnlyBegin
<1>3. FromZero /\ AtLeastOnce => AtLeastOnceSinceFirstStart
  <2> SUFFICES ASSUME FromZero, AtLeastOnce, NEW p \in Partitions, NEW o \in Offsets,
                      IsData(<<p, o>>), o < committed[p]
               PROVE  <<p, o>> \in durable
    BY DEF AtLeastOnceSinceFirstStart
  <2>1. Owed(p, o)
    BY DEF Owed, Offsets
  <2> QED
    BY <2>1 DEF AtLeastOnce
<1> HIDE DEF FromZero
<1> QED
  BY <1>1, <1>2, <1>3, AtLeastOnceHolds, PTL DEF Spec
=============================================================================
